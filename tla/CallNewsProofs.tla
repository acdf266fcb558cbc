--------------------------- MODULE CallNewsProofs ---------------------------
(***************************************************************************)
(* Proofs about Calls and CallNews, for any calls, participants, requests  *)
(* and ring period.                                                        *)
(*                                                                         *)
(* The first part is about the rows of calls: they are well typed, their   *)
(* stamps agree with their states, and Calls implements CallLifecycle.     *)
(* The second is about calls with their events: they still implement       *)
(* CallLifecycle, the end of a call is told, and the last event heard of a *)
(* call is true unless the call overtook it.                               *)
(***************************************************************************)
EXTENDS CallNews, TLAPS

-----------------------------------------------------------------------------
(* Calls.                                                                  *)

\* What the rows and the requests in flight have in common.  A request that passed
\* the checks did so after its call started, and after the answer if it read one;
\* no call is ever INITIATED; and what it read of an answered call stays true.
Sound ==
  /\ \A c \in Calls :
       /\ status[c] # "INITIATED"
       /\ startedAt[c] # None => startedAt[c] <= clock
       /\ answeredAt[c] # None => answeredAt[c] <= clock
  /\ \A r \in Requests : req[r] # Idle =>
       /\ req[r].seen \notin {None, "INITIATED"}
       /\ req[r].seen = "ACCEPTED" => status[req[r].call] \in {"ACCEPTED", "ENDED"}
       /\ req[r].at # None =>
            /\ req[r].at <= clock
            /\ startedAt[req[r].call] <= req[r].at
            /\ req[r].to = "MISSED" => Rung(req[r].call)
            /\ req[r].seen = "ACCEPTED" => answeredAt[req[r].call] <= req[r].at

IInv == TypeOK /\ StampsAgree /\ Sound

-----------------------------------------------------------------------------
LEMMA InitIInv == Init => IInv
BY ConstantsAssumption
   DEF Init, IInv, TypeOK, StampsAgree, Sound, Idle, row, CallStatus, Targets

LEMMA CreateCallIInv ==
  ASSUME IInv, NEW c \in Calls, NEW p \in Parties, CreateCall(c, p)
  PROVE  IInv'
<1> USE ConstantsAssumption DEF IInv, CreateCall
<1>1. TypeOK'
  BY DEF TypeOK, CallStatus, Targets, Idle, CanTransition
<1>2. StampsAgree'
  BY DEF TypeOK, StampsAgree
<1>3. Sound'
  BY DEF TypeOK, Sound, Rung, Idle, CallStatus
<1>4. QED BY <1>1, <1>2, <1>3

LEMMA ReadCallIInv ==
  ASSUME IInv, NEW r \in Requests, NEW p \in Parties, NEW c \in Calls,
         NEW to \in Targets, ReadCall(r, p, c, to)
  PROVE  IInv'
<1> USE ConstantsAssumption DEF IInv, ReadCall, row
<1>1. TypeOK'
  BY DEF TypeOK, CallStatus, Targets, Idle, CanTransition
<1>2. StampsAgree'
  BY DEF StampsAgree
<1>3. Sound'
  BY DEF TypeOK, Sound, Rung, Idle, CallStatus
<1>4. QED BY <1>1, <1>2, <1>3

LEMMA CheckCallIInv ==
  ASSUME IInv, NEW r \in Requests, CheckCall(r)
  PROVE  IInv'
<1> USE ConstantsAssumption DEF IInv, CheckCall, Answer, row
<1>1. TypeOK'
  BY DEF TypeOK, CallStatus, Targets, Idle, CanTransition
<1>2. StampsAgree'
  BY DEF StampsAgree
<1>3. Sound'
  BY DEF TypeOK, StampsAgree, Sound, Rung, Idle, CallStatus
<1>4. QED BY <1>1, <1>2, <1>3

\* What UpdateCall does when the row is as it was read: the move is legal.
LEMMA UpdateIsLegal ==
  ASSUME IInv, NEW r \in Requests, req[r].at # None,
         status[req[r].call] = req[r].seen
  PROVE  /\ req[r] # Idle /\ req[r].call \in Calls /\ req[r].at \in Nat
         /\ \/ req[r].seen = "RINGING" /\ req[r].to \in Targets \ {"ENDED"}
            \/ req[r].seen = "ACCEPTED" /\ req[r].to = "ENDED"
         /\ req[r].to = "MISSED" => Rung(req[r].call)
BY ConstantsAssumption
   DEF IInv, TypeOK, Sound, Idle, CanTransition, CallStatus, Targets

LEMMA UpdateCallIInv ==
  ASSUME IInv, NEW r \in Requests, UpdateCall(r)
  PROVE  IInv'
<1> USE ConstantsAssumption DEF IInv, UpdateCall, Answer
<1>1. CASE status[req[r].call] # req[r].seen
  BY <1>1 DEF TypeOK, StampsAgree, Sound, Idle, Rung, row
<1>2. CASE status[req[r].call] = req[r].seen
  <2> DEFINE c == req[r].call
             to == req[r].to
  <2>1. /\ req[r] # Idle /\ c \in Calls /\ req[r].at \in Nat
        /\ \/ status[c] = "RINGING" /\ to \in Targets \ {"ENDED"}
           \/ status[c] = "ACCEPTED" /\ to = "ENDED"
    BY <1>2, UpdateIsLegal
  <2>2. /\ status' = [status EXCEPT ![c] = to]
        /\ answeredAt' = IF to = "ACCEPTED"
                           THEN [answeredAt EXCEPT ![c] = req[r].at]
                           ELSE answeredAt
        /\ endedAt' = IF to = "ACCEPTED" THEN endedAt
                                         ELSE [endedAt EXCEPT ![c] = req[r].at]
        /\ req' = [req EXCEPT ![r] = Idle]
        /\ UNCHANGED <<clock, caller, startedAt>>
    BY <1>2 DEF Stamps
  <2>3. TypeOK'
    BY <2>1, <2>2 DEF TypeOK, CallStatus, Targets, Idle
  <2>4. StampsAgree'
    BY <2>1, <2>2 DEF TypeOK, StampsAgree, Sound, Targets
  <2>5. Sound'
    BY <2>1, <2>2 DEF TypeOK, Sound, StampsAgree, Rung, Targets, Idle
  <2>6. QED BY <2>3, <2>4, <2>5
<1>3. QED BY <1>1, <1>2

LEMMA RequestDiesIInv ==
  ASSUME IInv, NEW r \in Requests, RequestDies(r)
  PROVE  IInv'
BY ConstantsAssumption
   DEF IInv, TypeOK, StampsAgree, Sound, RequestDies, Answer, Idle, Rung, row

LEMMA TickIInv ==
  ASSUME IInv, Tick
  PROVE  IInv'
<1> USE ConstantsAssumption DEF IInv, Tick, row
<1>1. TypeOK'
  BY DEF TypeOK, Idle
<1>2. StampsAgree'
  BY DEF StampsAgree
<1>3. Sound'
  BY DEF TypeOK, Sound, Rung, Idle
<1>4. QED BY <1>1, <1>2, <1>3

LEMMA StepIInv == IInv /\ [Next]_vars => IInv'
<1> SUFFICES ASSUME IInv, [Next]_vars PROVE IInv'
  OBVIOUS
<1>1. CASE Next
  BY <1>1, CreateCallIInv, ReadCallIInv, CheckCallIInv, UpdateCallIInv,
     RequestDiesIInv, TickIInv DEF Next
<1>2. CASE UNCHANGED vars
  BY <1>2 DEF vars, row, IInv, TypeOK, StampsAgree, Sound, Idle, Rung
<1>3. QED BY <1>1, <1>2

LEMMA Invariance == Spec => []IInv
BY InitIInv, StepIInv, PTL DEF Spec

\* The variables keep their types, and a request that is past its checks asks for a
\* transition that the table allows.
THEOREM TypeCorrect == Spec => []TypeOK
BY Invariance, PTL DEF IInv

\* answered_at and ended_at tell the truth about the state of a call, in order,
\* whatever requests raced on it (chat.service.ts:764-779).
THEOREM StampsCorrect == Spec => []StampsAgree
BY Invariance, PTL DEF IInv

-----------------------------------------------------------------------------
(* Calls implements CallLifecycle.                                         *)

LEMMA InitKept == Init => Promise!Init
BY ConstantsAssumption DEF Init, Promise!Init

LEMMA StepKept == IInv /\ [Next]_vars => [Promise!Next]_(Promise!vars)
<1> SUFFICES ASSUME IInv, [Next]_vars PROVE [Promise!Next]_(Promise!vars)
  OBVIOUS
<1> DEFINE due == {c \in Calls : status[c] # None /\ Rung(c)}
<1>1. ASSUME NEW c \in Calls, NEW p \in Parties, CreateCall(c, p)
      PROVE  Promise!Ring(c)
  <2>1. status[c] = None /\ status' = [status EXCEPT ![c] = "RINGING"]
    BY <1>1 DEF CreateCall
  <2>2. due' = due
    BY <1>1, ConstantsAssumption DEF CreateCall, IInv, TypeOK, Rung
  <2>3. QED BY <2>1, <2>2 DEF Promise!Ring, Promise!Move
<1>2. ASSUME NEW r \in Requests, UpdateCall(r)
      PROVE  [Promise!Next]_(Promise!vars)
  <2>1. CASE status[req[r].call] # req[r].seen
    BY <1>2, <2>1 DEF UpdateCall, Promise!vars, Rung
  <2>2. CASE status[req[r].call] = req[r].seen
    <3> DEFINE c == req[r].call
               to == req[r].to
    <3>1. /\ c \in Calls
          /\ \/ status[c] = "RINGING" /\ to \in Targets \ {"ENDED"}
             \/ status[c] = "ACCEPTED" /\ to = "ENDED"
          /\ to = "MISSED" => Rung(c)
      BY <1>2, <2>2, UpdateIsLegal DEF UpdateCall
    <3>2. status' = [status EXCEPT ![c] = to] /\ UNCHANGED <<clock, startedAt>>
      BY <1>2, <2>2 DEF UpdateCall
    <3>3. due' = due
      BY <3>1, <3>2, ConstantsAssumption DEF IInv, TypeOK, Rung, Targets
    <3>4. \/ Promise!PickUp(c) \/ Promise!Decline(c) \/ Promise!Cancel(c)
          \/ Promise!HangUp(c) \/ Promise!Miss(c)
      BY <3>1, <3>2, <3>3, ConstantsAssumption
         DEF Promise!PickUp, Promise!Decline, Promise!Cancel, Promise!HangUp,
             Promise!Miss, Promise!Move, Targets
    <3>5. QED BY <3>1, <3>4 DEF Promise!Next
  <2>3. QED BY <2>1, <2>2
<1>3. CASE Tick
  <2>1. due \subseteq due' /\ status' = status
    BY <1>3, ConstantsAssumption DEF Tick, row, IInv, TypeOK, Rung
  <2>2. due' \in SUBSET {c \in Calls : status[c] # None}
    BY <2>1
  <2>3. QED BY <2>1, <2>2 DEF Promise!Next, Promise!RingPeriodsPass
<1>4. ASSUME UNCHANGED <<clock, row>> PROVE UNCHANGED Promise!vars
  BY <1>4 DEF row, Rung, Promise!vars
<1>5. QED
  BY <1>1, <1>2, <1>3, <1>4
     DEF Next, vars, ReadCall, CheckCall, RequestDies, Promise!Next

\* Whatever requests race, every call goes through its states as CallLifecycle has
\* it: answered, declined, cancelled or missed once while it rings, missed only
\* after the ring period, and ended only after an answer
\* (chat.repository.ts:465-485).
THEOREM CallsImplementLifecycle == Spec => KeepsPromise
BY InitKept, StepKept, Invariance, PTL DEF Spec, KeepsPromise, Promise!Spec

-----------------------------------------------------------------------------
(* Calls with their events.                                                *)

\* A call that is over has been told to be, or somebody is about to: they have yet to
\* read the row, or have read the end.
Telling ==
  \A c \in Calls :
    status[c] \in Over /\ c \notin lost =>
      \/ status[c] \in told[c]
      \/ \E r \in Requests : tail[r].call = c /\ tail[r].status \in {None, status[c]}

Quiet(c) == c \notin lost \cup overtaken

\* Nobody has heard of a call that does not exist, and nothing of it is owed.
Unborn ==
  \A c \in Calls : status[c] = None =>
    /\ c \notin incoming
    /\ \A r \in Requests : tail[r].call # c
    /\ \A p \in Parties : heard[c][p] = None

\* While a call is not overtaken, its invitation is owed only as long as it rings, to
\* callees that have heard nothing that matters, and at most one update is owed, of
\* which the row still is what was read.
OneOwed ==
  \A c \in Calls : Quiet(c) =>
    /\ c \in incoming => /\ status[c] = "RINGING" /\ heard[c][caller[c]] = None
                         /\ \A r \in Requests : tail[r].call # c
    /\ \A r \in Requests : tail[r].call = c =>
         /\ status[c] \notin {None, "RINGING"}
         /\ tail[r].status \in {None, status[c]}
         /\ \A q \in Requests : tail[q].call = c => q = r

NewsIInv ==
  IInv /\ NewsTypeOK /\ Telling /\ Unborn /\ OneOwed /\ LastWordIsTrue

-----------------------------------------------------------------------------
LEMMA InitNews == NewsInit => NewsIInv
<1> SUFFICES ASSUME NewsInit PROVE NewsIInv
  OBVIOUS
<1> USE ConstantsAssumption DEF NewsInit
<1>1. IInv
  BY InitIInv
<1>2. \A c \in Calls : status[c] = None
  BY DEF Init
<1>3. NewsTypeOK
  BY <1>1 DEF IInv, NewsTypeOK, Done, CallStatus, Targets
<1>4. Telling /\ Unborn /\ OneOwed /\ LastWordIsTrue
  BY <1>2 DEF Telling, Unborn, OneOwed, LastWordIsTrue, Over, Done
<1>5. QED BY <1>1, <1>3, <1>4 DEF NewsIInv

\* The steps of Calls keep its invariant.
LEMMA CallsKept == IInv /\ [NewsNext]_newsVars => IInv'
<1> SUFFICES ASSUME IInv, [NewsNext]_newsVars PROVE IInv'
  OBVIOUS
<1>1. CASE Crash
  BY <1>1, ConstantsAssumption
     DEF Crash, row, IInv, TypeOK, StampsAgree, Sound, Idle, Rung
<1>2. CASE [Next]_vars
  BY <1>2, StepIInv
<1>3. QED
  BY <1>1, <1>2
     DEF NewsNext, newsVars, Next, Dial, EmitIncoming, Ask, Check, Transition,
         ReadAgain, EmitUpdated, ReadAgainFails

\* Steps that publish nothing and change no call.
LEMMA UnheardIInv ==
  ASSUME NewsIInv, IInv', UNCHANGED <<row, news>>,
         \A r \in Requests : req'[r] = req[r] \/ req'[r] = Idle \/ tail[r] = Done
  PROVE  NewsIInv'
<1> USE DEF NewsIInv, row, news
<1>1. NewsTypeOK'
  BY DEF IInv, NewsTypeOK
<1>2. (Telling /\ Unborn /\ OneOwed /\ LastWordIsTrue)'
  BY DEF Telling, Unborn, OneOwed, Quiet, LastWordIsTrue, Owed
<1>3. QED BY <1>1, <1>2

LEMMA DialIInv ==
  ASSUME NewsIInv, IInv', NEW c \in Calls, NEW p \in Parties, Dial(c, p)
  PROVE  NewsIInv'
<1> USE ConstantsAssumption DEF NewsIInv, Dial, CreateCall
<1>1. NewsTypeOK'
  BY DEF IInv, NewsTypeOK
<1>2. /\ status' = [status EXCEPT ![c] = "RINGING"] /\ status[c] = None
      /\ caller' = [caller EXCEPT ![c] = p]
      /\ status \in [Calls -> CallStatus \cup {None}]
      /\ caller \in [Calls -> Parties \cup {None}]
  BY DEF NewsTypeOK, TypeOK
<1>3. Telling' /\ Unborn'
  BY <1>2 DEF Telling, Unborn, Over
<1>4. OneOwed'
  BY <1>2 DEF OneOwed, Quiet, Unborn
<1>5. LastWordIsTrue'
  BY <1>2 DEF LastWordIsTrue, Owed
<1>6. QED BY <1>1, <1>3, <1>4, <1>5

LEMMA EmitIncomingIInv ==
  ASSUME NewsIInv, IInv', NEW c \in Calls, EmitIncoming(c)
  PROVE  NewsIInv'
<1> USE ConstantsAssumption DEF NewsIInv, EmitIncoming, vars, row
<1>1. /\ heard' = [heard EXCEPT ![c] =
                     [p \in Parties |-> IF p # caller[c] THEN "RINGING" ELSE @[p]]]
      /\ heard \in [Calls -> [Parties -> CallStatus \cup {None}]]
  BY DEF Hear, NewsTypeOK
<1>2. NewsTypeOK'
  BY <1>1 DEF IInv, NewsTypeOK, CallStatus, Targets
<1>3. Telling'
  BY DEF Telling
<1>4. status[c] # None
  BY DEF Unborn
<1>5. Unborn'
  BY <1>1, <1>4 DEF Unborn
<1>6. OneOwed'
  BY <1>1 DEF OneOwed, Quiet
<1>7. LastWordIsTrue'
  <2> SUFFICES ASSUME NEW d \in Calls, NEW p \in Parties, ~ Owed(d)', Quiet(d)
               PROVE  heard'[d][p] = IF status[d] = "RINGING" /\ p = caller[d]
                                       THEN None ELSE status[d]
    BY DEF LastWordIsTrue, Quiet
  <2>1. CASE d = c
    BY <2>1, <1>1 DEF OneOwed
  <2>2. CASE d # c
    BY <2>2, <1>1 DEF LastWordIsTrue, Owed, Quiet
  <2>3. QED BY <2>1, <2>2
<1>8. QED BY <1>2, <1>3, <1>5, <1>6, <1>7

LEMMA TransitionIInv ==
  ASSUME NewsIInv, IInv', NEW r \in Requests, Transition(r)
  PROVE  NewsIInv'
<1> USE ConstantsAssumption DEF NewsIInv, Transition
<1>1. /\ req[r].at # None /\ tail[r] = Done /\ req' = [req EXCEPT ![r] = Idle]
      /\ UNCHANGED caller
  BY DEF UpdateCall, Answer, NewsTypeOK, Idle
<1>2. CASE ~ Finds(r)
  BY <1>1, <1>2, UnheardIInv DEF UpdateCall, Finds, row, news, NewsTypeOK, TypeOK
<1>3. CASE Finds(r)
  <2> DEFINE c == req[r].call
             to == req[r].to
  <2>1. /\ c \in Calls
        /\ \/ status[c] = "RINGING" /\ to \in Targets \ {"ENDED"}
           \/ status[c] = "ACCEPTED" /\ to = "ENDED"
    BY <1>1, <1>3, UpdateIsLegal DEF Finds
  <2>2. /\ status' = [status EXCEPT ![c] = to]
        /\ status \in [Calls -> CallStatus \cup {None}]
        /\ tail' = [tail EXCEPT ![r] = [call |-> c, status |-> None]]
        /\ tail \in [Requests -> [call : Calls \cup {None},
                                  status : CallStatus \cup {None}]]
        /\ overtaken' = overtaken \cup {d \in {c} : Owed(d)}
    BY <1>1, <1>3 DEF UpdateCall, Finds, NewsTypeOK, TypeOK, Done
  <2>3. NewsTypeOK'
    BY <1>1, <2>1, <2>2 DEF IInv, NewsTypeOK, TypeOK, Done, Idle
  <2>4. Telling'
    <3> SUFFICES ASSUME NEW d \in Calls, status'[d] \in Over, d \notin lost
                 PROVE  \/ status'[d] \in told[d]
                        \/ \E q \in Requests : /\ tail'[q].call = d
                                               /\ tail'[q].status \in {None, status'[d]}
      BY DEF Telling
    <3>1. CASE d = c
      BY <3>1, <2>2
    <3>2. CASE d # c
      BY <3>2, <1>1, <2>2 DEF Telling, Done
    <3>3. QED BY <3>1, <3>2
  <2>5. Unborn'
    BY <1>1, <2>1, <2>2 DEF Unborn, Targets
  <2>6. OneOwed'
    <3> SUFFICES ASSUME NEW d \in Calls, Quiet(d)'
                 PROVE  /\ d \in incoming =>
                             /\ status'[d] = "RINGING" /\ heard[d][caller[d]] = None
                             /\ \A q \in Requests : tail'[q].call # d
                        /\ \A q \in Requests : tail'[q].call = d =>
                             /\ status'[d] \notin {None, "RINGING"}
                             /\ tail'[q].status \in {None, status'[d]}
                             /\ \A s \in Requests : tail'[s].call = d => s = q
      BY <1>1 DEF OneOwed
    <3>1. Quiet(d)
      BY <2>2 DEF Quiet
    <3>2. CASE d = c
      <4>1. ~ Owed(c)
        BY <3>2, <2>2 DEF Quiet
      <4>2. QED BY <3>2, <4>1, <2>1, <2>2 DEF Owed, Targets
    <3>3. CASE d # c
      BY <3>1, <3>3, <1>1, <2>2 DEF OneOwed, Done
    <3>4. QED BY <3>2, <3>3
  <2>7. LastWordIsTrue'
    BY <1>1, <2>1, <2>2 DEF LastWordIsTrue, Owed, Done
  <2>8. QED BY <2>3, <2>4, <2>5, <2>6, <2>7
<1>4. QED BY <1>2, <1>3

LEMMA ReadAgainIInv ==
  ASSUME NewsIInv, IInv', NEW r \in Requests, ReadAgain(r)
  PROVE  NewsIInv'
<1> USE ConstantsAssumption DEF NewsIInv, ReadAgain, vars, row
<1> DEFINE c == tail[r].call
<1>0. /\ tail \in [Requests -> [call : Calls \cup {None},
                                status : CallStatus \cup {None}]]
      /\ c \in Calls
  BY DEF NewsTypeOK
<1>1. /\ tail' = [tail EXCEPT ![r] = [call |-> c, status |-> status[c]]]
      /\ status[c] \in CallStatus
  <2>1. status[c] \in CallStatus
    BY <1>0 DEF NewsTypeOK, TypeOK, Unborn
  <2>2. [tail[r] EXCEPT !.status = status[c]] = [call |-> c, status |-> status[c]]
    BY <1>0
  <2>3. QED BY <2>1, <2>2
<1>2. NewsTypeOK'
  BY <1>0, <1>1 DEF IInv, NewsTypeOK, Done
<1>3. Telling' /\ Unborn'
  BY <1>0, <1>1 DEF Telling, Unborn
<1>4. OneOwed'
  BY <1>0, <1>1 DEF OneOwed, Quiet
<1>5. LastWordIsTrue'
  BY <1>0, <1>1 DEF LastWordIsTrue, Owed
<1>6. QED BY <1>2, <1>3, <1>4, <1>5

LEMMA EmitUpdatedIInv ==
  ASSUME NewsIInv, IInv', NEW r \in Requests, EmitUpdated(r)
  PROVE  NewsIInv'
<1> USE ConstantsAssumption DEF NewsIInv, EmitUpdated, vars, row
<1> DEFINE c == tail[r].call
           s == tail[r].status
<1>1. /\ c \in Calls /\ s \in CallStatus
      /\ tail' = [tail EXCEPT ![r] = Done]
      /\ tail \in [Requests -> [call : Calls \cup {None},
                                status : CallStatus \cup {None}]]
      /\ told' = [told EXCEPT ![c] = @ \cup {s}]
      /\ told \in [Calls -> SUBSET CallStatus]
  BY DEF NewsTypeOK
<1>2. /\ heard' = [heard EXCEPT ![c] = [p \in Parties |-> s]]
      /\ heard \in [Calls -> [Parties -> CallStatus \cup {None}]]
  BY DEF Hear, NewsTypeOK
<1>3. NewsTypeOK'
  BY <1>1, <1>2 DEF IInv, NewsTypeOK, Done
<1>4. Telling'
  <2> SUFFICES ASSUME NEW d \in Calls, status[d] \in Over, d \notin lost
               PROVE  \/ status[d] \in told'[d]
                      \/ \E q \in Requests : /\ tail'[q].call = d
                                             /\ tail'[q].status \in {None, status[d]}
    BY DEF Telling
  <2>1. CASE status[d] \in told[d]
    BY <2>1, <1>1
  <2>2. ASSUME NEW q \in Requests, tail[q].call = d, tail[q].status \in {None, status[d]}
        PROVE  \/ status[d] \in told'[d] \/ q # r
    BY <2>2, <1>1
  <2>3. QED BY <2>1, <2>2, <1>1 DEF Telling
<1>5. status[c] # None
  BY <1>1 DEF Unborn
<1>6. Unborn'
  BY <1>1, <1>2, <1>5 DEF Unborn, Done
<1>7. OneOwed'
  BY <1>1, <1>2 DEF OneOwed, Quiet, Done
<1>8. LastWordIsTrue'
  <2> SUFFICES ASSUME NEW d \in Calls, NEW p \in Parties, ~ Owed(d)', Quiet(d)
               PROVE  heard'[d][p] = IF status[d] = "RINGING" /\ p = caller[d]
                                       THEN None ELSE status[d]
    BY DEF LastWordIsTrue, Quiet
  <2>1. CASE d = c
    BY <2>1, <1>1, <1>2 DEF OneOwed
  <2>2. CASE d # c
    BY <2>2, <1>1, <1>2 DEF LastWordIsTrue, Owed, Quiet, Done
  <2>3. QED BY <2>1, <2>2
<1>9. QED BY <1>3, <1>4, <1>6, <1>7, <1>8

LEMMA ReadAgainFailsIInv ==
  ASSUME NewsIInv, IInv', NEW r \in Requests, ReadAgainFails(r)
  PROVE  NewsIInv'
<1> USE ConstantsAssumption DEF NewsIInv, ReadAgainFails, vars, row
<1>1. /\ tail[r].call \in Calls
      /\ tail \in [Requests -> [call : Calls \cup {None},
                                status : CallStatus \cup {None}]]
      /\ tail' = [tail EXCEPT ![r] = Done]
  BY DEF NewsTypeOK
<1>2. NewsTypeOK'
  BY <1>1 DEF IInv, NewsTypeOK, Done
<1>3. Telling' /\ Unborn'
  BY <1>1 DEF Telling, Unborn, Done
<1>4. OneOwed' /\ LastWordIsTrue'
  BY <1>1 DEF OneOwed, LastWordIsTrue, Quiet, Owed, Done
<1>5. QED BY <1>2, <1>3, <1>4

LEMMA CrashIInv ==
  ASSUME NewsIInv, IInv', Crash
  PROVE  NewsIInv'
<1> USE ConstantsAssumption DEF NewsIInv, Crash, row
<1>1. NewsTypeOK'
  BY DEF IInv, NewsTypeOK, Done
<1>2. Telling'
  BY DEF Telling, Owed
<1>3. Unborn' /\ OneOwed' /\ LastWordIsTrue'
  BY DEF Unborn, OneOwed, LastWordIsTrue, Quiet, Owed, Done
<1>4. QED BY <1>1, <1>2, <1>3

LEMMA StepNews == NewsIInv /\ [NewsNext]_newsVars => NewsIInv'
<1> SUFFICES ASSUME NewsIInv, [NewsNext]_newsVars PROVE NewsIInv'
  OBVIOUS
<1>1. IInv'
  BY CallsKept DEF NewsIInv
<1>2. ASSUME NEW r \in Requests, NEW p \in Parties, NEW c \in Calls, NEW to \in Targets,
             Ask(r, p, c, to)
      PROVE  NewsIInv'
  BY <1>1, <1>2, UnheardIInv
     DEF Ask, ReadCall, row, news, NewsIInv, NewsTypeOK, TypeOK
<1>3. ASSUME NEW r \in Requests, Check(r) \/ (RequestDies(r) /\ UNCHANGED news)
      PROVE  NewsIInv'
  BY <1>1, <1>3, UnheardIInv
     DEF Check, CheckCall, RequestDies, Answer, row, news, NewsIInv, NewsTypeOK, TypeOK
<1>4. CASE (Tick /\ UNCHANGED news) \/ UNCHANGED newsVars
  BY <1>1, <1>4, UnheardIInv DEF Tick, newsVars, vars, row, news
<1>5. QED
  BY <1>1, <1>2, <1>3, <1>4, DialIInv, EmitIncomingIInv, TransitionIInv, ReadAgainIInv,
     EmitUpdatedIInv, ReadAgainFailsIInv, CrashIInv DEF NewsNext

LEMMA NewsInvariance == NewsSpec => []NewsIInv
BY InitNews, StepNews, PTL DEF NewsSpec

\* The variables keep their types, and a handler that has answered its update holds
\* nothing of it but the event it owes.
THEOREM NewsTypeCorrect == NewsSpec => []NewsTypeOK
BY NewsInvariance, PTL DEF NewsIInv

\* Once its events are out, a call that is over has been published as over, whatever
\* transitions raced (chat.service.ts:764-786).
THEOREM EndIsAlwaysTold == NewsSpec => []EndIsTold
<1>1. NewsIInv => EndIsTold
  BY DEF NewsIInv, EndIsTold, Telling, Owed
<1>2. QED BY <1>1, NewsInvariance, PTL

\* What a participant was last told of a call is true unless the call overtook the
\* event (chat.service.ts:724-731, 774-786).
THEOREM LastWordIsAlwaysTrue == NewsSpec => []LastWordIsTrue
BY NewsInvariance, PTL DEF NewsIInv

\* Stamps agree although the process may stop, and not only single requests.
THEOREM NewsStampsCorrect == NewsSpec => []StampsAgree
BY NewsInvariance, PTL DEF NewsIInv, IInv

\* With its events and crashes Calls still implements CallLifecycle: a crash forgets
\* requests and touches no row.
THEOREM NewsImplementLifecycle == NewsSpec => KeepsPromise
<1>1. NewsInit => Promise!Init
  BY InitKept DEF NewsInit
<1>2. NewsIInv /\ [NewsNext]_newsVars => [Promise!Next]_(Promise!vars)
  <2> SUFFICES ASSUME NewsIInv, [NewsNext]_newsVars
               PROVE  [Promise!Next]_(Promise!vars)
    OBVIOUS
  <2>1. CASE Crash
    BY <2>1 DEF Crash, row, Rung, Promise!vars
  <2>2. CASE [Next]_vars
    BY <2>2, StepKept DEF NewsIInv
  <2>3. QED
    BY <2>1, <2>2
       DEF NewsNext, newsVars, Next, Dial, EmitIncoming, Ask, Check, Transition,
           ReadAgain, EmitUpdated, ReadAgainFails
<1>3. QED
  BY <1>1, <1>2, NewsInvariance, PTL DEF NewsSpec, KeepsPromise, Promise!Spec
=============================================================================
