------------------------- MODULE EventisChatProofs -------------------------
(***************************************************************************)
(* Proofs about EventisChat, for any people, events, conversations and     *)
(* requests: writers were entitled to write, blocks silence, the organizer *)
(* takes part in every conversation about their event, and the window of   *)
(* the rate limiter is exact for any limit and width.                      *)
(***************************************************************************)
EXTENDS EventisChat, FiniteSetTheorems, TLAPS

\* Who asks is a member, and a barred request asks a peer behind a block.
Asked(q, bl) ==
  q.pc # "idle" =>
    /\ q.conv \in Conversations /\ q.who \in q.conv /\ q.peer \in People
    /\ q.barred => {<<q.who, q.peer>>, <<q.peer, q.who>>} \cap bl # {}

\* What a request has been told so far was true since it began; what is true now it
\* holds already.
Told(q, ev, regs) ==
  /\ q.regs = {Unread} => q.pc \in Pending
  /\ q.pc \in Pending =>
       /\ Held(q.pc, q.who, q.ctx, ev, regs) \subseteq q.held
       /\ q.barred => q.blocked \in {Unread, TRUE}
       /\ q.ctx = None => q.event = None /\ q.regs = {}
       /\ q.ctx # None /\ q.event \in Statuses(q.pc) => "event" \in q.held
       /\ q.ctx # None /\ q.event \notin {None, Unread} /\ q.regs # {Unread} =>
            (RoleOf(q.who, q.ctx, q.regs) \in Roles(q.pc) => "role" \in q.held)

\* What a request may do that the policy has allowed.
Allowed(q) ==
  q.pc \in {"creating", "writing"} =>
    /\ ~q.barred
    /\ {"event", "role"} \subseteq q.held
    /\ q.pc = "creating" /\ q.ctx # None => Poster[q.ctx] \in q.conv

IInv ==
  /\ TypeOK
  /\ \A r \in Requests : Asked(req[r], blocks) /\ Told(req[r], event, registered) /\ Allowed(req[r])
  /\ EventTalksIncludeTheOrganizer

-----------------------------------------------------------------------------
LEMMA IdleOK == Idle \in Req /\ Asked(Idle, blocks) /\ Told(Idle, event, registered) /\ Allowed(Idle)
BY ConstantsAssumption DEF Idle, Req, Asked, Told, Allowed, Pending

LEMMA InitIInv == Init => IInv
BY IdleOK, ConstantsAssumption
   DEF Init, IInv, TypeOK, EventTalksIncludeTheOrganizer, Lifecycle

\* A step that changes one request, and neither the world nor the conversations.
LEMMA OneRequest ==
  ASSUME IInv, NEW r \in Requests, NEW q, req' = [req EXCEPT ![r] = q],
         UNCHANGED <<world, context>>,
         q \in Req, Asked(q, blocks), Told(q, event, registered), Allowed(q)
  PROVE  IInv'
<1> USE DEF IInv, world
<1>1. TypeOK'
  BY DEF TypeOK
<1>2. \A s \in Requests : req'[s] = IF s = r THEN q ELSE req[s]
  BY DEF TypeOK
<1>3. ASSUME NEW s \in Requests
      PROVE  (Asked(req[s], blocks) /\ Told(req[s], event, registered) /\ Allowed(req[s]))'
  <2>1. CASE s = r
    <3>1. req'[s] = q
      BY <1>2, <2>1
    <3>2. QED BY <3>1
  <2>2. CASE s # r
    <3>1. req'[s] = req[s]
      BY <1>2, <2>2
    <3>2. QED BY <3>1
  <2>3. QED BY <2>1, <2>2
<1>4. EventTalksIncludeTheOrganizer'
  BY DEF EventTalksIncludeTheOrganizer
<1>5. QED BY <1>1, <1>3, <1>4

LEMMA AnswerIInv ==
  ASSUME IInv, NEW r \in Requests, Answer(r), UNCHANGED <<world, context>>
  PROVE  IInv'
BY OneRequest, IdleOK DEF Answer

LEMMA BeginIInv ==
  ASSUME IInv, NEW r \in Requests, NEW pc \in Pending, NEW conv \in Conversations,
         NEW u \in conv, NEW peer \in Peers(u, conv), NEW ctx \in Events \cup {None},
         Begin(r, pc, u, conv, peer, ctx), UNCHANGED <<world, context>>
  PROVE  IInv'
<1> USE ConstantsAssumption
<1> DEFINE n == [pc |-> pc, who |-> u, conv |-> conv, peer |-> peer, ctx |-> ctx,
                 blocked |-> Unread, event |-> IF ctx = None THEN None ELSE Unread,
                 regs |-> {}, held |-> Held(pc, u, ctx, event, registered),
                 barred |-> Barred(u, conv)]
<1>1. req' = [req EXCEPT ![r] = n]
  BY DEF Begin
<1>2. u \in People /\ peer \in People /\ u # None
  BY DEF Peers
<1>3. Held(pc, u, ctx, event, registered) \subseteq {"event", "role"}
  BY DEF Held
<1>4. Barred(u, conv) \in BOOLEAN
  BY DEF Barred
<1>5. n \in Req
  BY <1>2, <1>3, <1>4 DEF Req
<1>6. Asked(n, blocks)
  BY <1>2 DEF Asked, Barred
<1>7. Told(n, event, registered)
  <2>1. Unread \notin Statuses(pc)
    BY DEF Statuses, AllowCreate, AllowContinue
  <2>2. QED BY <2>1 DEF Told
<1>8. Allowed(n)
  BY DEF Allowed, Pending
<1> HIDE DEF n
<1>9. QED BY <1>1, <1>5, <1>6, <1>7, <1>8, OneRequest

LEMMA ReadBlockIInv ==
  ASSUME IInv, NEW r \in Requests, ReadBlock(r)
  PROVE  IInv'
<1> DEFINE q == req[r]
           n == [q EXCEPT !.blocked = AreBlocked(q.who, q.peer)]
<1>1. /\ q \in Req /\ Asked(q, blocks) /\ Told(q, event, registered) /\ Allowed(q) /\ q.pc \in Pending
      /\ req' = [req EXCEPT ![r] = n]
  BY DEF ReadBlock, IInv, TypeOK, Pending
<1>2. n \in Req
  BY <1>1 DEF Req, AreBlocked
<1>3. /\ n.pc = q.pc /\ n.who = q.who /\ n.conv = q.conv /\ n.peer = q.peer /\ n.ctx = q.ctx
      /\ n.event = q.event /\ n.regs = q.regs /\ n.held = q.held /\ n.barred = q.barred
      /\ n.blocked = AreBlocked(q.who, q.peer)
  BY <1>1 DEF Req
<1> HIDE DEF n
<1>4. Asked(n, blocks) /\ Allowed(n)
  BY <1>1, <1>3 DEF Asked, Allowed, Pending
<1>5. q.barred => AreBlocked(q.who, q.peer) = TRUE
  BY <1>1 DEF Asked, AreBlocked, Pending
<1>6. Told(n, event, registered)
  BY <1>1, <1>3, <1>5 DEF Told
<1>7. QED BY <1>1, <1>2, <1>4, <1>6, OneRequest DEF ReadBlock

LEMMA EventRead ==
  ASSUME NEW q \in Req, NEW ev \in Lifecycle \cup {None, Unread},
         NEW regs \in SUBSET (People \cup {Unread})
  PROVE  [q EXCEPT !.event = ev, !.regs = regs] \in Req
BY DEF Req

LEMMA ReadEventIInv ==
  ASSUME IInv, NEW r \in Requests, ReadEvent(r)
  PROVE  IInv'
<1> USE ConstantsAssumption
<1> DEFINE q == req[r]
           n == [q EXCEPT !.event = event[q.ctx],
                          !.regs = IF event[q.ctx] = None THEN {} ELSE {Unread}]
<1>1. /\ q \in Req /\ Asked(q, blocks) /\ Told(q, event, registered) /\ Allowed(q) /\ q.pc \in Pending
      /\ req' = [req EXCEPT ![r] = n]
  BY DEF ReadEvent, IInv, TypeOK, Pending
<1>2. q.ctx \in Events
  BY <1>1 DEF ReadEvent, Told, Req
<1>3. n \in Req
  <2>1. event[q.ctx] \in Lifecycle \cup {None, Unread}
    BY <1>2 DEF IInv, TypeOK
  <2>2. (IF event[q.ctx] = None THEN {} ELSE {Unread}) \in SUBSET (People \cup {Unread})
    OBVIOUS
  <2> QED
    BY <1>1, <2>1, <2>2, EventRead
<1>4. /\ n.pc = q.pc /\ n.who = q.who /\ n.conv = q.conv /\ n.peer = q.peer /\ n.ctx = q.ctx
      /\ n.blocked = q.blocked /\ n.held = q.held /\ n.barred = q.barred
      /\ n.event = event[q.ctx]
      /\ n.regs = IF event[q.ctx] = None THEN {} ELSE {Unread}
  BY <1>1 DEF Req
<1> HIDE DEF n
<1>5. Asked(n, blocks) /\ Allowed(n)
  BY <1>1, <1>4 DEF Asked, Allowed, Pending
<1>6. event[q.ctx] \in Statuses(q.pc) => "event" \in q.held
  BY <1>1, <1>2 DEF Told, Held
<1>7. Told(n, event, registered)
  BY <1>1, <1>2, <1>4, <1>6 DEF Told
<1>8. QED BY <1>1, <1>3, <1>5, <1>7, OneRequest DEF ReadEvent

LEMMA ReadRegistrationsIInv ==
  ASSUME IInv, NEW r \in Requests, ReadRegistrations(r)
  PROVE  IInv'
<1> USE ConstantsAssumption
<1> DEFINE q == req[r]
           n == [q EXCEPT !.regs = {q.who, q.peer} \cap registered[q.ctx]]
<1>1. /\ q \in Req /\ Asked(q, blocks) /\ Told(q, event, registered) /\ Allowed(q) /\ q.pc \in Pending
      /\ req' = [req EXCEPT ![r] = n]
  BY DEF ReadRegistrations, IInv, TypeOK, Told
<1>2. q.ctx \in Events /\ registered[q.ctx] \subseteq People
  BY <1>1 DEF ReadRegistrations, Told, Req, IInv, TypeOK
<1>3. n \in Req
  BY <1>1, <1>2 DEF Req
<1>4. /\ n.pc = q.pc /\ n.who = q.who /\ n.conv = q.conv /\ n.peer = q.peer /\ n.ctx = q.ctx
      /\ n.blocked = q.blocked /\ n.event = q.event /\ n.held = q.held /\ n.barred = q.barred
      /\ n.regs = {q.who, q.peer} \cap registered[q.ctx]
  BY <1>1 DEF Req
<1> HIDE DEF n
<1>5. Asked(n, blocks) /\ Allowed(n)
  BY <1>1, <1>4 DEF Asked, Allowed, Pending
<1>6. RoleOf(q.who, q.ctx, n.regs) = RoleOf(q.who, q.ctx, registered[q.ctx])
  BY <1>4 DEF RoleOf
<1>7. RoleOf(q.who, q.ctx, n.regs) \in Roles(q.pc) => "role" \in q.held
  BY <1>1, <1>2, <1>6 DEF Told, Held
<1>8. Told(n, event, registered)
  BY <1>1, <1>2, <1>4, <1>7 DEF Told
<1>9. QED BY <1>1, <1>3, <1>5, <1>8, OneRequest DEF ReadRegistrations

\* The policy allows only what has held, and starting only to the organizer.
LEMMA DecideIInv ==
  ASSUME IInv, NEW r \in Requests, Decide(r)
  PROVE  IInv'
<1> USE ConstantsAssumption
<1>1. ASSUME NEW pc \in {"creating", "writing"}, Go(r, pc), FactsRead(r),
             \/ pc = "creating" /\ req[r].pc = "starting" /\ EvaluateStart(req[r])
             \/ pc = "writing" /\ req[r].pc = "sending" /\ EvaluateSend(req[r]),
             UNCHANGED <<world, context>>
      PROVE  IInv'
  <2> DEFINE q == req[r]
             n == [q EXCEPT !.pc = pc, !.blocked = Unread, !.event = Unread, !.regs = {}]
  <2>1. /\ q \in Req /\ Asked(q, blocks) /\ Told(q, event, registered) /\ q.pc \in Pending
        /\ req' = [req EXCEPT ![r] = n]
    BY <1>1 DEF Go, IInv, TypeOK, Pending
  <2>2. n \in Req
    BY <2>1 DEF Req
  <2>3. /\ n.pc = pc /\ n.who = q.who /\ n.conv = q.conv /\ n.peer = q.peer /\ n.ctx = q.ctx
        /\ n.regs = {} /\ n.held = q.held /\ n.barred = q.barred
    BY <2>1 DEF Req
  <2> HIDE DEF n
  <2>4. Asked(n, blocks) /\ Told(n, event, registered)
    BY <1>1, <2>1, <2>3 DEF Asked, Told, Pending
  <2>5. ~q.barred
    BY <1>1, <2>1 DEF Told, FactsRead, EvaluateStart, EvaluateSend
  <2>6. {"event", "role"} \subseteq q.held
    <3>1. CASE q.ctx = None
      BY <2>1, <3>1 DEF Told, Held
    <3>2. CASE q.ctx # None
      <4>1. /\ q.event \in Statuses(q.pc)
            /\ RoleOf(q.who, q.ctx, q.regs) \in Roles(q.pc)
        BY <1>1, <3>2 DEF EvaluateStart, EvaluateSend, Statuses, Roles
      <4>2. q.event \notin {None, Unread} /\ q.regs # {Unread}
        BY <1>1, <4>1 DEF FactsRead, Statuses, AllowCreate, AllowContinue
      <4>3. QED BY <2>1, <3>2, <4>1, <4>2 DEF Told
    <3>3. QED BY <3>1, <3>2
  <2>7. q.pc = "starting" /\ q.ctx # None => Poster[q.ctx] \in q.conv
    <3>1. CASE q.pc = "starting" /\ q.ctx # None
      <4>1. RoleOf(q.who, q.ctx, q.regs) = "ORGANIZER"
        BY <1>1, <3>1 DEF EvaluateStart, CanInitiate
      <4>2. q.who = Poster[q.ctx]
        BY <4>1 DEF RoleOf
      <4>3. QED BY <2>1, <3>1, <4>2 DEF Asked
    <3>2. QED BY <3>1
  <2>8. Allowed(n)
    BY <1>1, <2>3, <2>5, <2>6, <2>7 DEF Allowed
  <2>9. QED BY <1>1, <2>1, <2>2, <2>4, <2>8, OneRequest
<1>2. QED BY <1>1, AnswerIInv DEF Decide

\* A conversation comes to be, and no request changes but one that is answered.
LEMMA NewConversation ==
  ASSUME IInv, NEW conv \in Conversations, NEW ctx \in Events \cup {None},
         ctx # None => Poster[ctx] \in conv,
         context' = [c \in DOMAIN context \cup {conv} |->
                       IF c \in DOMAIN context THEN context[c] ELSE ctx],
         UNCHANGED world,
         req' = req \/ \E r \in Requests : Answer(r)
  PROVE  IInv'
<1>1. \A c \in DOMAIN context' :
        \/ c \in DOMAIN context /\ context'[c] = context[c]
        \/ c = conv /\ context'[c] = ctx
  OBVIOUS
<1>2. DOMAIN context' = DOMAIN context \cup {conv}
  OBVIOUS
<1>3. req' \in [Requests -> Req]
      /\ \A s \in Requests : req'[s] = req[s] \/ req'[s] = Idle
  BY IdleOK DEF Answer, IInv, TypeOK
<1>4. TypeOK'
  BY <1>1, <1>2, <1>3 DEF IInv, TypeOK, world
<1>5. EventTalksIncludeTheOrganizer'
  BY <1>1 DEF IInv, EventTalksIncludeTheOrganizer
<1>6. ASSUME NEW s \in Requests
      PROVE  (Asked(req[s], blocks) /\ Told(req[s], event, registered) /\ Allowed(req[s]))'
  <2>1. Asked(req'[s], blocks) /\ Told(req'[s], event, registered) /\ Allowed(req'[s])
    BY <1>3, IdleOK DEF IInv
  <2>2. blocks' = blocks /\ event' = event /\ registered' = registered
    BY DEF world
  <2>3. QED BY <2>1, <2>2
<1>7. QED BY <1>4, <1>5, <1>6 DEF IInv

LEMMA CreateConversationIInv ==
  ASSUME IInv, NEW r \in Requests, CreateConversation(r)
  PROVE  IInv'
<1>1. req[r] \in Req /\ Asked(req[r], blocks) /\ Allowed(req[r]) /\ req[r].pc = "creating"
  BY DEF CreateConversation, IInv, TypeOK
<1>2. req[r].conv \in Conversations /\ req[r].ctx \in Events \cup {None}
      /\ (req[r].ctx # None => Poster[req[r].ctx] \in req[r].conv)
  BY <1>1 DEF Req, Asked, Allowed
<1>3. QED BY <1>2, NewConversation DEF CreateConversation

LEMMA AcceptInvitationIInv ==
  ASSUME IInv, NEW conv \in Conversations, AcceptInvitation(conv)
  PROVE  IInv'
<1>1. context' = [c \in DOMAIN context \cup {conv} |->
                    IF c \in DOMAIN context THEN context[c] ELSE None]
  BY DEF AcceptInvitation
<1>2. QED BY <1>1, NewConversation DEF AcceptInvitation

\* What becomes true of the event and of the registrations, a request holds at once.
LEMMA ChangeIInv ==
  ASSUME IInv, NEW ev \in [Events -> Lifecycle \cup {None}],
         NEW regs \in [Events -> SUBSET People], Change(ev, regs)
  PROVE  IInv'
<1>1. \A r \in Requests : req[r] \in Req
  BY DEF IInv, TypeOK
<1>2. ASSUME NEW r \in Requests
      PROVE  /\ req'[r] \in Req /\ Asked(req'[r], blocks)
             /\ Told(req'[r], ev, regs) /\ Allowed(req'[r])
  <2> DEFINE q == req[r]
             h == Held(q.pc, q.who, q.ctx, ev, regs)
             n == [q EXCEPT !.held = @ \cup h]
  <2>1. q \in Req /\ Asked(q, blocks) /\ Told(q, event, registered) /\ Allowed(q)
    BY <1>1 DEF IInv
  <2>2. CASE q.pc \in Pending
    <3>1. req'[r] = n
      BY <2>2 DEF Change, Pending
    <3>2. h \subseteq {"event", "role"}
      BY DEF Held
    <3>3. n \in Req
      BY <2>1, <3>2 DEF Req
    <3>4. /\ n.pc = q.pc /\ n.who = q.who /\ n.conv = q.conv /\ n.peer = q.peer
          /\ n.ctx = q.ctx /\ n.blocked = q.blocked /\ n.event = q.event
          /\ n.regs = q.regs /\ n.barred = q.barred /\ n.held = q.held \cup h
      BY <2>1 DEF Req
    <3> HIDE DEF n
    <3>5. Asked(n, blocks) /\ Allowed(n)
      BY <2>1, <2>2, <3>4 DEF Asked, Allowed, Pending
    <3>6. Held(n.pc, n.who, n.ctx, ev, regs) \subseteq n.held
      BY <3>4
    <3>7. Told(n, ev, regs)
      BY <2>1, <2>2, <3>4, <3>6 DEF Told
    <3>8. QED BY <3>1, <3>3, <3>5, <3>7
  <2>3. CASE q.pc \notin Pending
    <3>1. req'[r] = q
      BY <2>3 DEF Change, Pending
    <3>2. Told(q, ev, regs)
      BY <2>1, <2>3 DEF Told
    <3>3. QED BY <2>1, <3>1, <3>2
  <2>4. QED BY <2>2, <2>3
<1>3. /\ event' = ev /\ registered' = regs /\ blocks' = blocks /\ context' = context
      /\ req' \in [Requests -> Req]
  BY <1>2 DEF Change
<1>4. TypeOK'
  BY <1>3 DEF IInv, TypeOK
<1>5. EventTalksIncludeTheOrganizer'
  BY <1>3 DEF IInv, EventTalksIncludeTheOrganizer
<1>6. \A r \in Requests : (Asked(req[r], blocks) /\ Told(req[r], event, registered) /\ Allowed(req[r]))'
  BY <1>2, <1>3
<1>7. QED BY <1>4, <1>5, <1>6 DEF IInv

LEMMA SetEventStatusIInv ==
  ASSUME IInv, NEW e \in Events, NEW status \in Lifecycle \cup {None},
         SetEventStatus(e, status)
  PROVE  IInv'
<1> DEFINE ev == [event EXCEPT ![e] = status]
           regs == [registered EXCEPT ![e] = IF status = None THEN {} ELSE @]
<1>1. ev \in [Events -> Lifecycle \cup {None}] /\ regs \in [Events -> SUBSET People]
  BY DEF IInv, TypeOK
<1>2. Change(ev, regs)
  BY DEF SetEventStatus
<1>3. QED BY <1>1, <1>2, ChangeIInv

LEMMA RegisterIInv ==
  ASSUME IInv, NEW e \in Events, NEW u \in People, Register(e, u)
  PROVE  IInv'
<1> DEFINE regs == [registered EXCEPT ![e] = IF u \in @ THEN @ \ {u} ELSE @ \cup {u}]
<1>1. event \in [Events -> Lifecycle \cup {None}] /\ regs \in [Events -> SUBSET People]
  BY DEF IInv, TypeOK
<1>2. Change(event, regs)
  BY DEF Register
<1>3. QED BY <1>1, <1>2, ChangeIInv

LEMMA BlockIInv ==
  ASSUME IInv, NEW u \in People, NEW v \in People, Block(u, v)
  PROVE  IInv'
<1>1. TypeOK' /\ EventTalksIncludeTheOrganizer'
  BY DEF Block, IInv, TypeOK, EventTalksIncludeTheOrganizer
<1>2. ASSUME NEW r \in Requests
      PROVE  (Asked(req[r], blocks) /\ Told(req[r], event, registered) /\ Allowed(req[r]))'
  <2>1. Asked(req[r], blocks) => Asked(req[r], blocks \cup {<<u, v>>})
    BY DEF Asked
  <2>2. QED BY <2>1 DEF Block, IInv
<1>3. QED BY <1>1, <1>2 DEF IInv

LEMMA RestartIInv ==
  ASSUME IInv, req' = [r \in Requests |-> Idle], UNCHANGED <<world, context>>
  PROVE  IInv'
<1>1. TypeOK' /\ EventTalksIncludeTheOrganizer'
  BY IdleOK DEF world, IInv, TypeOK, EventTalksIncludeTheOrganizer
<1>2. \A r \in Requests : (Asked(req[r], blocks) /\ Told(req[r], event, registered) /\ Allowed(req[r]))'
  <2>1. blocks' = blocks /\ event' = event /\ registered' = registered
    BY DEF world
  <2>2. QED BY <2>1, IdleOK
<1>3. QED BY <1>1, <1>2 DEF IInv

LEMMA SameIInv ==
  ASSUME IInv, UNCHANGED <<world, context, req>>
  PROVE  IInv'
<1>1. /\ event' = event /\ registered' = registered /\ blocks' = blocks
      /\ context' = context /\ req' = req
  BY DEF world
<1>2. TypeOK' /\ EventTalksIncludeTheOrganizer'
  BY <1>1 DEF IInv, TypeOK, EventTalksIncludeTheOrganizer
<1>3. \A r \in Requests : (Asked(req[r], blocks) /\ Told(req[r], event, registered) /\ Allowed(req[r]))'
  BY <1>1 DEF IInv
<1>4. QED BY <1>2, <1>3 DEF IInv

LEMMA StepIInv == IInv /\ [Next]_vars => IInv'
<1> SUFFICES ASSUME IInv, [Next]_vars PROVE IInv'
  OBVIOUS
<1>1. ASSUME NEW r \in Requests, NEW conv \in Conversations, NEW u \in People,
             NEW ctx \in Events \cup {None}, BeginStart(r, u, conv, ctx)
      PROVE  IInv'
  <2>1. PICK peer \in Peers(u, conv) : Begin(r, "starting", u, conv, peer, ctx)
    BY <1>1 DEF BeginStart
  <2>2. u \in conv /\ UNCHANGED <<world, context>>
    BY <1>1 DEF BeginStart
  <2>3. QED BY <2>1, <2>2, BeginIInv DEF Pending
<1>2. ASSUME NEW r \in Requests, NEW conv \in Conversations, NEW u \in People,
             BeginSend(r, u, conv)
      PROVE  IInv'
  <2>1. PICK peer \in Peers(u, conv) : Begin(r, "sending", u, conv, peer, context[conv])
    BY <1>2 DEF BeginSend
  <2>2. u \in conv /\ context[conv] \in Events \cup {None} /\ UNCHANGED <<world, context>>
    BY <1>2 DEF BeginSend, RequireConversation, IInv, TypeOK
  <2>3. QED BY <2>1, <2>2, BeginIInv DEF Pending
<1>3. ASSUME NEW r \in Requests, Write(r) PROVE IInv'
  BY <1>3, AnswerIInv DEF Write
<1>4. ASSUME NEW k \in Keys, Limited(k) PROVE IInv'
  BY <1>4, SameIInv DEF Limited
<1>5. CASE Wait
  BY <1>5, SameIInv DEF Wait
<1>6. CASE Restart
  BY <1>6, RestartIInv DEF Restart
<1>7. CASE UNCHANGED vars
  BY <1>7, SameIInv DEF vars
<1>8. QED
  BY <1>1, <1>2, <1>3, <1>4, <1>5, <1>6, <1>7, ReadBlockIInv, ReadEventIInv,
     ReadRegistrationsIInv, DecideIInv, CreateConversationIInv, AcceptInvitationIInv,
     SetEventStatusIInv, RegisterIInv, BlockIInv DEF Next

LEMMA Invariance == Spec => []IInv
BY InitIInv, StepIInv, PTL DEF Spec

-----------------------------------------------------------------------------
\* Requests, conversations and what the policy is asked stay of their kinds.
THEOREM TypeCorrect == Spec => []TypeOK
<1>1. IInv => TypeOK
  BY DEF IInv
<1>2. QED BY <1>1, Invariance, PTL

\* Whoever starts a conversation or writes in one was entitled to, by the event and by
\* their part in it (eventis.policy.ts:54-85).
THEOREM WritersAreEntitled == Spec => []WritersWereEntitled
<1>1. IInv => WritersWereEntitled
  BY DEF IInv, Allowed, WritersWereEntitled
<1>2. QED BY <1>1, Invariance, PTL

\* No request that began behind a block, in either direction, writes anything
\* (chat.repository.ts:565-576).
THEOREM BlocksAlwaysSilence == Spec => []BlocksSilence
<1>1. IInv => BlocksSilence
  BY DEF IInv, Allowed, BlocksSilence
<1>2. QED BY <1>1, Invariance, PTL

\* Every conversation about an event has its organizer in it, whoever registers, leaves
\* or is blocked, and whatever becomes of the event (eventis.policy.ts:54-64).
THEOREM OrganizersTakePart == Spec => []EventTalksIncludeTheOrganizer
<1>1. IInv => EventTalksIncludeTheOrganizer
  BY DEF IInv
<1>2. QED BY <1>1, Invariance, PTL

-----------------------------------------------------------------------------
(* RateLimiter, in whatever EventisChat does with it.                      *)

\* Stamps are oldest first.
OldestFirst(ages) == \A i, j \in DOMAIN ages : i <= j => ages[j] <= ages[i]

\* A bucket is never over the limit, and by the end of a Retry-After its oldest stamp is
\* out of the window, or it has room already.
KeySound(ages, left) ==
  /\ ages \in Seq(0..(Window - 1)) /\ Len(ages) <= Max /\ OldestFirst(ages)
  /\ left \in 0..(Window + Second)
  /\ left # 0 => Len(ages) < Max \/ Window < ages[1] + left

\* What went through is what the bucket has.
LimiterIInv ==
  /\ bucket \in [Keys -> Seq(Nat)] /\ accepted = bucket /\ wait \in [Keys -> Nat]
  /\ \A k \in Keys : KeySound(bucket[k], wait[k])

LEMMA SuffixFacts ==
  ASSUME NEW S, NEW ages \in Seq(S), NEW n \in 0..Len(ages)
  PROVE  LET b == SubSeq(ages, n + 1, Len(ages)) IN
         /\ b \in Seq(S) /\ Len(b) = Len(ages) - n /\ DOMAIN b = 1..(Len(ages) - n)
         /\ \A i \in DOMAIN b : b[i] = ages[n + i] /\ n + i \in DOMAIN ages
OBVIOUS

LEMMA IntervalCard ==
  ASSUME NEW n \in Nat
  PROVE  IsFiniteSet(1..n) /\ Cardinality(1..n) = n
<1>1. 1 \in Int /\ n \in Int
  OBVIOUS
<1>2. IsFiniteSet(1..n) /\ Cardinality(1..n) = IF 1 > n THEN 0 ELSE n - 1 + 1
  BY <1>1, FS_Interval
<1> QED
  BY <1>2

\* Stamps out of the window are in front: what is left are the stamps after them.
LEMMA BelowFacts ==
  ASSUME NEW ages \in Seq(Nat), OldestFirst(ages), NEW width \in Nat
  PROVE  /\ Below(ages, width) \in Seq(0..(width - 1))
         /\ OldestFirst(Below(ages, width))
         /\ Len(Below(ages, width)) <= Len(ages)
         /\ Len(Below(ages, width)) = Len(ages) => Below(ages, width) = ages
<1> DEFINE old == {i \in DOMAIN ages : ~ ages[i] < width}
           Splits(n) == \A i \in DOMAIN ages : ages[i] < width <=> n < i
           n0 == CHOOSE n \in 0..Len(ages) : Splits(n)
<1>1. DOMAIN ages = 1..Len(ages) /\ Len(ages) \in Nat /\ \A i \in DOMAIN ages : ages[i] \in Nat
  OBVIOUS
<1>2. IsFiniteSet(DOMAIN ages) /\ Cardinality(DOMAIN ages) = Len(ages)
  BY <1>1, IntervalCard
<1>3. IsFiniteSet(old) /\ Cardinality(old) \in Nat /\ Cardinality(old) <= Len(ages)
  BY <1>2, FS_Subset, FS_CardinalityType
<1>4. ASSUME NEW i \in old
      PROVE  i \in 1..Cardinality(old)
  <2>1. 1..i \subseteq old
    BY <1>1, <1>4 DEF OldestFirst
  <2>2. Cardinality(1..i) = i
    BY <1>1, <1>4, FS_Interval
  <2>3. Cardinality(1..i) <= Cardinality(old)
    BY <1>3, <2>1, FS_Subset
  <2> QED
    BY <1>1, <1>3, <1>4, <2>2, <2>3
<1>5. old = 1..Cardinality(old)
  <2>1. /\ IsFiniteSet(1..Cardinality(old))
        /\ Cardinality(1..Cardinality(old)) = Cardinality(old)
    BY <1>3, FS_Interval
  <2>2. old \subseteq 1..Cardinality(old)
    BY <1>4
  <2> HIDE DEF old
  <2> QED
    BY <2>1, <2>2, FS_Subset
<1>6. Splits(Cardinality(old))
  <2>1. \A i \in DOMAIN ages : i \in old <=> ~ ages[i] < width
    OBVIOUS
  <2> HIDE DEF old
  <2> QED
    BY <1>1, <1>3, <1>5, <2>1
<1> HIDE DEF old
<1>7. n0 \in 0..Len(ages) /\ Splits(n0)
  <2> HIDE DEF Splits
  <2>1. \E n \in 0..Len(ages) : Splits(n)
    BY <1>3, <1>6, <1>1
  <2> QED
    BY <2>1
<1>8. Below(ages, width) = SubSeq(ages, n0 + 1, Len(ages))
  BY DEF Below
<1> HIDE DEF n0
<1> DEFINE b == SubSeq(ages, n0 + 1, Len(ages))
<1>9. /\ Len(b) = Len(ages) - n0 /\ DOMAIN b = 1..(Len(ages) - n0)
      /\ \A i \in DOMAIN b : b[i] = ages[n0 + i] /\ n0 + i \in DOMAIN ages
      /\ b \in Seq(Nat)
  BY <1>7, SuffixFacts
<1>10. \A i \in DOMAIN b : b[i] \in 0..(width - 1)
  <2> SUFFICES ASSUME NEW i \in DOMAIN b
               PROVE  b[i] \in 0..(width - 1)
    OBVIOUS
  <2>1. b[i] = ages[n0 + i] /\ n0 + i \in DOMAIN ages /\ n0 < n0 + i
    BY <1>7, <1>9
  <2> HIDE DEF b
  <2>2. ages[n0 + i] < width
    BY <1>7, <2>1
  <2> QED
    BY <1>1, <2>1, <2>2
<1>11. OldestFirst(b)
  <2> SUFFICES ASSUME NEW i \in DOMAIN b, NEW j \in DOMAIN b, i <= j
               PROVE  b[j] <= b[i]
    BY DEF OldestFirst
  <2>1. n0 + i <= n0 + j
    BY <1>7, <1>9
  <2> HIDE DEF b
  <2> QED
    BY <1>9, <2>1 DEF OldestFirst
<1>12. Len(b) = Len(ages) => b = ages
  <2> SUFFICES ASSUME Len(b) = Len(ages)
               PROVE  b = ages
    OBVIOUS
  <2>1. Len(b) = Len(ages) - n0 /\ n0 \in Nat
    BY <1>7, <1>9
  <2> HIDE DEF b
  <2>2. n0 = 0
    BY <1>1, <2>1
  <2>3. SubSeq(ages, 0 + 1, Len(ages)) = ages
    OBVIOUS
  <2> QED
    BY <2>2, <2>3 DEF b
<1> HIDE DEF b
<1>13. b \in Seq(0..(width - 1))
  <2>1. Len(b) \in Nat /\ b \in [1..Len(b) -> 0..(width - 1)]
    BY <1>9, <1>10
  <2> QED
    BY <2>1
<1>14. Len(b) <= Len(ages)
  BY <1>1, <1>7, <1>9
<1> QED
  BY <1>8, <1>11, <1>12, <1>13, <1>14 DEF b

LEMMA OlderFacts ==
  ASSUME NEW ages \in Seq(Nat), OldestFirst(ages)
  PROVE  /\ Older(ages) \in Seq(Nat) /\ Len(Older(ages)) = Len(ages)
         /\ DOMAIN Older(ages) = DOMAIN ages
         /\ \A i \in DOMAIN ages : Older(ages)[i] = ages[i] + 1
         /\ OldestFirst(Older(ages))
<1>1. DOMAIN ages = 1..Len(ages) /\ \A i \in DOMAIN ages : ages[i] \in Nat
  OBVIOUS
<1>2. /\ Older(ages) \in Seq(Nat) /\ Len(Older(ages)) = Len(ages)
      /\ DOMAIN Older(ages) = DOMAIN ages
      /\ \A i \in DOMAIN ages : Older(ages)[i] = ages[i] + 1
  BY <1>1 DEF Older
<1> QED
  BY <1>1, <1>2 DEF OldestFirst

\* Rounding up to a second: at least one, enough, and not a second too much.
LEMMA RoundedUp ==
  ASSUME NEW ticks \in Nat \ {0}, NEW sec \in Nat \ {0}
  PROVE  LET q == (ticks + sec - 1) \div sec IN
         /\ q \in Nat \ {0} /\ q * sec \in Nat /\ (q - 1) * sec \in Nat
         /\ ticks <= q * sec /\ q * sec <= ticks + sec - 1 /\ (q - 1) * sec < ticks
OBVIOUS

\* What Retry-After says of a full bucket.
LEMMA RetryFacts ==
  ASSUME LimiterIInv, NEW k \in Keys, Full(k)
  PROVE  /\ bucket[k][1] \in 0..(Window - 1) /\ 1 \in DOMAIN bucket[k]
         /\ RetryAfter(k) * Second \in Nat /\ (RetryAfter(k) - 1) * Second \in Nat
         /\ Window - bucket[k][1] <= RetryAfter(k) * Second
         /\ RetryAfter(k) * Second < Window + Second
         /\ bucket[k][1] + (RetryAfter(k) - 1) * Second < Window
<1> DEFINE ticks == Window - bucket[k][1]
<1>1. bucket[k] \in Seq(0..(Window - 1)) /\ Max \in Nat \ {0} /\ Len(bucket[k]) >= Max
  BY LimiterAssumption DEF LimiterIInv, KeySound, Full
<1>2. 1 \in DOMAIN bucket[k] /\ bucket[k][1] \in 0..(Window - 1)
  <2> DEFINE b == bucket[k]
             S == 0..(Window - 1)
  <2> HIDE DEF b, S
  <2>1. b \in Seq(S) /\ Max \in Nat \ {0} /\ Len(b) >= Max
    BY <1>1 DEF b, S
  <2>2. 1 \in DOMAIN b /\ b[1] \in S
    BY <2>1
  <2> QED
    BY <2>2 DEF b, S
<1>3. ticks \in Nat \ {0} /\ Second \in Nat \ {0} /\ Window \in Nat /\ ticks <= Window
      /\ bucket[k][1] \in Nat /\ bucket[k][1] = Window - ticks
  BY <1>2, LimiterAssumption
<1>4. RetryAfter(k) = (ticks + Second - 1) \div Second
  BY DEF RetryAfter
<1> HIDE DEF ticks
<1> DEFINE q == RetryAfter(k)
<1>5. /\ q \in Nat \ {0} /\ q * Second \in Nat /\ (q - 1) * Second \in Nat
      /\ ticks <= q * Second /\ q * Second <= ticks + Second - 1 /\ (q - 1) * Second < ticks
  BY <1>3, <1>4, RoundedUp
<1> HIDE DEF q
<1> DEFINE full == q * Second
           short == (q - 1) * Second
<1>6. /\ full \in Nat /\ short \in Nat
      /\ ticks <= full /\ full <= ticks + Second - 1 /\ short < ticks
  BY <1>5
<1> HIDE DEF full, short
<1>7. full < Window + Second /\ bucket[k][1] + short < Window /\ Window - bucket[k][1] <= full
  BY <1>3, <1>6
<1> QED
  BY <1>2, <1>6, <1>7 DEF full, short, q

LEMMA LimiterInitIInv == LimiterInit => LimiterIInv
<1> SUFFICES ASSUME LimiterInit
             PROVE  LimiterIInv
  OBVIOUS
<1>1. << >> \in Seq(0..(Window - 1)) /\ << >> \in Seq(Nat) /\ Len(<< >>) = 0
      /\ OldestFirst(<< >>)
  BY DEF OldestFirst
<1>2. 0 \in 0..(Window + Second) /\ 0 <= Max
  BY LimiterAssumption
<1> QED
  BY <1>1, <1>2 DEF LimiterInit, LimiterIInv, KeySound

LEMMA RefuseKeeps ==
  ASSUME LimiterIInv, NEW k \in Keys, Full(k), Refuse(k)
  PROVE  LimiterIInv'
<1> DEFINE w == RetryAfter(k) * Second
<1>1. w \in Nat /\ Window - bucket[k][1] <= w /\ w < Window + Second
      /\ bucket[k][1] \in 0..(Window - 1)
  BY RetryFacts
<1>2. wait' = [wait EXCEPT ![k] = w + 1] /\ bucket' = bucket /\ accepted' = accepted
  BY DEF Refuse
<1> HIDE DEF w
<1>3. w + 1 \in 0..(Window + Second) /\ Window < bucket[k][1] + (w + 1)
  BY <1>1, LimiterAssumption
<1>4. wait' \in [Keys -> Nat] /\ wait'[k] = w + 1
      /\ \A j \in Keys \ {k} : wait'[j] = wait[j]
  BY <1>1, <1>2 DEF LimiterIInv
<1>5. \A j \in Keys : KeySound(bucket[j], wait'[j])
  BY <1>3, <1>4 DEF LimiterIInv, KeySound
<1> QED
  BY <1>2, <1>4, <1>5 DEF LimiterIInv

LEMMA AcceptKeeps ==
  ASSUME LimiterIInv, NEW k \in Keys, ~ Full(k), Accept(k)
  PROVE  LimiterIInv'
<1> DEFINE b == bucket[k]
           c == Append(b, 0)
<1>1. b \in Seq(0..(Window - 1)) /\ OldestFirst(b) /\ Len(b) < Max /\ Max \in Nat
      /\ 0 \in 0..(Window - 1) /\ 0 \in 0..(Window + Second) /\ b \in Seq(Nat)
  BY LimiterAssumption DEF LimiterIInv, KeySound, Full
<1>2. /\ bucket' = [bucket EXCEPT ![k] = c] /\ accepted' = bucket'
      /\ wait' = [wait EXCEPT ![k] = 0]
  BY DEF Accept, LimiterIInv
<1> HIDE DEF b
<1>3. /\ c \in Seq(0..(Window - 1)) /\ c \in Seq(Nat) /\ Len(c) = Len(b) + 1
      /\ DOMAIN c = DOMAIN b \cup {Len(b) + 1} /\ c[Len(b) + 1] = 0
      /\ DOMAIN b = 1..Len(b) /\ Len(b) \in Nat
      /\ \A i \in DOMAIN b : c[i] = b[i] /\ b[i] \in Nat
  BY <1>1
<1> HIDE DEF c
<1>4. OldestFirst(c)
  BY <1>1, <1>3 DEF OldestFirst
<1>5. KeySound(c, 0)
  BY <1>1, <1>3, <1>4 DEF KeySound
<1>6. /\ bucket' \in [Keys -> Seq(Nat)] /\ wait' \in [Keys -> Nat]
      /\ bucket'[k] = c /\ wait'[k] = 0
      /\ \A j \in Keys \ {k} : bucket'[j] = bucket[j] /\ wait'[j] = wait[j]
  BY <1>2, <1>3 DEF LimiterIInv
<1>7. \A j \in Keys : KeySound(bucket'[j], wait'[j])
  BY <1>5, <1>6 DEF LimiterIInv
<1> QED
  BY <1>2, <1>6, <1>7 DEF LimiterIInv

\* A stamp that leaves makes room; if none does, the oldest is a tick older.
LEMMA TickKeeps ==
  ASSUME LimiterIInv, Tick
  PROVE  LimiterIInv'
<1> DEFINE Aged(k) == Below(Older(bucket[k]), Window)
<1>1. /\ bucket' = [k \in Keys |-> Aged(k)] /\ accepted' = bucket'
      /\ wait' = [k \in Keys |-> IF wait[k] > 1 THEN wait[k] - 1 ELSE wait[k]]
  BY DEF Tick, Fresh, LimiterIInv
<1>2. ASSUME NEW k \in Keys
      PROVE  /\ KeySound(bucket'[k], wait'[k])
             /\ bucket'[k] \in Seq(Nat) /\ wait'[k] \in Nat
  <2> DEFINE b == bucket[k]
             o == Older(b)
             c == Below(o, Window)
  <2>1. /\ b \in Seq(Nat) /\ b \in Seq(0..(Window - 1)) /\ OldestFirst(b) /\ Len(b) <= Max
        /\ wait[k] \in 0..(Window + Second)
        /\ wait[k] # 0 => Len(b) < Max \/ Window < b[1] + wait[k]
        /\ Window \in Nat \ {0} /\ Max \in Nat \ {0} /\ Second \in Nat \ {0}
    BY LimiterAssumption DEF LimiterIInv, KeySound
  <2>2. bucket'[k] = c /\ wait'[k] = IF wait[k] > 1 THEN wait[k] - 1 ELSE wait[k]
    BY <1>1
  <2> HIDE DEF b
  <2>3. o \in Seq(Nat) /\ OldestFirst(o) /\ Len(o) = Len(b)
        /\ \A i \in DOMAIN b : o[i] = b[i] + 1
    BY <2>1, OlderFacts
  <2> HIDE DEF o
  <2>4. /\ c \in Seq(0..(Window - 1)) /\ OldestFirst(c) /\ Len(c) <= Len(o)
        /\ Len(c) = Len(o) => c = o
    BY <2>1, <2>3, BelowFacts
  <2> HIDE DEF c
  <2>5. Len(c) \in Nat /\ Len(b) \in Nat /\ c \in Seq(Nat)
    BY <2>1, <2>4
  <2>6. wait'[k] \in 0..(Window + Second) /\ (wait'[k] # 0 => wait[k] # 0)
    BY <2>1, <2>2
  <2>7. ASSUME wait[k] # 0, ~ Len(c) < Max
        PROVE  Window < c[1] + wait'[k]
    <3>1. Len(c) = Len(o) /\ c = o /\ Len(b) = Max
      BY <2>1, <2>3, <2>4, <2>5, <2>7
    <3>2. 1 \in DOMAIN b /\ b[1] \in 0..(Window - 1)
      BY <2>1, <3>1
    <3>3. c[1] = b[1] + 1 /\ Window < b[1] + wait[k]
      BY <2>1, <2>3, <2>7, <3>1, <3>2
    <3>4. wait[k] > 1
      BY <2>1, <2>7, <3>2, <3>3
    <3> QED
      BY <2>1, <2>2, <3>2, <3>3, <3>4
  <2>8. Len(c) <= Max
    BY <2>1, <2>3, <2>4, <2>5
  <2> QED
    BY <2>2, <2>4, <2>5, <2>6, <2>7, <2>8 DEF KeySound
<1>3. bucket' \in [Keys -> Seq(Nat)] /\ wait' \in [Keys -> Nat]
  BY <1>1, <1>2
<1> QED
  BY <1>1, <1>2, <1>3 DEF LimiterIInv

LEMMA LimiterStep ==
  ASSUME LimiterIInv, [Next]_vars
  PROVE  LimiterIInv'
<1>1. CASE UNCHANGED limiter
  BY <1>1 DEF limiter, LimiterIInv
<1>2. ASSUME NEW r \in Requests, NEW u \in People, NEW conv \in Conversations,
             BeginSend(r, u, conv)
      PROVE  LimiterIInv'
  BY <1>1, <1>2, AcceptKeeps DEF BeginSend
<1>3. ASSUME NEW k \in Keys, Limited(k)
      PROVE  LimiterIInv'
  BY <1>3, RefuseKeeps DEF Limited
<1>4. CASE Wait
  BY <1>4, TickKeeps DEF Wait
<1>5. CASE Restart
  <2>1. LimiterInit'
    BY <1>5 DEF Restart, Forget, LimiterInit
  <2>2. (LimiterInit => LimiterIInv)'
    BY LimiterInitIInv, PTL
  <2> QED
    BY <2>1, <2>2
<1>6. ASSUME NEW r \in Requests, NEW u \in People, NEW conv \in Conversations,
             NEW ctx \in Events \cup {None}, BeginStart(r, u, conv, ctx)
      PROVE  LimiterIInv'
  BY <1>1, <1>6 DEF BeginStart
<1>7. ASSUME NEW r \in Requests,
             \/ ReadBlock(r) \/ ReadEvent(r) \/ ReadRegistrations(r)
             \/ Decide(r) \/ CreateConversation(r) \/ Write(r)
      PROVE  LimiterIInv'
  BY <1>1, <1>7 DEF ReadBlock, ReadEvent, ReadRegistrations, Decide, CreateConversation,
     Write
<1>8. ASSUME \/ \E conv \in Conversations : AcceptInvitation(conv)
             \/ \E e \in Events :
                  \/ \E status \in Lifecycle \cup {None} : SetEventStatus(e, status)
                  \/ \E u \in People : Register(e, u)
             \/ \E u, v \in People : Block(u, v)
             \/ UNCHANGED vars
      PROVE  LimiterIInv'
  BY <1>1, <1>8 DEF AcceptInvitation, SetEventStatus, Register, Change, Block, vars
<1> QED
  BY <1>2, <1>3, <1>4, <1>5, <1>6, <1>7, <1>8 DEF Next

\* However calls and refusals fall, no window sees more than Max calls of a key go
\* through, and Retry-After is true to the second (chat.ts:48-69).
THEOREM LimitsAreExact == Spec => []WindowIsExact
<1>1. Init => LimiterIInv
  BY LimiterInitIInv DEF Init
<1>2. LimiterIInv /\ [Next]_vars => LimiterIInv'
  BY LimiterStep
<1>3. LimiterIInv => WindowIsExact
  <2> SUFFICES ASSUME LimiterIInv, NEW k \in Keys
               PROVE  /\ bucket[k] \in Seq(0..(Window - 1))
                      /\ accepted[k] \in Seq(0..(Window - 1))
                      /\ wait[k] \in 0..(Window + Second)
                      /\ Len(accepted[k]) <= Max
                      /\ wait[k] = 1 => ~Full(k)
                      /\ Full(k) => Max <= Cardinality({i \in DOMAIN bucket[k] :
                           bucket[k][i] + (RetryAfter(k) - 1) * Second < Window})
    BY DEF WindowIsExact, LimiterTypeOK
  <2>1. KeySound(bucket[k], wait[k]) /\ accepted[k] = bucket[k]
    BY DEF LimiterIInv
  <2>2. wait[k] = 1 => ~Full(k)
    <3> SUFFICES ASSUME wait[k] = 1, Full(k)
                 PROVE  FALSE
      OBVIOUS
    <3>1. bucket[k][1] \in 0..(Window - 1)
      BY RetryFacts
    <3> QED
      BY <2>1, <3>1, LimiterAssumption DEF KeySound, Full
  <2>3. ASSUME Full(k)
        PROVE  Max <= Cardinality({i \in DOMAIN bucket[k] :
                 bucket[k][i] + (RetryAfter(k) - 1) * Second < Window})
    <3> DEFINE short == (RetryAfter(k) - 1) * Second
               ages == bucket[k]
    <3>1. /\ ages[1] \in 0..(Window - 1) /\ 1 \in DOMAIN ages /\ short \in Nat
          /\ ages[1] + short < Window
      BY <2>3, RetryFacts
    <3>2. /\ ages \in Seq(0..(Window - 1)) /\ OldestFirst(ages) /\ Max <= Len(ages)
      BY <2>1, <2>3, LimiterAssumption DEF KeySound, Full
    <3> HIDE DEF short, ages
    <3>3. \A i \in DOMAIN ages : ages[i] <= ages[1] /\ ages[i] \in Nat
      <4> DEFINE S == 0..(Window - 1)
      <4> HIDE DEF S
      <4>0. ages \in Seq(S)
        BY <3>2 DEF S
      <4>2. \A i \in DOMAIN ages : 1 <= i /\ ages[i] \in S
        BY <4>0
      <4>1. \A i \in DOMAIN ages : 1 <= i /\ ages[i] \in Nat
        BY <4>2 DEF S
      <4> QED
        BY <3>1, <3>2, <4>1 DEF OldestFirst
    <3>4. {i \in DOMAIN ages : ages[i] + short < Window} = 1..Len(ages)
      BY <3>1, <3>2, <3>3, LimiterAssumption
    <3>5. Cardinality(1..Len(ages)) = Len(ages)
      BY <3>2, IntervalCard
    <3>6. Max <= Cardinality({i \in DOMAIN ages : ages[i] + short < Window})
      BY <3>2, <3>4, <3>5
    <3> QED
      BY <3>6 DEF short, ages
  <2> QED
    BY <2>1, <2>2, <2>3 DEF KeySound
<1> QED
  BY <1>1, <1>2, <1>3, PTL DEF Spec
=============================================================================
