----------------------------- MODULE EventisChat -----------------------------
(***************************************************************************)
(* EVENTIS conversations under the Eventis messaging policy: who may start *)
(* one and who may write in it, while events change and disappear, people  *)
(* register and leave, and people block each other.  Messages, attachments *)
(* and calls are written under the same check.                             *)
(*                                                                         *)
(* loadMessagingFacts reads the block and the event in any order, the      *)
(* registrations after the event, and nothing is read again when the write *)
(* follows.  A direct conversation is found by its pair before the policy  *)
(* is asked, so it keeps the event that it was started for.                *)
(***************************************************************************)
EXTENDS RateLimiter, FiniteSets

CONSTANTS
  People,        \* users; Keys of the rate limiter are among them
  Events,        \* events.event_id
  Poster,        \* events.poster_id, which no handler changes
  Conversations, \* sets of members: two or one for a direct conversation, more
                 \* for a group; bound: one group for each set
  Blocks,        \* bound: who may block whom
  Requests,      \* HTTP requests in flight at the same time
  Unread,        \* a fact not read
  None           \* no row, no context

ASSUME ConstantsAssumption ==
  /\ Poster \in [Events -> People]
  /\ Conversations \subseteq (SUBSET People) \ {{}}
  /\ Keys \subseteq People
  /\ None \notin People \cup Events \cup Conversations
  /\ Unread \notin People /\ Unread \notin BOOLEAN /\ Unread # None
  /\ {Unread, None} \cap {"draft", "published", "cancelled"} = {}

VARIABLES
  event,      \* events.status; None: no such row
  registered, \* event_registrations
  blocks,     \* user_blocks: <<blocker, blocked>>
  context,    \* conversations.context_id of the conversations that exist
  req         \* what a handler remembers across its awaits

world == <<event, registered, blocks>>
vars == <<world, context, req, limiter>>

Lifecycle == {"draft", "published", "cancelled"}

Idle == [pc |-> "idle", who |-> None, conv |-> None, peer |-> None, ctx |-> None,
         blocked |-> Unread, event |-> Unread, regs |-> {},
         held |-> {}, barred |-> FALSE]

Init ==
  /\ event = [e \in Events |-> "draft"]
  /\ registered = [e \in Events |-> {}]
  /\ blocks = {}
  /\ context = << >>
  /\ req = [r \in Requests |-> Idle]
  /\ LimiterInit

\* What the policy was told is forgotten.
Go(r, pc) ==
  req' = [req EXCEPT ![r] = [@ EXCEPT !.pc = pc, !.blocked = Unread, !.event = Unread,
                                     !.regs = {}]]
Answer(r) == req' = [req EXCEPT ![r] = Idle]

AreBlocked_OneWay(u, v) == <<u, v>> \in blocks

AreBlocked(u, v) == <<u, v>> \in blocks \/ <<v, u>> \in blocks

Peers(u, conv) == IF conv = {u} THEN {u} ELSE conv \ {u}

-----------------------------------------------------------------------------
(* The policy.  requireSubscription and requirePublishingPayment are off.  *)

CanInitiate_Everyone == {"ORGANIZER", "ATTENDEE"}
CanInitiate == {"ORGANIZER"}
CanReply == {"ORGANIZER", "ATTENDEE"}
AllowCreate == {"published"}
AllowContinue == {"draft", "published", "cancelled"}

RoleOf(u, e, regs) ==
  CASE u = Poster[e] -> "ORGANIZER"
    [] u # Poster[e] /\ u \in regs -> "ATTENDEE"
    [] OTHER -> "NOBODY"

\* evaluateStart: a group needs no event; the rest needs one, as its organizer.
EvaluateStart(q) ==
  /\ ~q.blocked
  /\ \/ Cardinality(q.conv) > 2 /\ q.ctx = None
     \/ /\ q.ctx # None /\ q.event \in AllowCreate
        /\ RoleOf(q.who, q.ctx, q.regs) \in CanInitiate
        /\ RoleOf(q.peer, q.ctx, q.regs) # "NOBODY"

EvaluateSend_AnyMember(q) ==
  /\ ~q.blocked
  /\ \/ q.ctx = None
     \/ q.event \in AllowContinue

\* evaluateSend: where there is no event there is nothing to ask.
EvaluateSend(q) ==
  /\ ~q.blocked
  /\ \/ q.ctx = None
     \/ /\ q.event \in AllowContinue
        /\ RoleOf(q.who, q.ctx, q.regs) \in CanReply

-----------------------------------------------------------------------------
(* Requests.                                                               *)

\* What ev and regs satisfy of what the policy asks of a request: history.
Statuses(pc) == IF pc = "starting" THEN AllowCreate ELSE AllowContinue
Roles(pc) == IF pc = "starting" THEN CanInitiate ELSE CanReply

Held(pc, u, ctx, ev, regs) ==
  (IF ctx = None \/ ev[ctx] \in Statuses(pc) THEN {"event"} ELSE {}) \cup
  (IF ctx = None \/ RoleOf(u, ctx, regs[ctx]) \in Roles(pc) THEN {"role"} ELSE {})

Barred(u, conv) ==
  \A v \in Peers(u, conv) : {<<u, v>>, <<v, u>>} \cap blocks # {}

Begin(r, pc, u, conv, peer, ctx) ==
  /\ req[r] = Idle
  /\ req' = [req EXCEPT ![r] =
       [pc |-> pc, who |-> u, conv |-> conv, peer |-> peer, ctx |-> ctx,
        blocked |-> Unread, event |-> IF ctx = None THEN None ELSE Unread, regs |-> {},
        held |-> Held(pc, u, ctx, event, registered), barred |-> Barred(u, conv)]]

\* createConversation: the conversation of the pair, if there is one, is the answer.
\* requested[0] is the peer.
BeginStart(r, u, conv, ctx) ==
  /\ u \in conv /\ conv \notin DOMAIN context
  /\ \E peer \in Peers(u, conv) : Begin(r, "starting", u, conv, peer, ctx)
  /\ UNCHANGED <<world, context, limiter>>

\* It is there, and the user takes part.
RequireConversation(u, conv) == conv \in DOMAIN context /\ u \in conv

\* sendMessage, sendAttachment and createCall: the rate limit, then the conversation.
\* Participants come in no order: the first other one is the peer.
BeginSend(r, u, conv) ==
  /\ RequireConversation(u, conv)
  /\ u \in Keys => ~Full(u)
  /\ \E peer \in Peers(u, conv) : Begin(r, "sending", u, conv, peer, context[conv])
  /\ IF u \in Keys THEN Accept(u) ELSE UNCHANGED limiter
  /\ UNCHANGED <<world, context>>

Limited(u) ==
  /\ u \in Keys /\ Full(u)
  /\ Refuse(u)
  /\ UNCHANGED <<world, context, req>>

\* areBlocked.
ReadBlock(r) ==
  /\ req[r].pc \in {"starting", "sending"} /\ req[r].blocked = Unread
  /\ req' = [req EXCEPT ![r].blocked = AreBlocked(req[r].who, req[r].peer)]
  /\ UNCHANGED <<world, context, limiter>>

\* findEventFacts: the event, and then the registrations of actor and peer.
ReadEvent(r) ==
  /\ req[r].pc \in {"starting", "sending"} /\ req[r].event = Unread
  /\ req' = [req EXCEPT ![r].event = event[req[r].ctx],
                        ![r].regs = IF event[req[r].ctx] = None THEN {} ELSE {Unread}]
  /\ UNCHANGED <<world, context, limiter>>

ReadRegistrations(r) ==
  /\ req[r].regs = {Unread}
  /\ req' = [req EXCEPT ![r].regs = {req[r].who, req[r].peer} \cap registered[req[r].ctx]]
  /\ UNCHANGED <<world, context, limiter>>

FactsRead(r) ==
  /\ req[r].blocked # Unread /\ req[r].event # Unread /\ req[r].regs # {Unread}

\* assertPolicyAllowed.
Decide(r) ==
  /\ FactsRead(r)
  /\ \/ req[r].pc = "starting" /\ EvaluateStart(req[r]) /\ Go(r, "creating")
     \/ req[r].pc = "sending" /\ EvaluateSend(req[r]) /\ Go(r, "writing")
     \/ req[r].pc = "starting" /\ ~EvaluateStart(req[r]) /\ Answer(r)
     \/ req[r].pc = "sending" /\ ~EvaluateSend(req[r]) /\ Answer(r)
  /\ UNCHANGED <<world, context, limiter>>

\* direct_pair_key is unique: who comes second presents the conversation of the first.
CreateConversation(r) ==
  /\ req[r].pc = "creating"
  /\ context' = [c \in DOMAIN context \cup {req[r].conv} |->
                   IF c \in DOMAIN context THEN context[c] ELSE req[r].ctx]
  /\ Answer(r)
  /\ UNCHANGED <<world, limiter>>

\* The message, attachment or call is written.
Write(r) ==
  /\ req[r].pc = "writing"
  /\ Answer(r)
  /\ UNCHANGED <<world, context, limiter>>

\* getOrCreateDirect when an invitation is accepted: no event, and no policy.
AcceptInvitation(conv) ==
  /\ Cardinality(conv) = 2 /\ conv \notin DOMAIN context
  /\ context' = [c \in DOMAIN context \cup {conv} |-> IF c = conv THEN None ELSE context[c]]
  /\ UNCHANGED <<world, req, limiter>>

-----------------------------------------------------------------------------
(* The world that the policy asks about.                                   *)

Change(ev, regs) ==
  /\ event' = ev /\ registered' = regs
  /\ req' = [r \in Requests |->
       IF req[r].pc \in {"starting", "sending"}
         THEN [req[r] EXCEPT !.held =
                 @ \cup Held(req[r].pc, req[r].who, req[r].ctx, ev, regs)]
         ELSE req[r]]
  /\ UNCHANGED <<blocks, context, limiter>>

\* UpdateEventService and DeleteEventService, whose write goes through whatever another
\* made of the row meanwhile: see EventLifecycle.  Registrations go with their event.
SetEventStatus(e, status) ==
  /\ event[e] # None
  /\ Change([event EXCEPT ![e] = status],
            [registered EXCEPT ![e] = IF status = None THEN {} ELSE @])

\* Another program writes the registrations.
Register(e, u) ==
  /\ event[e] # None /\ u # Poster[e]
  /\ Change(event,
            [registered EXCEPT ![e] = IF u \in @ THEN @ \ {u} ELSE @ \cup {u}])

\* blockUser; there is no way back.
Block(u, v) ==
  /\ u # v /\ <<u, v>> \in Blocks
  /\ blocks' = blocks \cup {<<u, v>>}
  /\ UNCHANGED <<event, registered, context, req, limiter>>

Wait ==
  /\ Tick
  /\ UNCHANGED <<world, context, req>>

\* The process stops: requests and rate limits are gone.
Restart ==
  /\ req' = [r \in Requests |-> Idle]
  /\ Forget
  /\ UNCHANGED <<world, context>>
-----------------------------------------------------------------------------
Next ==
  \/ \E r \in Requests :
       \/ \E conv \in Conversations, u \in People :
            \/ \E ctx \in Events \cup {None} : BeginStart(r, u, conv, ctx)
            \/ BeginSend(r, u, conv)
       \/ ReadBlock(r) \/ ReadEvent(r) \/ ReadRegistrations(r)
       \/ Decide(r) \/ CreateConversation(r) \/ Write(r)
  \/ \E conv \in Conversations : AcceptInvitation(conv)
  \/ \E e \in Events :
       \/ \E status \in Lifecycle \cup {None} : SetEventStatus(e, status)
       \/ \E u \in People : Register(e, u)
  \/ \E u, v \in People : Block(u, v)
  \/ \E k \in Keys : Limited(k)
  \/ Wait \/ Restart

Spec == Init /\ [][Next]_vars

-----------------------------------------------------------------------------
(* Properties.                                                             *)

Pending == {"starting", "sending"}

Req == [pc : {"idle", "creating", "writing"} \cup Pending,
        who : People \cup {None}, conv : Conversations \cup {None},
        peer : People \cup {None}, ctx : Events \cup {None},
        blocked : BOOLEAN \cup {Unread},
        event : Lifecycle \cup {None, Unread},
        regs : SUBSET (People \cup {Unread}),
        held : SUBSET {"event", "role"}, barred : BOOLEAN]

TypeOK ==
  /\ event \in [Events -> Lifecycle \cup {None}]
  /\ registered \in [Events -> SUBSET People]
  /\ blocks \subseteq People \X People
  /\ DOMAIN context \subseteq Conversations
  /\ \A conv \in DOMAIN context : context[conv] \in Events \cup {None}
  /\ req \in [Requests -> Req]

\* Whoever starts a conversation or writes in one was entitled to: the event was in a
\* status that allows it, and they had a role in it that allows it, each at some time
\* since their request began (eventis.policy.ts:54-85, chat.repository.ts:678-703).
WritersWereEntitled ==
  \A r \in Requests :
    req[r].pc \in {"creating", "writing"} => {"event", "role"} \subseteq req[r].held

\* A request that begins when a block stands between its user and the others, whoever
\* blocked whom, writes nothing (chat.repository.ts:565-576).
BlocksSilence ==
  \A r \in Requests : req[r].barred => req[r].pc \notin {"creating", "writing"}

\* The organizer of an event is in every conversation that was started for it, and for
\* as long as the conversation exists: attendees reply, they do not start, and a pair
\* that has a conversation does not get a second (eventis.policy.ts:54-64).
EventTalksIncludeTheOrganizer ==
  \A conv \in DOMAIN context : context[conv] # None => Poster[context[conv]] \in conv
=============================================================================
