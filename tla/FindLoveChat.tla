---------------------------- MODULE FindLoveChat ----------------------------
(***************************************************************************)
(* A FindLove direct conversation of two people: its creation with a       *)
(* pending connection request, the decision on the request, messages sent, *)
(* edited and deleted under the messaging policy, and blocks.              *)
(*                                                                         *)
(* The policy decides on facts that loadMessagingFacts reads with separate *)
(* queries, in parallel: the block and the connection in any order, the    *)
(* sender's messages after the connection.  Nothing re-reads them when the *)
(* write follows, except that createMessage locks the row of the           *)
(* connection request and counts again when the facts said PENDING.  The   *)
(* transaction writes nothing else before its INSERT, so the INSERT and    *)
(* the commit are one step.                                                *)
(*                                                                         *)
(* Both people hold what canStart asks for: fitting profiles and a         *)
(* subscription.                                                           *)
(***************************************************************************)
EXTENDS Naturals, Sequences, FiniteSets

CONSTANTS
  Parties,     \* the two people
  Requests,    \* HTTP requests in flight at the same time
  Keys,        \* values of clientMessageId sent; None among them when left out
  MaxMessages, \* bound: messages in the conversation
  None         \* SQL NULL, a fact not read, a client message id not given

ASSUME ConstantsAssumption ==
  /\ MaxMessages \in Nat
  /\ None \notin Parties \cup Requests \cup Nat \cup BOOLEAN
  /\ None \notin {"PENDING", "ACCEPTED", "REJECTED", "CANCELLED"}

VARIABLES
  requester, \* connection_requests.requester_id; None: no conversation yet
  status,    \* connection_requests.status
  blocked,   \* user_blocks holds a row of the pair, in either direction
  msgs,      \* messages, in the order they were inserted
  lock,      \* the request whose transaction holds the row of the connection
  req        \* what a handler remembers across its awaits

vars == <<requester, status, blocked, msgs, lock, req>>

LIMIT == 1 \* FINDLOVE_PENDING_MESSAGES_PER_SENDER, and pendingSenderLimit

Decisions == {"ACCEPTED", "REJECTED", "CANCELLED"}
Statuses == {"PENDING"} \cup Decisions

Message == [sender : Parties, key : Keys \cup {None}, text : BOOLEAN,
            edited : BOOLEAN, deleted : BOOLEAN]

NoFacts == [blocked |-> None, status |-> None, sent |-> None]

Idle == [pc |-> "idle", op |-> None, who |-> None, key |-> None, msg |-> None,
         gone |-> FALSE, facts |-> NoFacts]

Init ==
  /\ requester = None
  /\ status = None
  /\ blocked = FALSE
  /\ msgs = << >>
  /\ lock = None
  /\ req = [r \in Requests |-> Idle]

Go(r, pc) == req' = [req EXCEPT ![r].pc = pc]
Answer(r) == req' = [req EXCEPT ![r] = Idle]

Begin(r, pc, op, who) ==
  /\ req[r] = Idle
  /\ req' = [req EXCEPT ![r].pc = pc, ![r].op = op, ![r].who = who]

-----------------------------------------------------------------------------
(* The conversation and the connection request.                            *)

\* findDirectByPairKey finds nothing.
StartConversation(r, p) ==
  /\ requester = None
  /\ Begin(r, "starting", "start", p)
  /\ UNCHANGED <<requester, status, blocked, msgs, lock>>

\* assertCanStart; of its facts only the block can refuse a first request.
CheckStart(r) ==
  /\ req[r].pc = "starting"
  /\ IF blocked THEN Answer(r) ELSE Go(r, "creating")
  /\ UNCHANGED <<requester, status, blocked, msgs, lock>>

\* direct_pair_key is unique: the loser of a race rolls back and presents the
\* conversation that it finds.
CreateConversation(r) ==
  /\ req[r].pc = "creating"
  /\ IF requester = None
       THEN requester' = req[r].who /\ status' = "PENDING"
       ELSE UNCHANGED <<requester, status>>
  /\ Answer(r)
  /\ UNCHANGED <<blocked, msgs, lock>>

\* updateConnectionStatus reads the row: the recipient accepts or rejects, the
\* requester cancels.
ReadConnection(r, p, decision) ==
  /\ status = "PENDING"
  /\ p = requester <=> decision = "CANCELLED"
  /\ Begin(r, "deciding", decision, p)
  /\ UNCHANGED <<requester, status, blocked, msgs, lock>>

Decide_Unconditional(r) ==
  /\ req[r].pc = "deciding"
  /\ lock = None
  /\ status' = req[r].op
  /\ Answer(r)
  /\ UNCHANGED <<requester, blocked, msgs, lock>>

\* updateMany where the status is PENDING; it waits for the lock on the row.
Decide(r) ==
  /\ req[r].pc = "deciding"
  /\ lock = None
  /\ status' = IF status = "PENDING" THEN req[r].op ELSE status
  /\ Answer(r)
  /\ UNCHANGED <<requester, blocked, msgs, lock>>

Block ==
  /\ blocked' = TRUE
  /\ UNCHANGED <<requester, status, msgs, lock, req>>

-----------------------------------------------------------------------------
(* Handlers under canSend: requireConversation, then the facts.            *)

Send(r, p, k) ==
  /\ requester # None
  /\ req[r] = Idle
  /\ req' = [req EXCEPT
       ![r] = [Idle EXCEPT !.pc = "facts", !.op = "send", !.who = p, !.key = k]]
  /\ UNCHANGED <<requester, status, blocked, msgs, lock>>

Attach(r, p) ==
  /\ requester # None
  /\ Begin(r, "facts", "attach", p)
  /\ UNCHANGED <<requester, status, blocked, msgs, lock>>

\* findMessageById; the message is refused to all but its sender.
EditOrDelete(r, op, m) ==
  /\ m \in DOMAIN msgs
  /\ req[r] = Idle
  /\ req' = [req EXCEPT
       ![r] = [Idle EXCEPT !.pc = "facts", !.op = op, !.who = msgs[m].sender,
                           !.msg = m, !.gone = msgs[m].deleted]]
  /\ UNCHANGED <<requester, status, blocked, msgs, lock>>

SentBy(p) == {m \in DOMAIN msgs : msgs[m].sender = p}
Kept(p) == {m \in SentBy(p) : ~ msgs[m].deleted}

Denies_LimitOffByOne(f) ==
  \/ f.blocked = TRUE
  \/ f.status \in {"REJECTED", "CANCELLED"}
  \/ f.status = "PENDING" /\ f.sent # None /\ f.sent > LIMIT

Denies_PendingOnly(f) ==
  \/ f.blocked = TRUE
  \/ f.status = "PENDING" /\ f.sent # None /\ f.sent >= LIMIT

\* evaluateSend of the FindLove policy, on the facts read so far.  The others can
\* change the reason that is given but not that the request is denied, so it is
\* answered at once.
Denies(f) ==
  \/ f.blocked = TRUE
  \/ f.status \in {"REJECTED", "CANCELLED"}
  \/ f.status = "PENDING" /\ f.sent # None /\ f.sent >= LIMIT

Learn(r, f) ==
  /\ req[r].pc = "facts"
  /\ IF Denies(f) THEN Answer(r) ELSE req' = [req EXCEPT ![r].facts = f]
  /\ UNCHANGED <<requester, status, blocked, msgs, lock>>

ReadBlocked(r) ==
  /\ req[r].facts.blocked = None
  /\ Learn(r, [req[r].facts EXCEPT !.blocked = blocked])

ReadStatus(r) ==
  /\ req[r].facts.status = None
  /\ Learn(r, [req[r].facts EXCEPT !.status = status])

\* messagesSentByActor does not count deleted messages.
ReadSent(r) ==
  /\ req[r].facts.status # None /\ req[r].facts.sent = None
  /\ Learn(r, [req[r].facts EXCEPT !.sent = Cardinality(Kept(req[r].who))])

Admitted(r, op) ==
  /\ req[r].pc = "facts" /\ req[r].op = op
  /\ req[r].facts.blocked # None /\ req[r].facts.sent # None

-----------------------------------------------------------------------------
(* sendMessage and addAttachment, once admitted.                           *)

Stored(p, k) == k # None /\ \E m \in SentBy(p) : msgs[m].key = k

\* findMessageByClientId: a message sent before with the key is the answer.  An
\* attachment has no key.
CheckKey(r) ==
  /\ Admitted(r, "send") \/ Admitted(r, "attach")
  /\ IF Stored(req[r].who, req[r].key)
       THEN Answer(r)
       ELSE Go(r, IF req[r].facts.status = "PENDING" THEN "locking" ELSE "inserting")
  /\ UNCHANGED <<requester, status, blocked, msgs, lock>>

LockConnection_NotTaken(r) ==
  /\ req[r].pc = "locking"
  /\ Go(r, "counting")
  /\ UNCHANGED <<requester, status, blocked, msgs, lock>>

\* SELECT ... FOR UPDATE.
LockConnection(r) ==
  /\ req[r].pc = "locking"
  /\ lock = None
  /\ lock' = r
  /\ Go(r, "counting")
  /\ UNCHANGED <<requester, status, blocked, msgs>>

Unlock(r) == lock' = IF lock = r THEN None ELSE lock

\* The count of the transaction takes deleted messages in.
CountSent(r) ==
  /\ req[r].pc = "counting"
  /\ \/ /\ Cardinality(SentBy(req[r].who)) < LIMIT
        /\ Go(r, "inserting")
        /\ UNCHANGED lock
     \/ /\ Cardinality(SentBy(req[r].who)) >= LIMIT
        /\ Unlock(r)
        /\ Answer(r)
  /\ UNCHANGED <<requester, status, blocked, msgs>>

NewMessage(r) ==
  [sender |-> req[r].who, key |-> req[r].key, text |-> req[r].op = "send",
   edited |-> FALSE, deleted |-> FALSE]

AfterInsert(r) ==
  IF req[r].op = "attach"
    THEN req' = [req EXCEPT ![r].pc = "uploading", ![r].msg = Len(msgs) + 1]
    ELSE Answer(r)

Insert_KeyNotUnique(r) ==
  /\ req[r].pc = "inserting"
  /\ Len(msgs) < MaxMessages
  /\ msgs' = Append(msgs, NewMessage(r))
  /\ Unlock(r)
  /\ AfterInsert(r)
  /\ UNCHANGED <<requester, status, blocked>>

\* The pair of sender and key is unique: the loser of a race rolls back, finds
\* the message of the winner and answers with it.
Insert(r) ==
  /\ req[r].pc = "inserting"
  /\ IF Stored(req[r].who, req[r].key)
       THEN UNCHANGED msgs
       ELSE Len(msgs) < MaxMessages /\ msgs' = Append(msgs, NewMessage(r))
  /\ Unlock(r)
  /\ AfterInsert(r)
  /\ UNCHANGED <<requester, status, blocked>>

\* The file goes to the object store after the message is committed; a failure
\* of the upload or of the attachment's row deletes the message again.
Upload(r) ==
  /\ req[r].pc = "uploading"
  /\ \/ UNCHANGED msgs
     \/ msgs' = [msgs EXCEPT ![req[r].msg].deleted = TRUE]
  /\ Answer(r)
  /\ UNCHANGED <<requester, status, blocked, lock>>

-----------------------------------------------------------------------------
(* editMessage and deleteMessage, once admitted: they update by id alone,  *)
(* on the word of the row they read first.                                 *)

Edit(r) ==
  /\ Admitted(r, "edit")
  /\ IF req[r].gone \/ ~ msgs[req[r].msg].text
       THEN UNCHANGED msgs
       ELSE msgs' = [msgs EXCEPT ![req[r].msg].edited = TRUE]
  /\ Answer(r)
  /\ UNCHANGED <<requester, status, blocked, lock>>

Delete(r) ==
  /\ Admitted(r, "delete")
  /\ IF req[r].gone
       THEN UNCHANGED msgs
       ELSE msgs' = [msgs EXCEPT ![req[r].msg].deleted = TRUE]
  /\ Answer(r)
  /\ UNCHANGED <<requester, status, blocked, lock>>

\* The process stops or a statement fails: an open transaction rolls back.
RequestDies(r) ==
  /\ req[r] # Idle
  /\ Unlock(r)
  /\ Answer(r)
  /\ UNCHANGED <<requester, status, blocked, msgs>>

-----------------------------------------------------------------------------
ReadFacts(r) == ReadBlocked(r) \/ ReadStatus(r) \/ ReadSent(r)

Transact(r) == CheckKey(r) \/ LockConnection(r) \/ CountSent(r) \/ Insert(r)
               \/ Upload(r)

Next ==
  \/ \E r \in Requests :
       \/ \E p \in Parties :
            \/ StartConversation(r, p)
            \/ \E k \in Keys : Send(r, p, k)
            \/ Attach(r, p)
            \/ \E d \in Decisions : ReadConnection(r, p, d)
       \/ \E op \in {"edit", "delete"}, m \in 1..MaxMessages : EditOrDelete(r, op, m)
       \/ CheckStart(r) \/ CreateConversation(r)
       \/ Decide(r)
       \/ ReadFacts(r)
       \/ Transact(r)
       \/ Edit(r) \/ Delete(r)
       \/ RequestDies(r)
  \/ Block

Spec == Init /\ [][Next]_vars
-----------------------------------------------------------------------------
(* Properties.                                                             *)

PCs == {"idle", "starting", "creating", "deciding", "facts", "locking",
        "counting", "inserting", "uploading"}

Facts == [blocked : BOOLEAN \cup {None}, status : Statuses \cup {None},
          sent : Nat \cup {None}]

InFlight ==
  [pc : PCs,
   op : Decisions \cup {"start", "send", "attach", "edit", "delete", None},
   who : Parties \cup {None},
   key : Keys \cup {None},
   msg : 1..MaxMessages \cup {None},
   gone : BOOLEAN,
   facts : Facts]

TypeOK ==
  /\ requester \in Parties \cup {None}
  /\ status \in Statuses \cup {None}
  /\ requester = None <=> status = None
  /\ blocked \in BOOLEAN
  /\ msgs \in Seq(Message) /\ Len(msgs) <= MaxMessages
  /\ lock \in Requests \cup {None}
  /\ req \in [Requests -> InFlight]

\* Until the recipient has accepted, neither person has more than one message in
\* the conversation, deleted ones counted: parallel sends, retries and uploads
\* that fail do not add a second (chat.repository.ts:221-235).
PendingQuota ==
  status # "ACCEPTED" => \A p \in Parties : Cardinality(SentBy(p)) <= LIMIT

\* One client message id of one sender names one message, whatever retries race
\* (chat.service.ts:336-350, 370-380).
KeysUnique ==
  \A m, n \in DOMAIN msgs :
    /\ msgs[m].sender = msgs[n].sender
    /\ msgs[m].key = msgs[n].key /\ msgs[m].key # None
    => m = n

\* A decision on the connection request is final, and the person who asked never
\* takes the recipient's decision: accept, reject and cancel race
\* (chat.repository.ts:599-623).
DecidedOnce ==
  [][/\ status \in Decisions => status' = status
     /\ requester # None => requester' = requester]_<<requester, status>>

Over == blocked \/ status \in {"REJECTED", "CANCELLED"}

\* The policy has let the request write, or still can on what it has read.
MayWrite(r) ==
  LET f == req[r].facts IN
  \/ req[r].pc \in {"locking", "counting", "inserting", "uploading"}
  \/ /\ req[r].pc = "facts"
     /\ blocked => f.blocked # None
     /\ status \in {"REJECTED", "CANCELLED"} => f.status # None

Quiet == Over /\ \A r \in Requests : ~ MayWrite(r)

\* After a block, a rejection or a cancellation, and once the requests that read
\* the policy's facts before it have answered, no message is written, edited or
\* deleted again (findlove.policy.ts:32-42, chat.repository.ts:565-576).
OverIsQuiet == [][Quiet => Quiet' /\ msgs' = msgs]_vars

-----------------------------------------------------------------------------
(* What the documents say and the code does not do.                        *)

\* docs/api-reference.md:83-84: "senders may edit or soft-delete their own
\* messages".  While the conversation is not over, a sender who asks to edit or to
\* delete a message of theirs is admitted.  Before the acceptance the code refuses
\* it: the policy that guards editMessage and deleteMessage is the one for a new
\* message, and its count takes in the very message that is to change
\* (chat.service.ts:393, 425; findlove.policy.ts:38).
SendersMayEdit ==
  \A m \in DOMAIN msgs :
    msgs[m].text /\ ~ msgs[m].deleted /\ ~ Over =>
      ~ Denies([blocked |-> blocked, status |-> status,
                sent |-> Cardinality(Kept(msgs[m].sender))])
=============================================================================
