------------------------------ MODULE Receipts ------------------------------
(***************************************************************************)
(* One reader of one conversation: the receipts of the messages that       *)
(* others send there, and the reader's lastReadAt, from which the unread   *)
(* count is made.                                                          *)
(*                                                                         *)
(* A message carries the time its sender's handler read before the INSERT. *)
(* Marking takes its time before the transaction, which updates the        *)
(* receipts it finds and then lastReadAt.  The UPDATE finds the rows       *)
(* committed when it starts, waits for rows that another marking holds and *)
(* tests them again, so its effect is that of a test at the commit.        *)
(***************************************************************************)
EXTENDS Naturals

CONSTANTS
  Messages, \* messages sent to the reader
  Requests, \* requests of the reader in flight at the same time
  MaxTime,  \* bound: the clock stops here
  None      \* SQL NULL

ASSUME ConstantsAssumption ==
  /\ MaxTime \in Nat
  /\ None \notin Nat \cup Messages
  /\ None \notin {"SENT", "DELIVERED", "READ"}

VARIABLES
  clock,       \* the time
  createdAt,   \* the stamp of each message, from when the sender's handler has it
  deleted,     \* messages with deleted_at
  status,      \* message_receipts.status, None until the message is committed
  deliveredAt, \* message_receipts.delivered_at
  readAt,      \* message_receipts.read_at
  lastReadAt,  \* conversation_participants.last_read_at
  req,         \* what a marking remembers across its awaits
  raced        \* <<m, s>>: a marking with s and the sending of m overlapped;
               \* history, read by properties only

receipts == <<status, deliveredAt, readAt>>
vars == <<clock, createdAt, deleted, receipts, lastReadAt, req, raced>>

Marks == {"DELIVERED", "READ"}

Idle == [to |-> None, msg |-> None, at |-> None, found |-> None]

Init ==
  /\ clock = 0
  /\ createdAt = [m \in Messages |-> None]
  /\ deleted = {}
  /\ status = [m \in Messages |-> None]
  /\ deliveredAt = [m \in Messages |-> None]
  /\ readAt = [m \in Messages |-> None]
  /\ lastReadAt = None
  /\ req = [r \in Requests |-> Idle]
  /\ raced = {}

Stored == {m \in Messages : status[m] # None}
InFlight == {m \in Messages : createdAt[m] # None /\ status[m] = None}

-----------------------------------------------------------------------------
(* Sending, editing aside, and deleting.                                   *)

\* sendMessage and addAttachment take the time of the message.
StampMessage(m) ==
  /\ createdAt[m] = None
  /\ createdAt' = [createdAt EXCEPT ![m] = clock]
  /\ raced' = raced \cup {<<m, req[r].to>> : r \in {r \in Requests : req[r] # Idle}}
  /\ UNCHANGED <<clock, deleted, receipts, lastReadAt, req>>

\* The transaction commits the message with a receipt for every recipient.
CreateMessage(m) ==
  /\ m \in InFlight
  /\ status' = [status EXCEPT ![m] = "SENT"]
  /\ UNCHANGED <<clock, createdAt, deleted, deliveredAt, readAt, lastReadAt, req,
                 raced>>

\* deleteMessage, and the clean-up of an upload that failed.
DeleteMessage(m) ==
  /\ m \in Stored
  /\ deleted' = deleted \cup {m}
  /\ UNCHANGED <<clock, createdAt, receipts, lastReadAt, req, raced>>

-----------------------------------------------------------------------------
(* markDelivered, of one message or of all, and markRead.                  *)

Begin(r, to, m) ==
  /\ req[r] = Idle
  /\ req' = [req EXCEPT ![r] = [to |-> to, msg |-> m, at |-> clock, found |-> None]]
  /\ raced' = raced \cup {<<n, to>> : n \in InFlight}
  /\ UNCHANGED <<clock, createdAt, deleted, receipts, lastReadAt>>

MarkDelivered(r, m) == m \in Stored \cup {None} /\ Begin(r, "DELIVERED", m)

MarkRead(r) == Begin(r, "READ", None)

CanAdvance_OrEqual(s, to) ==
  IF to = "DELIVERED" THEN s \in {"SENT", "DELIVERED"} ELSE s # None

CanAdvance_OneRank(s, to) ==
  IF to = "DELIVERED" THEN s = "SENT" ELSE s = "DELIVERED"

\* The statuses that the UPDATE asks for.
CanAdvance(s, to) ==
  IF to = "DELIVERED" THEN s = "SENT" ELSE s \in {"SENT", "DELIVERED"}

FindReceipts(r) ==
  /\ req[r] # Idle /\ req[r].found = None
  /\ req' = [req EXCEPT ![r].found =
       {m \in Stored : /\ CanAdvance(status[m], req[r].to)
                       /\ req[r].msg \in {None, m}}]
  /\ UNCHANGED <<clock, createdAt, deleted, receipts, lastReadAt, raced>>

Answer(r) == req' = [req EXCEPT ![r] = Idle]

\* READ writes both stamps and lastReadAt, whatever they were.
MarkReceipts(r) ==
  LET to == req[r].to
      hit == {m \in req[r].found : CanAdvance(status[m], to)} IN
  /\ req[r].found # None
  /\ status' = [m \in Messages |-> IF m \in hit THEN to ELSE status[m]]
  /\ deliveredAt' = [m \in Messages |-> IF m \in hit THEN req[r].at ELSE deliveredAt[m]]
  /\ readAt' = [m \in Messages |->
       IF m \in hit /\ to = "READ" THEN req[r].at ELSE readAt[m]]
  /\ lastReadAt' = IF to = "READ" THEN req[r].at ELSE lastReadAt
  /\ Answer(r)
  /\ UNCHANGED <<clock, createdAt, deleted, raced>>

\* The process stops or a statement fails: the transaction rolls back.
RequestDies(r) ==
  /\ req[r] # Idle
  /\ Answer(r)
  /\ UNCHANGED <<clock, createdAt, deleted, receipts, lastReadAt, raced>>

Tick ==
  /\ clock < MaxTime
  /\ clock' = clock + 1
  /\ UNCHANGED <<createdAt, deleted, receipts, lastReadAt, req, raced>>

Next ==
  \/ \E m \in Messages : StampMessage(m) \/ CreateMessage(m) \/ DeleteMessage(m)
  \/ \E r \in Requests :
       \/ MarkRead(r)
       \/ \E m \in Messages \cup {None} : MarkDelivered(r, m)
       \/ FindReceipts(r) \/ MarkReceipts(r) \/ RequestDies(r)
  \/ Tick

Spec == Init /\ [][Next]_vars

-----------------------------------------------------------------------------
(* Properties.                                                             *)

Times == Nat \cup {None}
ReceiptStatus == {"SENT"} \cup Marks

TypeOK ==
  /\ clock \in Nat
  /\ createdAt \in [Messages -> Times]
  /\ status \in [Messages -> ReceiptStatus \cup {None}]
  /\ \A m \in Messages : createdAt[m] = None => status[m] = None
  /\ deleted \subseteq Stored
  /\ deliveredAt \in [Messages -> Times]
  /\ readAt \in [Messages -> Times]
  /\ lastReadAt \in Times
  /\ raced \subseteq Messages \X Marks
  /\ req \in [Requests -> [to : Marks \cup {None}, msg : Messages \cup {None},
                           at : Times, found : (SUBSET Messages) \cup {None}]]
  /\ \A r \in Requests :
       /\ req[r].to = None => req[r] = Idle
       /\ req[r].to # None => req[r].at # None
       /\ req[r].found # None => req[r].found \subseteq Stored

\* What unreadCount counts.
Unread(m) ==
  m \in Stored \ deleted /\ (lastReadAt # None => createdAt[m] > lastReadAt)

\* The unread count and the receipts are two records of the same thing, and agree
\* on every message whose sending overlapped no reading, however readings overlap
\* each other; only a message of the very millisecond of the last reading can be
\* missing from both (chat.repository.ts:145-152, 351-383).
UnreadMatchesReceipts ==
  \A m \in Stored \ deleted : <<m, "READ">> \notin raced =>
    IF status[m] = "READ" THEN ~ Unread(m)
                          ELSE Unread(m) \/ createdAt[m] = lastReadAt

\* receiptRank
Rank(s) == CASE s = None -> 0 [] s = "SENT" -> 1 [] s = "DELIVERED" -> 2
             [] s = "READ" -> 3

\* A receipt only advances, whichever marking commits last, and the time it was
\* first read at is kept (chat.ts:85-101, chat.repository.ts:359-374).
ReceiptsOnlyAdvance ==
  [][\A m \in Messages : /\ Rank(status[m]) <= Rank(status'[m])
                         /\ readAt[m] # None => readAt'[m] = readAt[m]]_receipts

\* The stamps of a receipt say what its status says, and come after the message
\* unless its sending overlapped the marking: then a message can be delivered, and
\* read, before it was sent (chat.service.ts:445, 486; chat.repository.ts:368-374).
StampsAgree ==
  \A m \in Messages :
    /\ deliveredAt[m] # None <=> status[m] \in Marks
    /\ readAt[m] # None <=> status[m] = "READ"
    /\ status[m] = "READ" => deliveredAt[m] = readAt[m]
    /\ status[m] \in Marks /\ <<m, status[m]>> \notin raced =>
         createdAt[m] <= deliveredAt[m]
=============================================================================
