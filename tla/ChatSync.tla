------------------------------ MODULE ChatSync ------------------------------
(***************************************************************************)
(* How the devices of one participant come to show the messages of a       *)
(* conversation: by the events published after each change, and, after     *)
(* every connection, by walking back through the pages of the history.     *)
(*                                                                         *)
(* An event is published by the handler once its statement is answered, to *)
(* the sockets registered then; nothing records that it is owed.  A        *)
(* message is followed through its versions: an attachment is committed    *)
(* bare and told only once its file is there; a text is told at once, and  *)
(* may be edited any number of times, by edits that overlap: the row has   *)
(* the text that was written last, with the clock that its edit read.      *)
(* Devices are external: they start from nothing when they connect (one    *)
(* that kept its copies shows no less), walk, and of the versions of a     *)
(* message keep the newest by editedAt and deletedAt.  Events reach a      *)
(* socket in any order.                                                    *)
(***************************************************************************)
EXTENDS Naturals, FiniteSets

CONSTANTS
  N,           \* bound: messages sent, named by their ids 1..N
  Attachments, \* those of them that are attachments
  MaxStamp,    \* bound: the times a message or an edit may carry
  Sockets,     \* sockets of the participant
  Devices,     \* the sockets of devices that show the conversation
  Limit,       \* size of a page
  MaxEvents    \* bound: events on their way at the same time

History == 1 .. N

ASSUME SyncAssumption ==
  /\ N \in Nat /\ MaxStamp \in Nat \ {0} /\ Limit \in Nat \ {0}
  /\ Attachments \subseteq History /\ Devices \subseteq Sockets

\* The versions of a message, in the order in which a device prefers them: not there,
\* as first committed, with its attachment or edited at a time, deleted.
Absent == 0
Bare == 1
Full == 2
EditedAt(t) == Bare + t
Gone == MaxStamp + 2
Versions == Absent .. Gone

VARIABLES
  row,        \* the version in the database
  stamp,      \* messages.created_at
  uploading,  \* attachments whose file is on its way
  changing,   \* messages that an edit or a deletion in flight has read undeleted
  owed,       \* publications <<m, version>> that a handler is about to make
  registered, \* socketsByUser of the publisher
  up,         \* sockets with a connection
  inbox,      \* events on their way to each device
  copy,       \* the version each device shows
  cursor,     \* beforeId of a device's next page, Absent for the newest page
  walked,     \* devices that have walked the history since they connected
  untold,     \* versions <<m, version>> that no event will tell a device of, and
  overtaken   \* texts that an edit wrote over one with a clock no earlier than its
              \* own: only edits that overlap do; histories, read by properties only

table == <<row, stamp, uploading, changing>>
devices == <<registered, up, inbox, copy, cursor, walked>>
histories == <<untold, overtaken>>
syncVars == <<table, owed, devices, histories>>

Nothing == [m \in History |-> Absent]

Max2(a, b) == IF a > b THEN a ELSE b

SyncInit ==
  /\ row = [m \in History |-> Absent]
  /\ stamp = [m \in History |-> 0]
  /\ uploading = {} /\ changing = {}
  /\ owed = {}
  /\ registered = {} /\ up = {}
  /\ inbox = [d \in Devices |-> {}]
  /\ copy = [d \in Devices |-> Nothing]
  /\ cursor = [d \in Devices |-> Absent]
  /\ walked = {}
  /\ untold = [d \in Devices |-> Nothing]
  /\ overtaken = {}

-----------------------------------------------------------------------------
(* The handlers that change messages.                                      *)

Commit(m, version) == row' = [row EXCEPT ![m] = Max2(@, version)]

\* Nobody will be told of this version of m: only a later walk shows it.
Silent(m, version) ==
  /\ untold' = [d \in Devices |->
       IF d \in up THEN [untold[d] EXCEPT ![m] = Max2(@, version)] ELSE untold[d]]
  /\ UNCHANGED overtaken

\* A change that will be told waits while MaxEvents events are on their way.
Tell(m, version) ==
  /\ Cardinality(owed \cup UNION {inbox[d] : d \in Devices}) < MaxEvents
  /\ owed' = owed \cup {<<m, version>>}

\* sendMessage: the stamp was taken before the transaction, maybe long before.
SendText(m) ==
  /\ row[m] = Absent /\ m \notin Attachments
  /\ \E t \in 1 .. MaxStamp : stamp' = [stamp EXCEPT ![m] = t]
  /\ Commit(m, Bare)
  /\ Tell(m, Bare)
  /\ UNCHANGED <<uploading, changing, devices, histories>>

\* addAttachment commits the message first and tells nobody of it yet.
SendAttachment(m) ==
  /\ row[m] = Absent /\ m \in Attachments
  /\ \E t \in 1 .. MaxStamp : stamp' = [stamp EXCEPT ![m] = t]
  /\ Commit(m, Bare)
  /\ uploading' = uploading \cup {m}
  /\ UNCHANGED <<changing, owed, devices, histories>>

\* What is published is the message as it was created with its attachment, even
\* if it was deleted meanwhile.
StoreAttachment(m) ==
  /\ m \in uploading
  /\ uploading' = uploading \ {m}
  /\ Commit(m, Full)
  /\ Tell(m, Full)
  /\ UNCHANGED <<stamp, changing, devices, histories>>

\* The upload or its row fails, or its row is there and was not answered, and the
\* message is deleted without an event, unless that fails too.
UploadFails(m) ==
  /\ m \in uploading
  /\ uploading' = uploading \ {m}
  /\ \E version \in {Bare, Full, Gone} : Commit(m, version)
  /\ Silent(m, row'[m])
  /\ UNCHANGED <<stamp, changing, owed, devices>>

\* editMessage and deleteMessage decide on the row they read first, and any number
\* of them may have read a message.
BeginChange(m) ==
  /\ row[m] \notin {Absent, Gone}
  /\ changing' = changing \cup {m}
  /\ UNCHANGED <<row, stamp, uploading, owed, devices, histories>>

\* The clock is read before the statement, which writes by id alone: over an edit
\* with a later clock, and into a message deleted meanwhile, whose text is not shown.
Edit(m) ==
  /\ m \in changing \ Attachments
  /\ \E t \in 1 .. MaxStamp :
       /\ row' = [row EXCEPT ![m] = IF @ = Gone THEN Gone ELSE EditedAt(t)]
       /\ overtaken' = IF row[m] # Gone /\ row[m] >= EditedAt(t)
                         THEN overtaken \cup {m} ELSE overtaken
  /\ Tell(m, row'[m])
  /\ UNCHANGED <<stamp, uploading, changing, devices, untold>>

Delete(m) ==
  /\ m \in changing
  /\ Commit(m, Gone)
  /\ Tell(m, Gone)
  /\ UNCHANGED <<stamp, uploading, changing, devices, histories>>

\* The statement was carried out and its answer lost: the handler fails, and the
\* retry of a text finds it stored and publishes nothing.
AnswerLost(m, version) ==
  /\ <<m, version>> \in owed
  /\ m \in Attachments => version = Gone
  /\ owed' = owed \ {<<m, version>>}
  /\ Silent(m, version)
  /\ UNCHANGED <<table, devices>>

-----------------------------------------------------------------------------
(* The publisher, and the sockets of the devices.                          *)

\* emitToUsers, in the tick in which the statement is answered.
Publish(m, version) ==
  /\ <<m, version>> \in owed
  /\ owed' = owed \ {<<m, version>>}
  /\ inbox' = [d \in Devices |->
       IF d \in registered \cap up THEN inbox[d] \cup {<<m, version>>} ELSE inbox[d]]
  /\ UNCHANGED <<table, registered, up, copy, cursor, walked, histories>>

\* onConnection and register, on a device that shows nothing yet.
Connect(s) ==
  /\ s \notin up
  /\ up' = up \cup {s}
  /\ registered' = registered \cup {s}
  /\ UNCHANGED <<table, owed, inbox, copy, cursor, walked, histories>>

Unregister_User(S) == {}

\* unregister forgets this socket and keeps the user's others.
Unregister(S) == registered \ S

\* The sockets of S are lost, with what the devices showed.
Drop(S) ==
  /\ up' = up \ S
  /\ registered' = Unregister(S)
  /\ inbox' = [d \in Devices |-> IF d \in S THEN {} ELSE inbox[d]]
  /\ copy' = [d \in Devices |-> IF d \in S THEN Nothing ELSE copy[d]]
  /\ cursor' = [d \in Devices |-> IF d \in S THEN Absent ELSE cursor[d]]
  /\ walked' = walked \ S
  /\ untold' = [d \in Devices |-> IF d \in S THEN Nothing ELSE untold[d]]
  /\ UNCHANGED overtaken

Disconnect(s) ==
  /\ s \in up
  /\ Drop({s})
  /\ UNCHANGED <<table, owed>>

Receive(d, m, version) ==
  /\ <<m, version>> \in inbox[d]
  /\ inbox' = [inbox EXCEPT ![d] = @ \ {<<m, version>>}]
  /\ copy' = [copy EXCEPT ![d][m] = Max2(@, version)]
  /\ UNCHANGED <<table, owed, registered, up, cursor, walked, histories>>

\* The process stops and comes back: sockets and publications owed are gone, and a
\* message whose file was on its way stays as it is.
Crash ==
  /\ owed' = {} /\ uploading' = {} /\ changing' = {}
  /\ Drop(Sockets)
  /\ UNCHANGED <<row, stamp>>

-----------------------------------------------------------------------------
(* listMessages.                                                           *)

Before_OrSame(m, n) == stamp[m] < stamp[n] \/ (stamp[m] = stamp[n] /\ m <= n)

\* The order of the history: by time, and by id between equal times.
Before(m, n) == stamp[m] < stamp[n] \/ (stamp[m] = stamp[n] /\ m < n)

Rows(before) ==
  {m \in History : row[m] # Absent /\ (before # Absent => Before(m, before))}

\* The count newest messages of S: ordered by time and id whatever the cursor tests.
Newest(S, count) ==
  {m \in S : Cardinality({n \in S : stamp[m] < stamp[n] \/
                                    (stamp[m] = stamp[n] /\ m < n)}) < count}

Oldest(S) == CHOOSE m \in S : \A n \in S : Newest({m, n}, 1) = {n}

\* The rows of a page, of limit + 1 that were asked for; nextBeforeId, if there
\* are more rows.
Page(before) == Newest(Rows(before), Limit)

NextBeforeId(before) ==
  IF Cardinality(Rows(before)) <= Limit THEN Absent ELSE Oldest(Page(before))

FetchPage(d) ==
  LET page == Page(cursor[d])  next == NextBeforeId(cursor[d]) IN
  /\ d \in up \ walked
  /\ copy' = [copy EXCEPT ![d] =
       [m \in History |-> IF m \in page THEN Max2(@[m], row[m]) ELSE @[m]]]
  /\ cursor' = [cursor EXCEPT ![d] = next]
  /\ walked' = IF next = Absent THEN walked \cup {d} ELSE walked
  /\ UNCHANGED <<table, owed, registered, up, inbox, histories>>

-----------------------------------------------------------------------------
SyncNext ==
  \/ \E m \in History :
       \/ SendText(m) \/ SendAttachment(m) \/ StoreAttachment(m) \/ UploadFails(m)
       \/ BeginChange(m) \/ Edit(m) \/ Delete(m)
       \/ \E version \in Versions :
            \/ Publish(m, version) \/ AnswerLost(m, version)
            \/ \E d \in Devices : Receive(d, m, version)
  \/ \E d \in Devices : FetchPage(d)
  \/ \E s \in Sockets : Connect(s) \/ Disconnect(s)
  \/ Crash

\* Handlers run on once their statements are answered, sockets deliver or break,
\* and a device that is connected goes on with its walk.
Fairness ==
  /\ \A m \in History : WF_syncVars(StoreAttachment(m) \/ UploadFails(m))
  /\ \A m \in History, version \in Bare .. Gone :
       /\ WF_syncVars(Publish(m, version) \/ AnswerLost(m, version))
       /\ \A d \in Devices : WF_syncVars(Receive(d, m, version))
  /\ \A d \in Devices : WF_syncVars(FetchPage(d))

SyncSpec == SyncInit /\ [][SyncNext]_syncVars /\ Fairness

-----------------------------------------------------------------------------
(* Properties.                                                             *)

SyncTypeOK ==
  /\ row \in [History -> Versions]
  /\ stamp \in [History -> 0 .. MaxStamp]
  /\ uploading \cup changing \subseteq {m \in History : row[m] # Absent}
  /\ owed \subseteq History \X Versions
  /\ up \subseteq Sockets /\ registered \subseteq up
  /\ inbox \in [Devices -> SUBSET (History \X Versions)]
  /\ \A d \in Devices \ up : inbox[d] = {}
  /\ copy \in [Devices -> [History -> Versions]]
  /\ cursor \in [Devices -> History \cup {Absent}]
  /\ walked \subseteq Devices
  /\ untold \in [Devices -> [History -> Versions]]
  /\ overtaken \subseteq History

\* The device shows m as it is.  Of a text whose edits overtook each other it may
\* show the one with the later clock, though the row has the other.
Shown(d, m) ==
  /\ copy[d][m] >= row[m]
  /\ m \notin overtaken => copy[d][m] = row[m]

\* An event of m as it is now, or later, is still to come to the device.
Coming(d, m) ==
  \/ m \in uploading /\ row[m] = Bare
  \/ \E version \in row[m] .. Gone : <<m, version>> \in owed \cup inbox[d]

\* The handler that made m what it is failed after its statement, and no change was
\* told since.
Withheld(d, m) == untold[d][m] >= row[m]

\* A device that is connected and has walked the history since it connected shows
\* every message as it is, whatever happened while it was away and while it walked,
\* unless an event is still coming or the handler failed after its statement: then
\* the next change or the next connection puts it right.  A deleted message is never
\* shown again, though an edit lands on it (api-reference.md:127-128;
\* chat.service.ts:279-305, 385-436, 962-971).
RecoveryComplete ==
  /\ SyncTypeOK
  /\ \A d \in Devices \cap up \cap walked, m \in History :
       Shown(d, m) \/ Coming(d, m) \/ Withheld(d, m)

\* A device that stays connected ends up showing every message as it is, except
\* those whose handler failed after its statement.
EventuallyUpToDate ==
  \A d \in Devices :
    <>[](d \in up) =>
      <>[](\A m \in History : Shown(d, m) \/ Withheld(d, m))
=============================================================================
