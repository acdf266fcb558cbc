--------------------------- MODULE ReceiptsProofs ---------------------------
(***************************************************************************)
(* Proofs about what becomes of a message on the reader's side.  Receipts, *)
(* for any messages and requests and however long the clock runs: every    *)
(* property of the module.  ChatSync, for any number of messages, devices  *)
(* and sockets and any size of a page: the recovery of a device.           *)
(***************************************************************************)
EXTENDS Receipts, ChatSync, FiniteSetTheorems, WellFoundedInduction, TLAPS

\* Nothing is later than now.
Past ==
  /\ \A m \in Messages : createdAt[m] # None => createdAt[m] <= clock
  /\ \A r \in Requests : req[r].at # None => req[r].at <= clock
  /\ lastReadAt # None => lastReadAt <= clock

\* A message that a marking does not race with was there before the marking began.
Settled ==
  \A r \in Requests, m \in Messages :
    req[r].to # None /\ createdAt[m] # None /\ <<m, req[r].to>> \notin raced =>
      m \in Stored /\ createdAt[m] <= req[r].at

\* A reading that has found its receipts has found all those that are unread still, but
\* for messages it races with.
Complete ==
  \A r \in Requests : req[r].to = "READ" =>
    /\ req[r].msg = None
    /\ req[r].found # None =>
         \A m \in Stored : <<m, "READ">> \notin raced =>
           m \in req[r].found \/ status[m] = "READ"

\* UnreadMatchesReceipts, of messages in flight too.
Agree ==
  \A m \in Messages : createdAt[m] # None /\ <<m, "READ">> \notin raced =>
    IF status[m] = "READ" THEN lastReadAt # None /\ createdAt[m] <= lastReadAt
                          ELSE lastReadAt # None => createdAt[m] >= lastReadAt

IInv == TypeOK /\ Past /\ Settled /\ Complete /\ Agree /\ StampsAgree

-----------------------------------------------------------------------------
LEMMA InitIInv == Init => IInv
<1> SUFFICES ASSUME Init PROVE IInv
  OBVIOUS
<1> USE ConstantsAssumption DEF Init
<1>1. TypeOK
  BY DEF TypeOK, Stored, Times, Idle
<1>2. Past /\ Settled /\ Complete
  BY DEF Past, Settled, Complete, Idle
<1>3. Agree /\ StampsAgree
  BY DEF Agree, StampsAgree, Marks
<1>4. QED BY <1>1, <1>2, <1>3 DEF IInv

LEMMA StampMessageIInv ==
  ASSUME IInv, NEW m \in Messages, StampMessage(m)
  PROVE  IInv'
<1> USE ConstantsAssumption DEF IInv, StampMessage, receipts
<1>1. /\ createdAt' = [createdAt EXCEPT ![m] = clock] /\ clock \in Nat
      /\ createdAt \in [Messages -> Times] /\ status[m] = None
      /\ raced \subseteq raced'
      /\ \A r \in Requests : req[r].to # None => <<m, req[r].to>> \in raced'
  BY DEF TypeOK, Idle
<1>2. TypeOK'
  <2>1. raced' \subseteq Messages \X Marks
    BY DEF TypeOK, Idle
  <2>2. QED BY <1>1, <2>1 DEF TypeOK, Times, Stored
<1>3. Past' /\ Settled' /\ Complete'
  BY <1>1 DEF TypeOK, Past, Settled, Complete, Stored, Times
<1>4. Agree' /\ StampsAgree'
  BY <1>1 DEF TypeOK, Past, Agree, StampsAgree, Times, Marks
<1>5. QED BY <1>2, <1>3, <1>4

LEMMA CreateMessageIInv ==
  ASSUME IInv, NEW m \in Messages, CreateMessage(m)
  PROVE  IInv'
<1> USE ConstantsAssumption DEF IInv, CreateMessage
<1>1. /\ status' = [status EXCEPT ![m] = "SENT"] /\ status[m] = None
      /\ createdAt[m] # None
      /\ status \in [Messages -> ReceiptStatus \cup {None}]
      /\ Stored' = Stored \cup {m}
  BY DEF TypeOK, InFlight, Stored
<1>2. TypeOK'
  BY <1>1 DEF TypeOK, ReceiptStatus, Marks
<1>3. Past' /\ Settled'
  BY <1>1 DEF Past, Settled
<1>4. Complete'
  BY <1>1 DEF Complete, Settled, Stored
<1>5. Agree' /\ StampsAgree'
  BY <1>1 DEF Agree, StampsAgree, Marks
<1>6. QED BY <1>2, <1>3, <1>4, <1>5

LEMMA DeleteMessageIInv ==
  ASSUME IInv, NEW m \in Messages, DeleteMessage(m)
  PROVE  IInv'
BY DEF IInv, DeleteMessage, receipts, TypeOK, Past, Settled, Complete, Agree,
       StampsAgree, Stored

LEMMA BeginIInv ==
  ASSUME IInv, NEW r \in Requests, NEW to \in Marks, NEW n \in Messages \cup {None},
         to = "READ" => n = None, Begin(r, to, n)
  PROVE  IInv'
<1> USE ConstantsAssumption DEF IInv, Begin, receipts
<1>1. /\ req' = [req EXCEPT ![r] = [to |-> to, msg |-> n, at |-> clock, found |-> None]]
      /\ raced \subseteq raced' /\ clock \in Nat
      /\ \A m \in InFlight : <<m, to>> \in raced'
      /\ Stored' = Stored
  BY DEF TypeOK, Stored
<1>2. TypeOK'
  <2>1. raced' \subseteq Messages \X Marks
    BY DEF TypeOK, InFlight
  <2>2. req' \in [Requests -> [to : Marks \cup {None}, msg : Messages \cup {None},
                               at : Times, found : (SUBSET Messages) \cup {None}]]
    BY <1>1 DEF TypeOK, Times
  <2>3. \A q \in Requests :
          /\ req'[q].to = None => req'[q] = Idle
          /\ req'[q].to # None => req'[q].at # None
          /\ req'[q].found # None => req'[q].found \subseteq Stored
    BY <1>1 DEF TypeOK, Marks
  <2>4. QED BY <1>1, <2>1, <2>2, <2>3 DEF TypeOK
<1>3. Past'
  BY <1>1 DEF TypeOK, Past
<1>4. Settled'
  BY <1>1 DEF TypeOK, Past, Settled, InFlight, Stored
<1>5. Complete'
  BY <1>1 DEF TypeOK, Complete
<1>6. Agree' /\ StampsAgree'
  BY <1>1 DEF Agree, StampsAgree
<1>7. QED BY <1>2, <1>3, <1>4, <1>5, <1>6

LEMMA FindReceiptsIInv ==
  ASSUME IInv, NEW r \in Requests, FindReceipts(r)
  PROVE  IInv'
<1> USE ConstantsAssumption DEF IInv, FindReceipts, receipts
<1> DEFINE found == {m \in Stored : /\ CanAdvance(status[m], req[r].to)
                                    /\ req[r].msg \in {None, m}}
<1>1. /\ req' = [req EXCEPT ![r].found = found]
      /\ found \subseteq Stored /\ Stored' = Stored /\ Stored \subseteq Messages
  BY DEF Stored
<1>2. TypeOK'
  BY <1>1 DEF TypeOK, Idle
<1>3. Past' /\ Settled'
  BY <1>1 DEF TypeOK, Past, Settled
<1>4. Complete'
  <2>1. req[r].to = "READ" => \A m \in Stored : m \in found \/ status[m] = "READ"
    BY DEF TypeOK, Complete, CanAdvance, Stored, ReceiptStatus, Marks
  <2>2. QED BY <1>1, <2>1 DEF TypeOK, Complete
<1>5. Agree' /\ StampsAgree'
  BY DEF Agree, StampsAgree
<1>6. QED BY <1>2, <1>3, <1>4, <1>5

\* What a marking does to each receipt.
LEMMA Marked ==
  ASSUME IInv, NEW r \in Requests, MarkReceipts(r)
  PROVE  /\ req[r].to \in Marks /\ req[r].at \in Nat /\ req[r].found \subseteq Stored
         /\ req' = [req EXCEPT ![r] = Idle]
         /\ lastReadAt' = IF req[r].to = "READ" THEN req[r].at ELSE lastReadAt
         /\ UNCHANGED <<clock, createdAt, deleted, raced>>
         /\ Stored' = Stored
         /\ \A m \in Messages :
              LET hit == m \in req[r].found /\ CanAdvance(status[m], req[r].to) IN
              /\ status'[m] = IF hit THEN req[r].to ELSE status[m]
              /\ deliveredAt'[m] = IF hit THEN req[r].at ELSE deliveredAt[m]
              /\ readAt'[m] = IF hit /\ req[r].to = "READ" THEN req[r].at ELSE readAt[m]
<1> USE ConstantsAssumption DEF IInv, MarkReceipts, Answer
<1>1. /\ req[r].to \in Marks /\ req[r].at \in Nat /\ req[r].found \subseteq Stored
  BY DEF TypeOK, Idle, Times
<1>2. \A m \in Messages :
        LET hit == m \in req[r].found /\ CanAdvance(status[m], req[r].to) IN
        /\ status'[m] = IF hit THEN req[r].to ELSE status[m]
        /\ deliveredAt'[m] = IF hit THEN req[r].at ELSE deliveredAt[m]
        /\ readAt'[m] = IF hit /\ req[r].to = "READ" THEN req[r].at ELSE readAt[m]
  OBVIOUS
<1>3. Stored' = Stored
  BY <1>1, <1>2 DEF Stored, Marks
<1>4. QED BY <1>1, <1>2, <1>3

LEMMA MarkReceiptsIInv ==
  ASSUME IInv, NEW r \in Requests, MarkReceipts(r)
  PROVE  IInv'
<1> USE ConstantsAssumption, Marked DEF IInv
<1>1. TypeOK'
  <2>1. /\ status' \in [Messages -> ReceiptStatus \cup {None}]
        /\ deliveredAt' \in [Messages -> Times]
        /\ readAt' \in [Messages -> Times]
    BY DEF MarkReceipts, TypeOK, ReceiptStatus, Times, Marks
  <2>2. \A m \in Messages : createdAt'[m] = None => status'[m] = None
    BY DEF TypeOK, Stored
  <2>3. /\ req' \in [Requests -> [to : Marks \cup {None}, msg : Messages \cup {None},
                                  at : Times, found : (SUBSET Messages) \cup {None}]]
        /\ lastReadAt' \in Times
    BY DEF TypeOK, Idle, Times
  <2>4. \A q \in Requests :
          /\ req'[q].to = None => req'[q] = Idle
          /\ req'[q].to # None => req'[q].at # None
          /\ req'[q].found # None => req'[q].found \subseteq Stored
    BY DEF TypeOK, Idle
  <2>5. QED BY <2>1, <2>2, <2>3, <2>4 DEF TypeOK
<1>2. Past'
  BY DEF TypeOK, Past, Idle, Times
<1>3. Settled'
  BY DEF TypeOK, Settled, Idle
<1>4. Complete'
  BY DEF TypeOK, Complete, Idle, CanAdvance, Marks, Stored
<1>5. Agree'
  <2> SUFFICES ASSUME NEW m \in Messages, createdAt[m] # None,
                      <<m, "READ">> \notin raced
               PROVE  IF status'[m] = "READ"
                        THEN lastReadAt' # None /\ createdAt[m] <= lastReadAt'
                        ELSE lastReadAt' # None => createdAt[m] >= lastReadAt'
    BY DEF Agree
  <2>1. CASE req[r].to = "READ"
    <3>1. m \in Stored /\ createdAt[m] <= req[r].at
      BY <2>1 DEF Settled
    <3>2. status'[m] = "READ"
      BY <2>1, <3>1
         DEF Complete, MarkReceipts, CanAdvance, TypeOK, Stored, ReceiptStatus, Marks
    <3>3. QED BY <2>1, <3>1, <3>2
  <2>2. CASE req[r].to = "DELIVERED"
    BY <2>2 DEF Agree, CanAdvance
  <2>3. QED BY <2>1, <2>2 DEF Marks
<1>6. StampsAgree'
  <2> SUFFICES ASSUME NEW m \in Messages
               PROVE  /\ deliveredAt'[m] # None <=> status'[m] \in Marks
                      /\ readAt'[m] # None <=> status'[m] = "READ"
                      /\ status'[m] = "READ" => deliveredAt'[m] = readAt'[m]
                      /\ status'[m] \in Marks /\ <<m, status'[m]>> \notin raced =>
                           createdAt[m] <= deliveredAt'[m]
    BY DEF StampsAgree
  <2>1. CASE m \in req[r].found /\ CanAdvance(status[m], req[r].to)
    <3>1. createdAt[m] # None
      BY <2>1 DEF TypeOK, Stored
    <3>2. <<m, req[r].to>> \notin raced => createdAt[m] <= req[r].at
      BY <3>1 DEF Settled, Marks
    <3>3. /\ status'[m] = req[r].to /\ req[r].to \in Marks
          /\ deliveredAt'[m] = req[r].at /\ req[r].at # None
          /\ readAt'[m] = IF req[r].to = "READ" THEN req[r].at ELSE readAt[m]
      BY <2>1
    <3>4. status[m] # "READ" /\ readAt[m] = None
      BY <2>1 DEF StampsAgree, CanAdvance
    <3>5. QED BY <3>2, <3>3, <3>4 DEF Marks
  <2>2. CASE ~(m \in req[r].found /\ CanAdvance(status[m], req[r].to))
    BY <2>2 DEF StampsAgree
  <2>3. QED BY <2>1, <2>2
<1>7. QED BY <1>1, <1>2, <1>3, <1>4, <1>5, <1>6

LEMMA RequestDiesIInv ==
  ASSUME IInv, NEW r \in Requests, RequestDies(r)
  PROVE  IInv'
<1> USE ConstantsAssumption DEF IInv, RequestDies, Answer, receipts
<1>1. req' = [req EXCEPT ![r] = Idle] /\ Stored' = Stored
  BY DEF Stored
<1>2. TypeOK'
  BY <1>1 DEF TypeOK, Idle, Times
<1>3. Past' /\ Settled' /\ Complete'
  BY <1>1 DEF TypeOK, Past, Settled, Complete, Idle
<1>4. Agree' /\ StampsAgree'
  BY DEF Agree, StampsAgree
<1>5. QED BY <1>2, <1>3, <1>4

LEMMA TickIInv ==
  ASSUME IInv, Tick
  PROVE  IInv'
BY ConstantsAssumption
   DEF IInv, Tick, receipts, TypeOK, Past, Settled, Complete, Agree, StampsAgree,
       Stored, Times

LEMMA StepIInv == IInv /\ [Next]_vars => IInv'
<1> SUFFICES ASSUME IInv, [Next]_vars PROVE IInv'
  OBVIOUS
<1>1. ASSUME NEW r \in Requests, MarkRead(r) PROVE IInv'
  BY <1>1, BeginIInv DEF MarkRead, Marks
<1>2. ASSUME NEW r \in Requests, NEW m \in Messages \cup {None}, MarkDelivered(r, m)
      PROVE  IInv'
  BY <1>2, BeginIInv DEF MarkDelivered, Marks
<1>3. CASE UNCHANGED vars
  BY <1>3 DEF vars, receipts, IInv, TypeOK, Past, Settled, Complete, Agree,
     StampsAgree, Stored
<1>4. QED
  BY <1>1, <1>2, <1>3, StampMessageIInv, CreateMessageIInv, DeleteMessageIInv,
     FindReceiptsIInv, MarkReceiptsIInv, RequestDiesIInv, TickIInv DEF Next

LEMMA Invariance == Spec => []IInv
BY InitIInv, StepIInv, PTL DEF Spec

-----------------------------------------------------------------------------
\* The variables keep their types; only committed messages have receipts.
THEOREM TypeCorrect == Spec => []TypeOK
BY Invariance, PTL DEF IInv

\* The stamps of a receipt say what its status says, and come after the message unless
\* its sending overlapped the marking (chat.repository.ts:368-374).
THEOREM StampsCorrect == Spec => []StampsAgree
BY Invariance, PTL DEF IInv

\* The unread count and the receipts agree on every message whose sending overlapped no
\* reading, whatever readings do to each other (chat.repository.ts:145-152, 351-383).
THEOREM UnreadIsRight == Spec => []UnreadMatchesReceipts
<1>1. IInv => UnreadMatchesReceipts
  <2> SUFFICES ASSUME IInv, NEW m \in Stored \ deleted, <<m, "READ">> \notin raced
               PROVE  IF status[m] = "READ" THEN ~ Unread(m)
                        ELSE Unread(m) \/ createdAt[m] = lastReadAt
    BY DEF UnreadMatchesReceipts
  <2>1. /\ createdAt[m] \in Nat
        /\ lastReadAt # None => lastReadAt \in Nat
    BY DEF IInv, TypeOK, Stored, Times
  <2>2. IF status[m] = "READ" THEN lastReadAt # None /\ createdAt[m] <= lastReadAt
          ELSE lastReadAt # None => createdAt[m] >= lastReadAt
    BY <2>1, ConstantsAssumption DEF IInv, Agree, Stored
  <2> QED
    BY <2>1, <2>2 DEF Unread
<1>2. QED BY <1>1, Invariance, PTL

\* No receipt goes back and no reading time changes (chat.repository.ts:359-374).
THEOREM ReceiptsAdvance == Spec => ReceiptsOnlyAdvance
<1> DEFINE Advance ==
      \A m \in Messages : /\ Rank(status[m]) <= Rank(status'[m])
                          /\ readAt[m] # None => readAt'[m] = readAt[m]
<1>1. IInv /\ [Next]_vars => [Advance]_receipts
  <2> SUFFICES ASSUME IInv, Next PROVE [Advance]_receipts
    BY DEF vars, receipts
  <2>1. ASSUME NEW m \in Messages, CreateMessage(m) PROVE Advance
    BY <2>1, ConstantsAssumption
       DEF CreateMessage, InFlight, Stored, IInv, TypeOK, Rank, ReceiptStatus, Marks
  <2>2. ASSUME NEW r \in Requests, MarkReceipts(r) PROVE Advance
    <3> SUFFICES ASSUME NEW m \in Messages
                 PROVE  /\ Rank(status[m]) <= Rank(status'[m])
                        /\ readAt[m] # None => readAt'[m] = readAt[m]
      OBVIOUS
    <3>1. CASE m \in req[r].found /\ CanAdvance(status[m], req[r].to)
      <4>1. /\ req[r].to \in Marks /\ status'[m] = req[r].to
            /\ status[m] \in {"SENT", "DELIVERED"}
            /\ req[r].to = "DELIVERED" => status[m] = "SENT"
        BY <2>2, <3>1, Marked DEF CanAdvance, Marks
      <4>2. Rank(status[m]) <= Rank(status'[m])
        BY <4>1, ConstantsAssumption DEF Rank, Marks
      <4>3. readAt[m] = None
        BY <4>1 DEF IInv, StampsAgree
      <4>4. QED BY <4>2, <4>3
    <3>2. CASE ~(m \in req[r].found /\ CanAdvance(status[m], req[r].to))
      <4>1. status'[m] = status[m] /\ readAt'[m] = readAt[m]
        BY <2>2, <3>2, Marked
      <4>2. status[m] \in {None, "SENT", "DELIVERED", "READ"}
        BY DEF IInv, TypeOK, ReceiptStatus, Marks
      <4>3. QED BY <4>1, <4>2, ConstantsAssumption DEF Rank
    <3>3. QED BY <3>1, <3>2
  <2>3. QED
    BY <2>1, <2>2
       DEF Next, StampMessage, DeleteMessage, MarkRead, MarkDelivered, Begin,
           FindReceipts, RequestDies, Tick, receipts
<1>2. QED BY <1>1, Invariance, PTL DEF Spec, ReceiptsOnlyAdvance

-----------------------------------------------------------------------------
(* ChatSync: the order of the history, and the pages of a walk.            *)

\* Before is a strict total order.
LEMMA OrderFacts ==
  ASSUME SyncTypeOK
  PROVE  /\ \A m, n \in History : m # n => Before(m, n) \/ Before(n, m)
         /\ \A m, n \in History : Before(m, n) => m # n /\ ~ Before(n, m)
         /\ \A m, n, k \in History : Before(m, n) /\ Before(n, k) => Before(m, k)
<1> USE SyncAssumption
<1>1. History \subseteq Nat /\ \A m \in History : stamp[m] \in Nat
  BY DEF SyncTypeOK, History
<1> QED
  BY <1>1 DEF Before

LEMMA HistoryIsFinite == IsFiniteSet(History)
<1>1. 1 \in Int /\ N \in Int
  BY SyncAssumption
<1> QED
  BY <1>1, FS_Interval DEF History

\* Of finitely many subsets of a finite set, one has none of the others in it.
LEMMA SmallestSubset ==
  ASSUME NEW S, IsFiniteSet(S), NEW T, T \subseteq SUBSET S, T # {}
  PROVE  \E X \in T : \A Y \in T : Y \subseteq X => Y = X
<1>1. IsWellFoundedOn(StrictSubsetOrdering(S), SUBSET S)
  BY FS_StrictSubsetOrderingWellFounded, FS_FiniteSubsetsOfFinite
<1>2. PICK X \in T : \A Y \in T : <<Y, X>> \notin StrictSubsetOrdering(S)
  BY <1>1, WFMin
<1> QED
  BY <1>2 DEF StrictSubsetOrdering

\* There is an oldest and a newest of some messages.
LEMMA EndsOfHistory ==
  ASSUME SyncTypeOK, NEW S \in SUBSET History, S # {}
  PROVE  /\ \E m \in S : \A n \in S \ {m} : Before(m, n)
         /\ \E m \in S : \A n \in S \ {m} : Before(n, m)
<1>1. IsFiniteSet(S)
  BY HistoryIsFinite, FS_Subset
<1>2. \E m \in S : \A n \in S \ {m} : Before(m, n)
  <2> DEFINE Older(m) == {n \in S : Before(n, m)}
             T == {Older(m) : m \in S}
  <2>1. T \subseteq SUBSET S /\ T # {}
    OBVIOUS
  <2> HIDE DEF T
  <2>2. PICK X \in T : \A Y \in T : Y \subseteq X => Y = X
    BY <1>1, <2>1, SmallestSubset
  <2>3. PICK m \in S : X = Older(m)
    BY DEF T
  <2>4. ASSUME NEW n \in Older(m)
        PROVE  FALSE
    <3>1. Older(n) \subseteq Older(m) /\ n \notin Older(n)
      BY OrderFacts
    <3>2. Older(n) \in T
      BY DEF T
    <3> QED
      BY <2>2, <2>3, <2>4, <3>1, <3>2
  <2> QED
    BY <2>4, OrderFacts
<1>3. \E m \in S : \A n \in S \ {m} : Before(n, m)
  <2> DEFINE Newer(m) == {n \in S : Before(m, n)}
             T == {Newer(m) : m \in S}
  <2>1. T \subseteq SUBSET S /\ T # {}
    OBVIOUS
  <2> HIDE DEF T
  <2>2. PICK X \in T : \A Y \in T : Y \subseteq X => Y = X
    BY <1>1, <2>1, SmallestSubset
  <2>3. PICK m \in S : X = Newer(m)
    BY DEF T
  <2>4. ASSUME NEW n \in Newer(m)
        PROVE  FALSE
    <3>1. Newer(n) \subseteq Newer(m) /\ n \notin Newer(n)
      BY OrderFacts
    <3>2. Newer(n) \in T
      BY DEF T
    <3> QED
      BY <2>2, <2>3, <2>4, <3>1, <3>2
  <2> QED
    BY <2>4, OrderFacts
<1> QED
  BY <1>2, <1>3

\* The newest of S: all of S if it is small enough, some of it in any case, and with
\* a message every message of S after it.
LEMMA NewestFacts ==
  ASSUME SyncTypeOK, NEW S \in SUBSET History, NEW count \in Nat \ {0}
  PROVE  /\ Newest(S, count) \subseteq S
         /\ S # {} => Newest(S, count) # {}
         /\ Cardinality(S) <= count => Newest(S, count) = S
         /\ \A m \in Newest(S, count), n \in S :
              Before(m, n) => n \in Newest(S, count)
<1> DEFINE Newer(m) == {n \in S : Before(m, n)}
<1>1. Newest(S, count) = {m \in S : Cardinality(Newer(m)) < count}
  BY DEF Newest, Before
<1>2. IsFiniteSet(S) /\ Cardinality(S) \in Nat
  BY HistoryIsFinite, FS_Subset, FS_CardinalityType
<1>3. \A m \in S : /\ IsFiniteSet(Newer(m))
                   /\ Cardinality(Newer(m)) \in Nat
  BY <1>2, FS_Subset, FS_CardinalityType
<1>4. ASSUME S # {}
      PROVE  Newest(S, count) # {}
  <2>1. PICK m \in S : \A n \in S \ {m} : Before(n, m)
    BY <1>4, EndsOfHistory
  <2>2. Newer(m) = {}
    BY <2>1, OrderFacts
  <2> QED
    BY <1>1, <2>2, FS_EmptySet
<1>5. ASSUME Cardinality(S) <= count
      PROVE  Newest(S, count) = S
  <2> SUFFICES ASSUME NEW m \in S
               PROVE  Cardinality(Newer(m)) < count
    BY <1>1
  <2>1. Newer(m) \subseteq S /\ m \notin Newer(m)
    BY OrderFacts
  <2>2. /\ Cardinality(Newer(m)) <= Cardinality(S)
        /\ Cardinality(Newer(m)) # Cardinality(S)
    BY <1>2, <2>1, FS_Subset
  <2> HIDE DEF Newer
  <2> QED
    BY <1>2, <1>3, <1>5, <2>2
<1>6. ASSUME NEW m \in Newest(S, count), NEW n \in S, Before(m, n)
      PROVE  n \in Newest(S, count)
  <2>1. m \in S /\ Cardinality(Newer(m)) < count
    BY <1>1
  <2>2. Newer(n) \subseteq Newer(m)
    BY <1>6, <2>1, OrderFacts
  <2>3. Cardinality(Newer(n)) <= Cardinality(Newer(m))
    BY <1>3, <2>1, <2>2, FS_Subset
  <2> HIDE DEF Newer
  <2>4. Cardinality(Newer(n)) < count
    BY <1>3, <2>1, <2>3
  <2> QED
    BY <1>1, <2>4
<1> QED
  BY <1>1, <1>4, <1>5, <1>6

LEMMA OldestFacts ==
  ASSUME SyncTypeOK, NEW S \in SUBSET History, S # {}
  PROVE  Oldest(S) \in S
<1>1. PICK m \in S : \A n \in S \ {m} : Before(m, n)
  BY EndsOfHistory
<1>2. ASSUME NEW n \in S
      PROVE  Newest({m, n}, 1) = {n}
  <2> DEFINE Newer(k) == {l \in {m, n} : Before(k, l)}
  <2>1. Newest({m, n}, 1) = {k \in {m, n} : Cardinality(Newer(k)) < 1}
    BY DEF Newest, Before
  <2>2. Newer(n) = {} /\ (m # n => Newer(m) = {n})
    BY <1>1, OrderFacts
  <2>3. Cardinality({}) = 0 /\ Cardinality({n}) = 1
    BY FS_EmptySet, FS_Singleton
  <2> HIDE DEF Newer
  <2> QED
    BY <2>1, <2>2, <2>3
<1> QED
  BY <1>2 DEF Oldest

\* A page holds every row of the history between its two cursors.
LEMMA PageIsComplete ==
  ASSUME SyncTypeOK, NEW c \in History \cup {Absent}
  PROVE  /\ NextBeforeId(c) \in Rows(c) \cup {Absent}
         /\ Page(c) \subseteq Rows(c)
         /\ \A m \in Rows(c) :
              NextBeforeId(c) = Absent \/ ~ Before(m, NextBeforeId(c)) => m \in Page(c)
<1>1. Rows(c) \in SUBSET History /\ Limit \in Nat \ {0}
  BY SyncAssumption DEF Rows
<1>2. IsFiniteSet(Rows(c)) /\ Cardinality(Rows(c)) \in Nat
  BY <1>1, HistoryIsFinite, FS_Subset, FS_CardinalityType
<1>3. Page(c) \subseteq Rows(c)
  BY <1>1, NewestFacts DEF Page
<1>4. CASE Cardinality(Rows(c)) <= Limit
  BY <1>1, <1>3, <1>4, NewestFacts DEF NextBeforeId, Page
<1>5. CASE ~ Cardinality(Rows(c)) <= Limit
  <2>1. Rows(c) # {}
    BY <1>1, <1>2, <1>5, FS_EmptySet
  <2>2. Page(c) # {}
    BY <1>1, <2>1, NewestFacts DEF Page
  <2>3. NextBeforeId(c) \in Page(c)
    BY <1>1, <1>3, <1>5, <2>2, OldestFacts DEF NextBeforeId
  <2>4. ASSUME NEW m \in Rows(c), ~ Before(m, NextBeforeId(c))
        PROVE  m \in Page(c)
    <3>1. m = NextBeforeId(c) \/ Before(NextBeforeId(c), m)
      BY <1>1, <1>3, <2>3, <2>4, OrderFacts
    <3> QED
      BY <1>1, <2>3, <3>1, NewestFacts DEF Page
  <2>5. NextBeforeId(c) # Absent
    BY <1>1, <1>3, <2>3, SyncAssumption DEF Absent, History
  <2> QED
    BY <1>3, <2>3, <2>4, <2>5
<1> QED
  BY <1>4, <1>5

-----------------------------------------------------------------------------
(* The inductive invariant of ChatSync.                                    *)

\* But for texts whose edits overtook each other, nobody shows or is told a later
\* version than the row has.
EventsAreOld ==
  \A m \in History \ overtaken :
    /\ \A d \in Devices : copy[d][m] <= row[m]
    /\ \A version \in Versions :
         /\ <<m, version>> \in owed => version <= row[m]
         /\ \A d \in Devices : <<m, version>> \in inbox[d] => version <= row[m]

\* The publisher has every socket, an attachment whose file is on its way has no
\* other version than that it was committed or deleted with, and a walk stands at a row.
Books ==
  /\ registered = up
  /\ \A m \in uploading : m \in Attachments /\ row[m] \in {Bare, Gone}
  /\ walked \subseteq up
  /\ \A d \in Devices :
       /\ d \notin up => cursor[d] = Absent
       /\ cursor[d] # Absent => row[cursor[d]] # Absent

\* The device shows m as it is or as a later clock made it, or the event is on its way
\* or will be, or none will be.
Due(d, m) == copy[d][m] >= row[m] \/ Coming(d, m) \/ Withheld(d, m)

\* The walk of d has passed the place of m.
Passed(d, m) ==
  d \in walked \/ (cursor[d] # Absent /\ ~ Before(m, cursor[d]))

PassedIsDue ==
  \A d \in Devices \cap up, m \in History : Passed(d, m) => Due(d, m)

SyncIInv == SyncTypeOK /\ EventsAreOld /\ Books /\ PassedIsDue

LEMMA VersionsAreNumbers ==
  /\ \A v \in Versions : v \in Nat /\ v <= Gone
  /\ Gone \in Versions /\ Full < Gone
  /\ {Absent, Bare, Full} \subseteq Versions /\ Gone # Bare /\ Gone # Absent
BY SyncAssumption DEF Versions, Absent, Bare, Full, Gone

LEMMA MaxFacts ==
  ASSUME NEW v \in Versions, NEW w \in Versions
  PROVE  /\ Max2(v, w) \in Versions
         /\ v <= Max2(v, w) /\ w <= Max2(v, w)
         /\ Max2(v, w) \in {v, w}
BY VersionsAreNumbers DEF Max2

\* The row of m is written, no other row moves, and it moves up unless it is overtaken.
Written(m) ==
  /\ row' \in [History -> Versions] /\ row'[m] # Absent
  /\ \A n \in History \ {m} : row'[n] = row[n]
  /\ overtaken \subseteq overtaken' /\ overtaken' \subseteq overtaken \cup {m}
  /\ m \notin overtaken' => row[m] <= row'[m]

LEMMA CommitFacts ==
  ASSUME SyncTypeOK, NEW m \in History, NEW v \in Versions \ {Absent}, Commit(m, v),
         UNCHANGED overtaken
  PROVE  /\ Written(m)
         /\ row'[m] = Max2(row[m], v) /\ v <= row'[m]
<1>1. row \in [History -> Versions] /\ row[m] \in Versions
  BY DEF SyncTypeOK
<1>2. row' \in [History -> Versions] /\ row'[m] = Max2(row[m], v)
      /\ \A n \in History \ {m} : row'[n] = row[n]
  BY <1>1, MaxFacts DEF Commit
<1>3. row[m] <= row'[m] /\ v <= row'[m] /\ row'[m] # Absent
  BY <1>1, <1>2, MaxFacts, VersionsAreNumbers DEF Absent
<1> QED
  BY <1>2, <1>3 DEF Written

LEMMA EditFacts ==
  ASSUME SyncTypeOK, NEW m \in History, Edit(m)
  PROVE  /\ Written(m)
         /\ owed' = owed \cup {<<m, row'[m]>>}
         /\ m \notin Attachments
<1>1. PICK t \in 1 .. MaxStamp :
        /\ row' = [row EXCEPT ![m] = IF @ = Gone THEN Gone ELSE EditedAt(t)]
        /\ overtaken' = IF row[m] # Gone /\ row[m] >= EditedAt(t)
                          THEN overtaken \cup {m} ELSE overtaken
  BY DEF Edit
<1>2. EditedAt(t) \in Versions /\ EditedAt(t) # Absent /\ Gone \in Versions
      /\ Gone # Absent
  BY SyncAssumption DEF EditedAt, Versions, Absent, Bare, Gone
<1>3. row \in [History -> Versions] /\ row[m] \in Nat /\ EditedAt(t) \in Nat
      /\ Gone \in Nat
  BY <1>2, VersionsAreNumbers DEF SyncTypeOK
<1>4. /\ row' \in [History -> Versions] /\ row'[m] # Absent
      /\ \A n \in History \ {m} : row'[n] = row[n]
      /\ row'[m] = IF row[m] = Gone THEN Gone ELSE EditedAt(t)
  BY <1>1, <1>2, <1>3
<1>5. m \notin overtaken' => row[m] <= row'[m]
  BY <1>1, <1>3, <1>4
<1> QED
  BY <1>1, <1>4, <1>5 DEF Written, Edit, Tell

\* A change of one row keeps what was said of the copies and of the events.
LEMMA WrittenKeeps ==
  ASSUME SyncTypeOK, EventsAreOld, NEW m \in History, Written(m),
         NEW v \in Versions, v <= row'[m], copy' = copy, inbox' = inbox,
         owed' \subseteq owed \cup {<<m, v>>}
  PROVE  EventsAreOld'
<1> SUFFICES ASSUME NEW n \in History \ overtaken'
             PROVE  /\ \A d \in Devices : copy'[d][n] <= row'[n]
                    /\ \A w \in Versions :
                         /\ <<n, w>> \in owed' => w <= row'[n]
                         /\ \A d \in Devices : <<n, w>> \in inbox'[d] => w <= row'[n]
  BY DEF EventsAreOld
<1>1. n \in History \ overtaken
  BY DEF Written
<1>2. row[n] \in Nat /\ row'[n] \in Nat /\ row[n] <= row'[n]
  BY VersionsAreNumbers DEF Written, SyncTypeOK
<1>3. \A d \in Devices : copy[d][n] \in Nat /\ copy[d][n] <= row[n]
  BY <1>1, VersionsAreNumbers DEF EventsAreOld, SyncTypeOK
<1>4. \A w \in Versions :
        /\ w \in Nat
        /\ <<n, w>> \in owed => w <= row[n]
        /\ \A d \in Devices : <<n, w>> \in inbox[d] => w <= row[n]
  BY <1>1, VersionsAreNumbers DEF EventsAreOld
<1> QED
  BY <1>2, <1>3, <1>4

LEMMA SyncTypeStep ==
  ASSUME SyncTypeOK, EventsAreOld, Books, [SyncNext]_syncVars
  PROVE  SyncTypeOK' /\ EventsAreOld'
<1>0. {Absent, Bare, Full, Gone} \subseteq Versions /\ Bare # Absent /\ Full # Absent
      /\ Gone # Absent
  BY VersionsAreNumbers DEF Absent, Bare, Full
<1>1. ASSUME NEW m \in History, NEW v \in Versions, Written(m), v <= row'[m],
             stamp' \in [History -> 0 .. MaxStamp], UNCHANGED devices,
             uploading' \cup changing' \subseteq uploading \cup changing \cup {m},
             owed' \subseteq owed \cup {<<m, v>>},
             untold' \in [Devices -> [History -> Versions]]
      PROVE  SyncTypeOK' /\ EventsAreOld'
  <2>1. EventsAreOld'
    BY <1>1, WrittenKeeps DEF devices
  <2>2. overtaken' \subseteq History /\ owed' \subseteq History \X Versions
    BY <1>1 DEF Written, SyncTypeOK
  <2>3. uploading' \cup changing' \subseteq {n \in History : row'[n] # Absent}
    BY <1>1 DEF Written, SyncTypeOK
  <2> QED
    BY <1>1, <2>1, <2>2, <2>3 DEF Written, SyncTypeOK, devices
<1>2. ASSUME NEW m \in History, NEW v \in Versions, Silent(m, v)
      PROVE  untold' \in [Devices -> [History -> Versions]] /\ overtaken' = overtaken
  <2>1. ASSUME NEW d \in Devices
        PROVE  [untold[d] EXCEPT ![m] = Max2(@, v)] \in [History -> Versions]
    <3>1. untold[d] \in [History -> Versions] /\ untold[d][m] \in Versions
      BY DEF SyncTypeOK
    <3> QED
      BY <3>1, MaxFacts
  <2> QED
    BY <1>2, <2>1 DEF Silent, SyncTypeOK
<1>3. ASSUME NEW m \in History, SendText(m)
      PROVE  SyncTypeOK' /\ EventsAreOld'
  <2>1. Commit(m, Bare) /\ overtaken' = overtaken /\ UNCHANGED <<devices, untold>>
    BY <1>3 DEF SendText, histories
  <2>2. Written(m) /\ Bare <= row'[m]
    BY <1>0, <2>1, CommitFacts
  <2>3. stamp' \in [History -> 0 .. MaxStamp]
    BY <1>3, SyncAssumption DEF SendText, SyncTypeOK
  <2> QED
    BY <1>0, <1>1, <1>3, <2>1, <2>2, <2>3 DEF SendText, Tell, SyncTypeOK
<1>4. ASSUME NEW m \in History, SendAttachment(m)
      PROVE  SyncTypeOK' /\ EventsAreOld'
  <2>1. Commit(m, Bare) /\ overtaken' = overtaken /\ UNCHANGED <<devices, untold>>
    BY <1>4 DEF SendAttachment, histories
  <2>2. Written(m) /\ Bare <= row'[m]
    BY <1>0, <2>1, CommitFacts
  <2>3. stamp' \in [History -> 0 .. MaxStamp]
    BY <1>4, SyncAssumption DEF SendAttachment, SyncTypeOK
  <2> QED
    BY <1>0, <1>1, <1>4, <2>1, <2>2, <2>3 DEF SendAttachment, SyncTypeOK
<1>5. ASSUME NEW m \in History, StoreAttachment(m)
      PROVE  SyncTypeOK' /\ EventsAreOld'
  <2>1. Commit(m, Full) /\ overtaken' = overtaken /\ UNCHANGED <<devices, untold>>
    BY <1>5 DEF StoreAttachment, histories
  <2>2. Written(m) /\ Full <= row'[m]
    BY <1>0, <2>1, CommitFacts
  <2> QED
    BY <1>0, <1>1, <1>5, <2>1, <2>2 DEF StoreAttachment, Tell, SyncTypeOK
<1>6. ASSUME NEW m \in History, UploadFails(m)
      PROVE  SyncTypeOK' /\ EventsAreOld'
  <2>1. PICK v \in {Bare, Full, Gone} : Commit(m, v)
    BY <1>6 DEF UploadFails
  <2>2. overtaken' = overtaken
    BY <1>6 DEF UploadFails, Silent
  <2>3. Written(m) /\ v <= row'[m] /\ v \in Versions
    BY <1>0, <2>1, <2>2, CommitFacts
  <2>4. row'[m] \in Versions
    BY <2>3 DEF Written
  <2>5. untold' \in [Devices -> [History -> Versions]]
    BY <1>2, <1>6, <2>4 DEF UploadFails
  <2> QED
    BY <1>1, <1>6, <2>3, <2>5 DEF UploadFails, SyncTypeOK
<1>7. ASSUME NEW m \in History, Edit(m)
      PROVE  SyncTypeOK' /\ EventsAreOld'
  <2>1. Written(m) /\ owed' = owed \cup {<<m, row'[m]>>}
    BY <1>7, EditFacts
  <2>2. row'[m] \in Versions /\ row'[m] <= row'[m]
    BY <2>1, VersionsAreNumbers DEF Written
  <2> QED
    BY <1>1, <1>7, <2>1, <2>2 DEF Edit, SyncTypeOK
<1>8. ASSUME NEW m \in History, Delete(m)
      PROVE  SyncTypeOK' /\ EventsAreOld'
  <2>1. Commit(m, Gone) /\ overtaken' = overtaken /\ UNCHANGED <<devices, untold>>
    BY <1>8 DEF Delete, histories
  <2>2. Written(m) /\ Gone <= row'[m]
    BY <1>0, <2>1, CommitFacts
  <2> QED
    BY <1>0, <1>1, <1>8, <2>1, <2>2 DEF Delete, Tell, SyncTypeOK
<1>9. ASSUME NEW m \in History, NEW version \in Versions, AnswerLost(m, version)
      PROVE  SyncTypeOK' /\ EventsAreOld'
  <2>1. untold' \in [Devices -> [History -> Versions]] /\ overtaken' = overtaken
    BY <1>2, <1>9 DEF AnswerLost
  <2> QED
    BY <1>9, <2>1 DEF AnswerLost, SyncTypeOK, EventsAreOld, table, devices
<1>10. ASSUME NEW m \in History, NEW version \in Versions, Publish(m, version)
       PROVE  SyncTypeOK' /\ EventsAreOld'
  BY <1>10 DEF Publish, SyncTypeOK, EventsAreOld, table, histories
<1>11. ASSUME NEW m \in History, BeginChange(m)
       PROVE  SyncTypeOK' /\ EventsAreOld'
  BY <1>11 DEF BeginChange, SyncTypeOK, EventsAreOld, devices, histories
<1>12. ASSUME NEW m \in History, NEW version \in Versions, NEW d \in Devices,
              Receive(d, m, version)
       PROVE  SyncTypeOK' /\ EventsAreOld'
  <2>1. /\ copy[d][m] \in Versions
        /\ m \notin overtaken => version <= row[m] /\ copy[d][m] <= row[m]
    BY <1>12 DEF Receive, SyncTypeOK, EventsAreOld
  <2>2. /\ copy' \in [Devices -> [History -> Versions]]
        /\ copy'[d][m] = Max2(copy[d][m], version)
        /\ \A e \in Devices, n \in History :
             e # d \/ n # m => copy'[e][n] = copy[e][n]
    BY <1>12, <2>1, MaxFacts DEF Receive, SyncTypeOK
  <2>3. \A e \in Devices, n \in History \ overtaken : copy'[e][n] <= row[n]
    BY <2>1, <2>2, MaxFacts DEF EventsAreOld
  <2>4. /\ inbox' \in [Devices -> SUBSET (History \X Versions)]
        /\ \A e \in Devices : inbox'[e] \subseteq inbox[e]
        /\ row' = row /\ owed' = owed /\ UNCHANGED histories
    BY <1>12 DEF Receive, SyncTypeOK, table
  <2>5. SyncTypeOK'
    BY <1>12, <2>2, <2>4 DEF Receive, SyncTypeOK, table, histories
  <2>6. EventsAreOld'
    BY <2>3, <2>4 DEF EventsAreOld, histories
  <2> QED
    BY <2>5, <2>6
<1>13. ASSUME NEW d \in Devices, FetchPage(d)
       PROVE  SyncTypeOK' /\ EventsAreOld'
  <2>1. /\ copy' \in [Devices -> [History -> Versions]]
        /\ \A e \in Devices, n \in History \ overtaken : copy'[e][n] <= row[n]
    <3>1. \A n \in History :
            /\ copy[d][n] \in Versions /\ row[n] \in Versions
            /\ n \notin overtaken => copy[d][n] <= row[n]
            /\ copy'[d][n] = Max2(copy[d][n], row[n]) \/ copy'[d][n] = copy[d][n]
      BY <1>13 DEF FetchPage, SyncTypeOK, EventsAreOld
    <3>2. /\ copy' = [copy EXCEPT ![d] = copy'[d]]
          /\ copy'[d] = [n \in History |-> copy'[d][n]]
      BY <1>13 DEF FetchPage, SyncTypeOK
    <3>3. \A n \in History : copy'[d][n] \in Versions
      BY <3>1, MaxFacts
    <3>4. \A n \in History \ overtaken : copy'[d][n] <= row[n]
      BY <3>1, MaxFacts, VersionsAreNumbers
    <3>5. copy'[d] \in [History -> Versions]
      BY <3>2, <3>3
    <3> QED
      BY <3>2, <3>4, <3>5 DEF SyncTypeOK, EventsAreOld
  <2>2. cursor[d] \in History \cup {Absent}
    BY DEF SyncTypeOK
  <2>3. NextBeforeId(cursor[d]) \in History \cup {Absent}
    BY <2>2, PageIsComplete DEF Rows
  <2>4. cursor' \in [Devices -> History \cup {Absent}] /\ walked' \subseteq Devices
    BY <1>13, <2>3 DEF FetchPage, SyncTypeOK
  <2>5. UNCHANGED <<table, owed, registered, up, inbox, histories>>
    BY <1>13 DEF FetchPage
  <2> QED
    BY <2>1, <2>4, <2>5 DEF SyncTypeOK, EventsAreOld, table, histories
<1>14. ASSUME NEW s \in Sockets, Connect(s)
       PROVE  SyncTypeOK' /\ EventsAreOld'
  BY <1>14 DEF Connect, SyncTypeOK, EventsAreOld, table, histories
<1>15. ASSUME NEW S \in SUBSET Sockets, Drop(S), UNCHANGED <<row, stamp>>,
              owed' \subseteq owed, uploading' \subseteq uploading,
              changing' \subseteq changing
       PROVE  SyncTypeOK' /\ EventsAreOld'
  <2>1. /\ inbox' \in [Devices -> SUBSET (History \X Versions)]
        /\ \A d \in Devices :
             inbox'[d] \subseteq inbox[d] /\ (d \in S => inbox'[d] = {})
    BY <1>15 DEF Drop, SyncTypeOK
  <2>2. Nothing \in [History -> Versions] /\ \A n \in History : Nothing[n] = Absent
    BY <1>0 DEF Nothing
  <2>3. \A n \in History : row[n] \in Nat /\ Absent <= row[n]
    BY VersionsAreNumbers DEF SyncTypeOK, Absent
  <2>4. \A d \in Devices : copy'[d] = copy[d] \/ copy'[d] = Nothing
    BY <1>15 DEF Drop
  <2>5. /\ copy' \in [Devices -> [History -> Versions]]
        /\ \A d \in Devices, n \in History \ overtaken : copy'[d][n] <= row[n]
    <3>1. copy' = [d \in Devices |-> copy'[d]]
      BY <1>15 DEF Drop
    <3>2. \A d \in Devices : copy'[d] \in [History -> Versions]
      BY <2>2, <2>4 DEF SyncTypeOK
    <3>3. \A d \in Devices, n \in History \ overtaken : copy'[d][n] <= row[n]
      BY <2>2, <2>3, <2>4 DEF EventsAreOld
    <3> QED
      BY <3>1, <3>2, <3>3
  <2>6. /\ up' \subseteq Sockets /\ registered' \subseteq up'
        /\ cursor' \in [Devices -> History \cup {Absent}]
        /\ walked' \subseteq Devices
        /\ owed' \subseteq History \X Versions
        /\ uploading' \cup changing' \subseteq {m \in History : row[m] # Absent}
        /\ overtaken' = overtaken
    BY <1>15 DEF Drop, Unregister, SyncTypeOK
  <2>7. untold' \in [Devices -> [History -> Versions]]
    BY <1>15, <2>2 DEF Drop, SyncTypeOK
  <2>8. \A d \in Devices \ up' : inbox'[d] = {}
    BY <1>15, <2>1 DEF Drop, SyncTypeOK
  <2>9. SyncTypeOK'
    BY <1>15, <2>1, <2>5, <2>6, <2>7, <2>8 DEF SyncTypeOK
  <2>10. EventsAreOld'
    BY <1>15, <2>1, <2>5, <2>6 DEF EventsAreOld
  <2> QED
    BY <2>9, <2>10
<1>16. CASE UNCHANGED syncVars
  BY <1>16 DEF syncVars, table, devices, histories, SyncTypeOK, EventsAreOld
<1>17. ASSUME NEW s \in Sockets, Disconnect(s)
       PROVE  SyncTypeOK' /\ EventsAreOld'
  BY <1>15, <1>17 DEF Disconnect, table
<1>18. CASE Crash
  BY <1>15, <1>18 DEF Crash
<1> QED
  BY <1>3, <1>4, <1>5, <1>6, <1>7, <1>8, <1>9, <1>10, <1>11, <1>12, <1>13, <1>14,
     <1>16, <1>17, <1>18 DEF SyncNext

LEMMA BooksStep ==
  ASSUME SyncTypeOK, EventsAreOld, Books, [SyncNext]_syncVars
  PROVE  Books'
<1>0. {Absent, Bare, Full, Gone} \subseteq Versions /\ Bare # Absent /\ Full # Absent
      /\ Gone # Absent
  BY VersionsAreNumbers DEF Absent, Bare, Full
<1>1. ASSUME NEW m \in History, Written(m), UNCHANGED devices,
             \A n \in uploading' :
               n \in Attachments /\ row'[n] \in {Bare, Gone}
      PROVE  Books'
  BY <1>1 DEF Written, Books, devices, SyncTypeOK
<1>2. ASSUME NEW m \in History, SendText(m)
      PROVE  Books'
  <2>1. Written(m)
    BY <1>0, <1>2, CommitFacts DEF SendText, histories
  <2> QED
    BY <1>1, <1>2, <2>1 DEF SendText, SyncTypeOK, Written, Books
<1>3. ASSUME NEW m \in History, SendAttachment(m)
      PROVE  Books'
  <2>1. Written(m) /\ row'[m] = Max2(row[m], Bare)
    BY <1>0, <1>3, CommitFacts DEF SendAttachment, histories
  <2>2. row'[m] = Bare
    BY <1>3, <2>1 DEF SendAttachment, Max2, Absent, Bare
  <2> QED
    BY <1>1, <1>3, <2>1, <2>2 DEF SendAttachment, SyncTypeOK, Written, Books
<1>4. ASSUME NEW m \in History, StoreAttachment(m)
      PROVE  Books'
  <2>1. Written(m)
    BY <1>0, <1>4, CommitFacts DEF StoreAttachment, histories
  <2> QED
    BY <1>1, <1>4, <2>1 DEF StoreAttachment, SyncTypeOK, Written, Books
<1>5. ASSUME NEW m \in History, UploadFails(m)
      PROVE  Books'
  <2>1. Written(m)
    BY <1>0, <1>5, CommitFacts DEF UploadFails, Silent
  <2> QED
    BY <1>1, <1>5, <2>1 DEF UploadFails, SyncTypeOK, Written, Books
<1>6. ASSUME NEW m \in History, Edit(m)
      PROVE  Books'
  <2>1. Written(m) /\ m \notin Attachments
    BY <1>6, EditFacts
  <2> QED
    BY <1>1, <1>6, <2>1 DEF Edit, SyncTypeOK, Written, Books
<1>7. ASSUME NEW m \in History, Delete(m)
      PROVE  Books'
  <2>1. Written(m) /\ row'[m] = Max2(row[m], Gone)
    BY <1>0, <1>7, CommitFacts DEF Delete, histories
  <2>2. row'[m] = Gone
    BY <2>1, VersionsAreNumbers DEF Max2, SyncTypeOK
  <2> QED
    BY <1>1, <1>7, <2>1, <2>2 DEF Delete, SyncTypeOK, Written, Books
<1>8. ASSUME NEW m \in History, NEW version \in Versions,
             AnswerLost(m, version) \/ Publish(m, version)
      PROVE  Books'
  BY <1>8 DEF AnswerLost, Publish, table, devices, Books
<1>9. ASSUME NEW m \in History, NEW version \in Versions, NEW d \in Devices,
             Receive(d, m, version)
      PROVE  Books'
  BY <1>9 DEF Receive, table, Books
<1>10. ASSUME NEW d \in Devices, FetchPage(d)
       PROVE  Books'
  <2>1. cursor[d] \in History \cup {Absent}
    BY DEF SyncTypeOK
  <2>2. NextBeforeId(cursor[d]) \in Rows(cursor[d]) \cup {Absent}
    BY <2>1, PageIsComplete
  <2> QED
    BY <1>10, <2>2 DEF FetchPage, Rows, table, SyncTypeOK, Books
<1>11. ASSUME NEW s \in Sockets, Connect(s)
       PROVE  Books'
  BY <1>11 DEF Connect, table, Books
<1>12. ASSUME NEW S \in SUBSET Sockets, Drop(S),
              row' = row, uploading' \subseteq uploading
       PROVE  Books'
  BY <1>12 DEF Drop, Unregister, SyncTypeOK, Books
<1>13. CASE UNCHANGED syncVars
  BY <1>13 DEF syncVars, table, devices, Books
<1>14. ASSUME NEW s \in Sockets, Disconnect(s)
       PROVE  Books'
  BY <1>12, <1>14 DEF Disconnect, table
<1>15. CASE Crash
  BY <1>12, <1>15 DEF Crash
<1>16. ASSUME NEW m \in History, BeginChange(m)
       PROVE  Books'
  BY <1>16 DEF BeginChange, devices, Books
<1> QED
  BY <1>2, <1>3, <1>4, <1>5, <1>6, <1>7, <1>8, <1>9, <1>10, <1>11, <1>13, <1>14, <1>15,
     <1>16 DEF SyncNext

\* What a write leaves due: every other message, and m itself where its new version
\* is owed or nobody will be told.
LEMMA WrittenDue ==
  ASSUME SyncTypeOK, Books, PassedIsDue, NEW m \in History, Written(m),
         UNCHANGED devices,
         \A n \in History \ {m} :
           stamp'[n] = stamp[n] /\ (n \in uploading <=> n \in uploading'),
         row[m] # Absent => stamp'[m] = stamp[m],
         owed \subseteq owed',
         \A d \in Devices, n \in History \ {m} : untold[d][n] = untold'[d][n],
         \A d \in Devices \cap up : Passed(d, m)' => Due(d, m)'
  PROVE  PassedIsDue'
<1> SUFFICES ASSUME NEW d \in Devices \cap up, NEW n \in History \ {m}, Passed(d, n)'
             PROVE  Due(d, n)'
  BY DEF PassedIsDue, devices
<1>1. row'[n] = row[n]
  BY DEF Written
<1>2. cursor[d] # Absent => stamp'[cursor[d]] = stamp[cursor[d]]
  BY DEF Books, SyncTypeOK
<1>3. Passed(d, n)
  BY <1>2 DEF Passed, Before, devices
<1>4. Due(d, n)
  BY <1>3 DEF PassedIsDue
<1> QED
  BY <1>1, <1>4 DEF Due, Coming, Withheld, devices

LEMMA PassedIsDueStep ==
  ASSUME SyncTypeOK, EventsAreOld, Books, PassedIsDue, [SyncNext]_syncVars
  PROVE  PassedIsDue'
<1>0. {Absent, Bare, Full, Gone} \subseteq Versions /\ Bare # Absent /\ Full # Absent
      /\ Gone # Absent
  BY VersionsAreNumbers DEF Absent, Bare, Full
<1>a. \A m \in History : row[m] \in Versions /\ row[m] \in Nat /\ row[m] <= Gone
  BY VersionsAreNumbers DEF SyncTypeOK
<1>1. ASSUME NEW m \in History, Written(m), <<m, row'[m]>> \in owed'
      PROVE  \A d \in Devices : Due(d, m)'
  <2>1. row'[m] \in Versions /\ row'[m] \in row'[m] .. Gone
    BY <1>1, VersionsAreNumbers DEF Written
  <2> QED
    BY <1>1, <2>1 DEF Due, Coming
<1>2. ASSUME NEW m \in History, SendText(m)
      PROVE  PassedIsDue'
  <2>1. Written(m) /\ row'[m] = Max2(row[m], Bare)
    BY <1>0, <1>2, CommitFacts DEF SendText, histories
  <2>2. row'[m] = Bare
    BY <1>2, <2>1 DEF SendText, Max2, Absent, Bare
  <2>3. \A d \in Devices : Due(d, m)'
    BY <1>1, <1>2, <2>1, <2>2 DEF SendText, Tell
  <2> QED
    BY <1>2, <2>1, <2>3, WrittenDue DEF SendText, Tell, SyncTypeOK, histories
<1>3. ASSUME NEW m \in History, SendAttachment(m)
      PROVE  PassedIsDue'
  <2>1. Written(m) /\ row'[m] = Max2(row[m], Bare)
    BY <1>0, <1>3, CommitFacts DEF SendAttachment, histories
  <2>2. row'[m] = Bare
    BY <1>3, <2>1 DEF SendAttachment, Max2, Absent, Bare
  <2>3. \A d \in Devices : Due(d, m)'
    BY <1>3, <2>2 DEF SendAttachment, Due, Coming
  <2> QED
    BY <1>3, <2>1, <2>3, WrittenDue DEF SendAttachment, SyncTypeOK, histories
<1>4. ASSUME NEW m \in History, StoreAttachment(m)
      PROVE  PassedIsDue'
  <2>0. /\ Commit(m, Full) /\ owed' = owed \cup {<<m, Full>>}
        /\ \A n \in History \ {m} : n \in uploading <=> n \in uploading'
        /\ UNCHANGED <<stamp, devices, untold, overtaken>>
    BY <1>4 DEF StoreAttachment, Tell, histories
  <2>1. Written(m) /\ row'[m] = Max2(row[m], Full)
    BY <1>0, <2>0, CommitFacts
  <2>2. ASSUME NEW d \in Devices \cap up, Passed(d, m)'
        PROVE  Due(d, m)'
    <3>1. Passed(d, m)
      BY <2>0, <2>2 DEF Passed, Before, devices
    <3>2. Due(d, m)
      BY <3>1 DEF PassedIsDue
    <3>3. CASE row[m] = Bare
      <4>1. row'[m] = Full
        BY <2>1, <3>3 DEF Max2, Bare, Full
      <4> QED
        BY <1>1, <2>0, <2>1, <4>1
    <3>4. CASE row[m] = Gone
      <4>1. row'[m] = Gone
        BY <2>1, <3>4, VersionsAreNumbers DEF Max2
      <4> QED
        BY <2>0, <3>2, <3>4, <4>1, VersionsAreNumbers DEF Due, Coming, Withheld, devices
    <3> QED
      BY <1>4, <3>3, <3>4 DEF StoreAttachment, Books
  <2> QED
    BY <2>0, <2>1, <2>2, WrittenDue
<1>5. ASSUME NEW m \in History, UploadFails(m)
      PROVE  PassedIsDue'
  <2>1. /\ Written(m) /\ Silent(m, row'[m])
        /\ \A n \in History \ {m} : n \in uploading <=> n \in uploading'
        /\ UNCHANGED <<stamp, devices, owed>>
    BY <1>0, <1>5, CommitFacts DEF UploadFails, Silent
  <2>2. ASSUME NEW d \in Devices \cap up
        PROVE  Due(d, m)'
    <3>1. row'[m] \in Versions /\ untold[d][m] \in Versions
      BY <2>1 DEF Written, SyncTypeOK
    <3>2. untold'[d][m] = Max2(untold[d][m], row'[m])
      BY <2>1 DEF Silent, SyncTypeOK
    <3>3. untold'[d][m] >= row'[m]
      BY <3>1, <3>2, MaxFacts
    <3> QED
      BY <3>3 DEF Due, Withheld
  <2>3. \A d \in Devices, n \in History \ {m} : untold[d][n] = untold'[d][n]
    BY <2>1 DEF Silent, SyncTypeOK
  <2> QED
    BY <2>1, <2>2, <2>3, WrittenDue
<1>6. ASSUME NEW m \in History, Edit(m)
      PROVE  PassedIsDue'
  <2>1. Written(m) /\ owed' = owed \cup {<<m, row'[m]>>}
    BY <1>6, EditFacts
  <2>2. \A d \in Devices : Due(d, m)'
    BY <1>1, <2>1
  <2> QED
    BY <1>6, <2>1, <2>2, WrittenDue DEF Edit
<1>7. ASSUME NEW m \in History, Delete(m)
      PROVE  PassedIsDue'
  <2>1. Written(m) /\ row'[m] = Max2(row[m], Gone)
    BY <1>0, <1>7, CommitFacts DEF Delete, histories
  <2>2. row'[m] = Gone
    BY <2>1, VersionsAreNumbers DEF Max2, SyncTypeOK
  <2>3. \A d \in Devices : Due(d, m)'
    BY <1>1, <1>7, <2>1, <2>2 DEF Delete, Tell
  <2> QED
    BY <1>7, <2>1, <2>3, WrittenDue DEF Delete, Tell, histories
<1>8. ASSUME UNCHANGED <<row, stamp, up, cursor, walked>>,
             \A d \in Devices \cap up, n \in History : Due(d, n) => Due(d, n)'
      PROVE  PassedIsDue'
  BY <1>8 DEF PassedIsDue, Passed, Before
<1>9. ASSUME NEW m \in History, NEW version \in Versions, AnswerLost(m, version)
      PROVE  PassedIsDue'
  <2>1. ASSUME NEW d \in Devices \cap up, NEW n \in History, Due(d, n)
        PROVE  Due(d, n)'
    <3>1. UNCHANGED <<table, devices>> /\ owed' = owed \ {<<m, version>>}
      BY <1>9 DEF AnswerLost
    <3>2. /\ untold'[d][m] = Max2(untold[d][m], version)
          /\ n # m => untold'[d][n] = untold[d][n]
      BY <1>9 DEF AnswerLost, Silent, SyncTypeOK
    <3>3. /\ untold[d][m] \in Versions /\ row[m] \in Versions
          /\ untold'[d][m] \in Versions
          /\ untold'[d][m] >= untold[d][m] /\ untold'[d][m] >= version
      BY <3>2, MaxFacts DEF SyncTypeOK
    <3>4. CASE n = m /\ version >= row[m]
      <4>1. untold'[d][m] >= row[m]
        BY <3>3, <3>4, VersionsAreNumbers
      <4> QED
        BY <3>1, <3>4, <4>1 DEF Due, Withheld, table
    <3>5. CASE ~ (n = m /\ version >= row[m])
      <4>1. \A w \in row[n] .. Gone :
              <<n, w>> \in owed \cup inbox[d] => <<n, w>> \in owed' \cup inbox'[d]
        BY <1>a, <3>1, <3>5, VersionsAreNumbers DEF devices
      <4>2. untold[d][n] >= row[n] => untold'[d][n] >= row[n]
        BY <3>2, <3>3, VersionsAreNumbers
      <4> QED
        BY <2>1, <3>1, <4>1, <4>2 DEF Due, Coming, Withheld, table, devices
    <3> QED
      BY <3>4, <3>5
  <2> QED
    BY <1>8, <1>9, <2>1 DEF AnswerLost, table, devices
<1>10. ASSUME NEW m \in History, NEW version \in Versions, Publish(m, version)
       PROVE  PassedIsDue'
  <2>1. ASSUME NEW d \in Devices \cap up, NEW n \in History, Due(d, n)
        PROVE  Due(d, n)'
    <3>1. /\ UNCHANGED <<table, copy, untold>>
          /\ \A e : e \in owed \cup inbox[d] => e \in owed' \cup inbox'[d]
      BY <1>10 DEF Publish, Books, SyncTypeOK, histories
    <3> QED
      BY <2>1, <3>1 DEF Due, Coming, Withheld, table
  <2> QED
    BY <1>8, <1>10, <2>1 DEF Publish, table
<1>11. ASSUME NEW m \in History, BeginChange(m)
       PROVE  PassedIsDue'
  BY <1>8, <1>11 DEF BeginChange, Due, Coming, Withheld, devices, histories
<1>12. ASSUME NEW m \in History, NEW version \in Versions, NEW d \in Devices,
              Receive(d, m, version)
       PROVE  PassedIsDue'
  <2>1. ASSUME NEW e \in Devices, NEW n \in History, Due(e, n)
        PROVE  Due(e, n)'
    <3>1. UNCHANGED <<row, uploading, owed, untold>>
      BY <1>12 DEF Receive, table, histories
    <3>2. \A w : (e # d \/ n # m \/ w # version) /\ <<n, w>> \in inbox[e]
                 => <<n, w>> \in inbox'[e]
      BY <1>12 DEF Receive, SyncTypeOK
    <3>3. CASE e # d \/ n # m
      <4>1. copy'[e][n] = copy[e][n]
        BY <1>12, <3>3 DEF Receive, SyncTypeOK
      <4> QED
        BY <2>1, <3>1, <3>2, <3>3, <4>1 DEF Due, Coming, Withheld
    <3>4. CASE e = d /\ n = m
      <4>1. copy'[d][m] = Max2(copy[d][m], version) /\ copy[d][m] \in Versions
        BY <1>12 DEF Receive, SyncTypeOK
      <4>2. /\ copy'[d][m] >= copy[d][m] /\ copy'[d][m] >= version
            /\ copy'[d][m] \in Versions
        BY <4>1, MaxFacts
      <4>3. copy[d][m] >= row[m] \/ version >= row[m] => copy'[d][m] >= row[m]
        BY <1>a, <4>1, <4>2, VersionsAreNumbers
      <4>4. CASE copy[d][m] >= row[m] \/ version >= row[m]
        BY <3>1, <3>4, <4>3, <4>4 DEF Due
      <4>5. CASE ~ (copy[d][m] >= row[m] \/ version >= row[m])
        <5>1. \A w \in row[m] .. Gone : w # version
          BY <1>a, <4>5, VersionsAreNumbers
        <5> QED
          BY <2>1, <3>1, <3>2, <3>4, <4>5, <5>1 DEF Due, Coming, Withheld
      <4> QED
        BY <4>4, <4>5
    <3> QED
      BY <3>3, <3>4
  <2> QED
    BY <1>8, <1>12, <2>1 DEF Receive, table
<1>13. ASSUME NEW d \in Devices, FetchPage(d)
       PROVE  PassedIsDue'
  <2> DEFINE c == cursor[d]
  <2>1. UNCHANGED <<row, stamp, uploading, owed, registered, up, inbox, untold>>
    BY <1>13 DEF FetchPage, table, histories
  <2>2. SUFFICES ASSUME NEW e \in Devices \cap up, NEW n \in History, Passed(e, n)'
                 PROVE  Due(e, n)'
    BY <2>1 DEF PassedIsDue
  <2>3. CASE e # d
    <3>1. /\ copy'[e] = copy[e] /\ cursor'[e] = cursor[e]
          /\ e \in walked' => e \in walked
      BY <1>13, <2>3 DEF FetchPage, SyncTypeOK
    <3>2. Passed(e, n)
      BY <2>1, <2>2, <3>1 DEF Passed, Before
    <3>3. Due(e, n)
      BY <3>2 DEF PassedIsDue
    <3> QED
      BY <2>1, <3>1, <3>3 DEF Due, Coming, Withheld
  <2>4. CASE e = d
    <3>1. c \in History \cup {Absent} /\ d \notin walked
      BY <1>13 DEF SyncTypeOK, FetchPage
    <3>2. cursor'[d] = NextBeforeId(c) /\ (d \in walked' => NextBeforeId(c) = Absent)
      BY <1>13, <3>1 DEF FetchPage, SyncTypeOK
    <3>3. NextBeforeId(c) = Absent \/ ~ Before(n, NextBeforeId(c))
      BY <2>1, <2>2, <2>4, <3>2 DEF Passed, Before
    <3>4. copy'[d][n] = IF n \in Page(c) THEN Max2(copy[d][n], row[n]) ELSE copy[d][n]
      BY <1>13 DEF FetchPage, SyncTypeOK
    <3>5. copy[d][n] \in Versions /\ row[n] \in Versions
      BY DEF SyncTypeOK
    <3>6. CASE n \in Page(c)
      <4>1. copy'[d][n] >= row[n]
        BY <3>4, <3>5, <3>6, MaxFacts
      <4> QED
        BY <2>1, <2>4, <4>1 DEF Due
    <3>7. CASE n \notin Rows(c)
      <4>1. n \notin Page(c)
        BY <3>1, <3>7, PageIsComplete
      <4>2. CASE row[n] = Absent
        <5>1. copy'[d][n] >= row[n]
          BY <3>4, <3>5, <4>1, <4>2, VersionsAreNumbers DEF Absent
        <5> QED
          BY <2>1, <2>4, <5>1 DEF Due
      <4>3. CASE c # Absent /\ ~ Before(n, c)
        <5>1. Due(d, n)
          BY <2>4, <4>3 DEF PassedIsDue, Passed
        <5> QED
          BY <2>1, <2>4, <3>4, <4>1, <5>1 DEF Due, Coming, Withheld
      <4> QED
        BY <3>7, <4>2, <4>3 DEF Rows
    <3> QED
      BY <3>1, <3>3, <3>6, <3>7, PageIsComplete
  <2> QED
    BY <2>3, <2>4
<1>14. ASSUME NEW s \in Sockets, Connect(s)
       PROVE  PassedIsDue'
  <2>1. /\ UNCHANGED <<table, owed, inbox, copy, cursor, walked, histories>>
        /\ up' = up \cup {s}
    BY <1>14 DEF Connect
  <2>2. \A d \in Devices, n \in History : Passed(d, n)' => Passed(d, n) /\ d \in up
    BY <2>1 DEF Passed, Books, Before, table
  <2> QED
    BY <2>1, <2>2 DEF PassedIsDue, Due, Coming, Withheld, table, histories
<1>15. ASSUME NEW s \in Sockets, Disconnect(s)
       PROVE  PassedIsDue'
  <2>1. /\ UNCHANGED <<row, stamp, uploading, owed>> /\ up' = up \ {s}
        /\ \A d \in Devices \ {s} :
             /\ inbox'[d] = inbox[d] /\ copy'[d] = copy[d] /\ cursor'[d] = cursor[d]
             /\ untold'[d] = untold[d] /\ (d \in walked' => d \in walked)
    BY <1>15 DEF Disconnect, Drop, table
  <2> QED
    BY <2>1 DEF PassedIsDue, Passed, Due, Coming, Withheld, Before
<1>16. CASE Crash
  BY <1>16 DEF Crash, Drop, PassedIsDue, SyncTypeOK
<1>17. CASE UNCHANGED syncVars
  BY <1>8, <1>17 DEF syncVars, table, devices, histories, Due, Coming, Withheld
<1> QED
  BY <1>2, <1>3, <1>4, <1>5, <1>6, <1>7, <1>9, <1>10, <1>11, <1>12, <1>13, <1>14,
     <1>15, <1>16, <1>17 DEF SyncNext

\* A device that is connected and has walked the history since it connected shows
\* every message as it is, whatever happened while it was away and while it walked,
\* unless an event is still coming, or the handler failed after its statement and no
\* change was told since; of edits that overtook each other it may show the one with
\* the later clock (chat.service.ts:279-305, 385-436, 962-971).
THEOREM RecoveryIsComplete == SyncSpec => []RecoveryComplete
<1>1. SyncInit => SyncIInv
  <2> SUFFICES ASSUME SyncInit PROVE SyncIInv
    OBVIOUS
  <2>1. Nothing \in [History -> Versions] /\ \A m \in History : Nothing[m] = Absent
    BY VersionsAreNumbers DEF Nothing
  <2>2. SyncTypeOK
    BY <2>1, VersionsAreNumbers, SyncAssumption DEF SyncInit, SyncTypeOK, Absent
  <2> QED
    BY <2>1, <2>2
       DEF SyncInit, SyncIInv, EventsAreOld, Books, PassedIsDue, Absent
<1>2. SyncIInv /\ [SyncNext]_syncVars => SyncIInv'
  BY SyncTypeStep, BooksStep, PassedIsDueStep DEF SyncIInv
<1>3. SyncIInv => RecoveryComplete
  <2> SUFFICES ASSUME SyncIInv, NEW d \in Devices \cap up \cap walked, NEW m \in History,
                      ~ Coming(d, m), ~ Withheld(d, m)
               PROVE  Shown(d, m)
    BY DEF SyncIInv, RecoveryComplete
  <2>1. copy[d][m] >= row[m]
    BY DEF SyncIInv, PassedIsDue, Passed, Due
  <2>2. m \notin overtaken => copy[d][m] <= row[m]
    BY DEF SyncIInv, EventsAreOld
  <2>3. copy[d][m] \in Nat /\ row[m] \in Nat
    BY VersionsAreNumbers DEF SyncIInv, SyncTypeOK
  <2> QED
    BY <2>1, <2>2, <2>3 DEF Shown
<1> QED
  BY <1>1, <1>2, <1>3, PTL DEF SyncSpec
=============================================================================
