------------------------- MODULE FindLoveChatProofs -------------------------
(***************************************************************************)
(* Proofs about FindLoveChat, for any people, requests, client message ids *)
(* and number of messages: its types, the quota of a pending request,      *)
(* idempotent sends, the finality of the decision, and the silence once    *)
(* the conversation is over.                                               *)
(***************************************************************************)
EXTENDS FindLoveChat, FiniteSetTheorems, TLAPS

\* What a request in flight is about: its person, its decision, the message that
\* it edits, deletes or uploads for.
Shape ==
  \A r \in Requests :
    /\ req[r].pc # "idle" => req[r].who # None
    /\ req[r].pc = "deciding" => req[r].op \in Decisions
    /\ req[r].op = "attach" => req[r].key = None
    /\ req[r].pc = "facts" /\ req[r].op \in {"edit", "delete"} =>
         req[r].msg \in DOMAIN msgs /\ msgs[req[r].msg].sender = req[r].who
    /\ req[r].pc = "uploading" =>
         req[r].msg \in DOMAIN msgs /\ ~ msgs[req[r].msg].text

\* What facts that did not deny a request still say of the conversation.  Who may
\* edit or delete before the acceptance has lost the message already.
LearntBy(r) ==
  /\ req[r].facts.status \in {None, "PENDING", "ACCEPTED"}
  /\ req[r].facts.status = "ACCEPTED" => status = "ACCEPTED"
  /\ req[r].facts.sent # None => req[r].facts.status # None
  /\ req[r].pc \in {"locking", "counting", "inserting"} =>
       req[r].facts.status # None
  /\ /\ status # "ACCEPTED"
     /\ req[r].pc = "facts" /\ req[r].facts.sent # None
     /\ req[r].op \in {"edit", "delete"}
     => msgs[req[r].msg].deleted

Learnt == \A r \in Requests : LearntBy(r)

\* The lock of the connection's row, and what its holder knows.
Locked ==
  \A r \in Requests :
    /\ req[r].pc = "counting" => lock = r
    /\ req[r].pc = "inserting" /\ req[r].facts.status = "PENDING" => lock = r
    /\ req[r].pc = "inserting" /\ status # "ACCEPTED" => SentBy(req[r].who) = {}

\* PendingQuota without cardinalities.
OneEach ==
  status # "ACCEPTED" =>
    \A m, n \in DOMAIN msgs : msgs[m].sender = msgs[n].sender => m = n

\* The policy's count lets nobody edit or delete before the acceptance, whatever
\* docs/api-reference.md:83-84 says (see SendersMayEdit); only the message of an
\* upload that failed goes.  This is why LearntBy is stable.
OpeningIsFinal ==
  status # "ACCEPTED" =>
    \A m \in DOMAIN msgs :
      ~ msgs[m].edited /\ (msgs[m].text => ~ msgs[m].deleted)

Written == KeysUnique /\ OpeningIsFinal /\ OneEach

IInv == TypeOK /\ Shape /\ Learnt /\ Locked /\ Written

USE ConstantsAssumption

-----------------------------------------------------------------------------
(* What the three ways to change a request do to its fields.               *)

LEMMA GoChanges ==
  ASSUME TypeOK, NEW r \in Requests, NEW pc \in PCs, Go(r, pc)
  PROVE  /\ req' \in [Requests -> InFlight]
         /\ \A q \in Requests \ {r} : req'[q] = req[q]
         /\ req'[r].pc = pc
         /\ req'[r].op = req[r].op /\ req'[r].who = req[r].who
         /\ req'[r].key = req[r].key /\ req'[r].msg = req[r].msg
         /\ req'[r].gone = req[r].gone /\ req'[r].facts = req[r].facts
<1>1. req[r] \in InFlight
  BY DEF TypeOK
<1>2. /\ [req[r] EXCEPT !.pc = pc] \in InFlight
      /\ [req[r] EXCEPT !.pc = pc].pc = pc
      /\ [req[r] EXCEPT !.pc = pc].op = req[r].op
      /\ [req[r] EXCEPT !.pc = pc].who = req[r].who
      /\ [req[r] EXCEPT !.pc = pc].key = req[r].key
      /\ [req[r] EXCEPT !.pc = pc].msg = req[r].msg
      /\ [req[r] EXCEPT !.pc = pc].gone = req[r].gone
      /\ [req[r] EXCEPT !.pc = pc].facts = req[r].facts
  BY <1>1 DEF InFlight
<1>3. /\ req' = [req EXCEPT ![r] = [req[r] EXCEPT !.pc = pc]]
      /\ req \in [Requests -> InFlight]
  BY DEF Go, TypeOK
<1>4. QED BY <1>2, <1>3

LEMMA AnswerChanges ==
  ASSUME TypeOK, NEW r \in Requests, Answer(r)
  PROVE  /\ req' \in [Requests -> InFlight]
         /\ \A q \in Requests \ {r} : req'[q] = req[q]
         /\ req'[r] = Idle
<1>1. Idle \in InFlight
  BY DEF Idle, NoFacts, InFlight, Facts, PCs
<1>2. QED BY <1>1 DEF Answer, TypeOK

LEMMA LearnChanges ==
  ASSUME TypeOK, NEW r \in Requests, NEW f \in Facts,
         req' = [req EXCEPT ![r].facts = f]
  PROVE  /\ req' \in [Requests -> InFlight]
         /\ \A q \in Requests \ {r} : req'[q] = req[q]
         /\ req'[r].facts = f
         /\ req'[r].op = req[r].op /\ req'[r].who = req[r].who
         /\ req'[r].key = req[r].key /\ req'[r].msg = req[r].msg
         /\ req'[r].gone = req[r].gone /\ req'[r].pc = req[r].pc
<1>1. req[r] \in InFlight
  BY DEF TypeOK
<1>2. /\ [req[r] EXCEPT !.facts = f] \in InFlight
      /\ [req[r] EXCEPT !.facts = f].facts = f
      /\ [req[r] EXCEPT !.facts = f].op = req[r].op
      /\ [req[r] EXCEPT !.facts = f].who = req[r].who
      /\ [req[r] EXCEPT !.facts = f].key = req[r].key
      /\ [req[r] EXCEPT !.facts = f].msg = req[r].msg
      /\ [req[r] EXCEPT !.facts = f].gone = req[r].gone
      /\ [req[r] EXCEPT !.facts = f].pc = req[r].pc
  BY <1>1 DEF InFlight
<1>3. /\ req' = [req EXCEPT ![r] = [req[r] EXCEPT !.facts = f]]
      /\ req \in [Requests -> InFlight]
  BY DEF TypeOK
<1>4. QED BY <1>2, <1>3

LEMMA BeginChanges ==
  ASSUME TypeOK, NEW r \in Requests, NEW pc \in PCs, NEW p \in Parties,
         NEW op \in Decisions \cup {"start", "attach"}, Begin(r, pc, op, p)
  PROVE  /\ req' \in [Requests -> InFlight]
         /\ \A q \in Requests \ {r} : req'[q] = req[q]
         /\ req'[r].pc = pc /\ req'[r].op = op /\ req'[r].who = p
         /\ req'[r].key = None /\ req'[r].msg = None /\ req'[r].facts = NoFacts
<1> DEFINE new == [Idle EXCEPT !.pc = pc, !.op = op, !.who = p]
<1>1. /\ new \in InFlight
      /\ new.pc = pc /\ new.op = op /\ new.who = p
      /\ new.key = None /\ new.msg = None /\ new.facts = NoFacts
  BY DEF Idle, NoFacts, InFlight, Facts
<1>2. req' = [req EXCEPT ![r] = new] /\ req \in [Requests -> InFlight]
  BY DEF Begin, TypeOK
<1>3. QED BY <1>1, <1>2

-----------------------------------------------------------------------------
LEMMA InitIInv == Init => IInv
<1> SUFFICES ASSUME Init PROVE IInv
  OBVIOUS
<1> USE DEF Init, Idle, NoFacts
<1>1. TypeOK
  <2>1. Idle \in InFlight
    BY DEF InFlight, Facts, PCs
  <2>2. msgs \in Seq(Message) /\ Len(msgs) <= MaxMessages
    OBVIOUS
  <2>3. QED BY <2>1, <2>2 DEF TypeOK
<1>2. Shape /\ Learnt /\ Locked
  BY DEF Shape, Learnt, LearntBy, Locked
<1>3. Written
  BY DEF Written, KeysUnique, OpeningIsFinal, OneEach
<1>4. QED BY <1>1, <1>2, <1>3 DEF IInv

LEMMA StartConversationStep ==
  ASSUME IInv, NEW r \in Requests, NEW p \in Parties,
         StartConversation(r, p)
  PROVE  IInv'
<1> USE DEF IInv, StartConversation
<1>1. /\ req' \in [Requests -> InFlight]
      /\ \A q \in Requests \ {r} : req'[q] = req[q]
      /\ req'[r].pc = "starting" /\ req'[r].op = "start" /\ req'[r].who = p
      /\ req'[r].key = None /\ req'[r].msg = None /\ req'[r].facts = NoFacts
  BY BeginChanges DEF PCs
<1>2. TypeOK'
  BY <1>1 DEF TypeOK, Decisions, Statuses
<1>3. Shape'
  BY <1>1 DEF TypeOK, Shape, Idle
<1>4. Learnt'
  BY <1>1 DEF TypeOK, Shape, Learnt, LearntBy, Idle, NoFacts, Decisions, Statuses
<1>5. Locked'
  BY <1>1 DEF TypeOK, Learnt, LearntBy, Locked, SentBy, Idle
<1>6. Written'
  BY <1>1 DEF TypeOK, Written, KeysUnique, OpeningIsFinal, OneEach, Decisions, Statuses
<1>7. QED BY <1>2, <1>3, <1>4, <1>5, <1>6

LEMMA CheckStartStep ==
  ASSUME IInv, NEW r \in Requests,
         CheckStart(r)
  PROVE  IInv'
<1> USE DEF IInv, CheckStart
<1>1. /\ req' \in [Requests -> InFlight]
      /\ \A q \in Requests \ {r} : req'[q] = req[q]
      /\ \/ req'[r] = Idle
         \/ /\ req'[r].pc = "creating"
            /\ req'[r].op = req[r].op
            /\ req'[r].who = req[r].who
            /\ req'[r].key = req[r].key
            /\ req'[r].msg = req[r].msg
            /\ req'[r].facts = req[r].facts
  BY GoChanges, AnswerChanges DEF PCs
<1>2. TypeOK'
  BY <1>1 DEF TypeOK, Decisions, Statuses
<1>3. Shape'
  BY <1>1 DEF TypeOK, Shape, Idle
<1>4. Learnt'
  BY <1>1 DEF TypeOK, Shape, Learnt, LearntBy, Idle, NoFacts, Decisions, Statuses
<1>5. Locked'
  BY <1>1 DEF TypeOK, Learnt, LearntBy, Locked, SentBy, Idle
<1>6. Written'
  BY <1>1 DEF TypeOK, Written, KeysUnique, OpeningIsFinal, OneEach, Decisions, Statuses
<1>7. QED BY <1>2, <1>3, <1>4, <1>5, <1>6

LEMMA CreateConversationStep ==
  ASSUME IInv, NEW r \in Requests,
         CreateConversation(r)
  PROVE  IInv'
<1> USE DEF IInv, CreateConversation
<1>1. /\ req' \in [Requests -> InFlight]
      /\ \A q \in Requests \ {r} : req'[q] = req[q]
      /\ req'[r] = Idle
  BY AnswerChanges
<1>2. TypeOK'
  BY <1>1 DEF TypeOK, Shape, InFlight, Decisions, Statuses
<1>3. Shape'
  BY <1>1 DEF TypeOK, Shape, Idle
<1>4. Learnt'
  BY <1>1 DEF TypeOK, Shape, Learnt, LearntBy, Idle, NoFacts, Decisions, Statuses
<1>5. Locked'
  BY <1>1 DEF TypeOK, Learnt, LearntBy, Locked, SentBy, Idle
<1>6. Written'
  BY <1>1 DEF TypeOK, Written, KeysUnique, OpeningIsFinal, OneEach, Decisions, Statuses
<1>7. QED BY <1>2, <1>3, <1>4, <1>5, <1>6

LEMMA ReadConnectionStep ==
  ASSUME IInv, NEW r \in Requests, NEW p \in Parties, NEW d \in Decisions,
         ReadConnection(r, p, d)
  PROVE  IInv'
<1> USE DEF IInv, ReadConnection
<1>1. /\ req' \in [Requests -> InFlight]
      /\ \A q \in Requests \ {r} : req'[q] = req[q]
      /\ req'[r].pc = "deciding" /\ req'[r].op = d /\ req'[r].who = p
      /\ req'[r].key = None /\ req'[r].msg = None /\ req'[r].facts = NoFacts
  BY BeginChanges DEF PCs
<1>2. TypeOK'
  BY <1>1 DEF TypeOK, Decisions, Statuses
<1>3. Shape'
  BY <1>1 DEF TypeOK, Shape, Idle
<1>4. Learnt'
  BY <1>1 DEF TypeOK, Shape, Learnt, LearntBy, Idle, NoFacts, Decisions, Statuses
<1>5. Locked'
  BY <1>1 DEF TypeOK, Learnt, LearntBy, Locked, SentBy, Idle
<1>6. Written'
  BY <1>1 DEF TypeOK, Written, KeysUnique, OpeningIsFinal, OneEach, Decisions, Statuses
<1>7. QED BY <1>2, <1>3, <1>4, <1>5, <1>6

LEMMA DecideStep ==
  ASSUME IInv, NEW r \in Requests,
         Decide(r)
  PROVE  IInv'
<1> USE DEF IInv, Decide
<1>1. /\ req' \in [Requests -> InFlight]
      /\ \A q \in Requests \ {r} : req'[q] = req[q]
      /\ req'[r] = Idle
  BY AnswerChanges
<1>2. TypeOK'
  BY <1>1 DEF TypeOK, Shape, InFlight, Decisions, Statuses
<1>3. Shape'
  BY <1>1 DEF TypeOK, Shape, Idle
<1>4. Learnt'
  BY <1>1 DEF TypeOK, Shape, Learnt, LearntBy, Idle, NoFacts, Decisions, Statuses
<1>5. Locked'
  BY <1>1 DEF TypeOK, Learnt, LearntBy, Locked, SentBy, Idle
<1>6. Written'
  BY <1>1 DEF TypeOK, Written, KeysUnique, OpeningIsFinal, OneEach, Decisions, Statuses
<1>7. QED BY <1>2, <1>3, <1>4, <1>5, <1>6

LEMMA BlockStep ==
  ASSUME IInv,
         Block
  PROVE  IInv'
<1> USE DEF IInv, Block
<1>1. req' = req
  OBVIOUS
<1>2. TypeOK'
  BY <1>1 DEF TypeOK, Decisions, Statuses
<1>3. Shape'
  BY <1>1 DEF TypeOK, Shape, Idle
<1>4. Learnt'
  BY <1>1 DEF TypeOK, Shape, Learnt, LearntBy, Idle, NoFacts, Decisions, Statuses
<1>5. Locked'
  BY <1>1 DEF TypeOK, Learnt, LearntBy, Locked, SentBy, Idle
<1>6. Written'
  BY <1>1 DEF TypeOK, Written, KeysUnique, OpeningIsFinal, OneEach, Decisions, Statuses
<1>7. QED BY <1>2, <1>3, <1>4, <1>5, <1>6

LEMMA AttachStep ==
  ASSUME IInv, NEW r \in Requests, NEW p \in Parties,
         Attach(r, p)
  PROVE  IInv'
<1> USE DEF IInv, Attach
<1>1. /\ req' \in [Requests -> InFlight]
      /\ \A q \in Requests \ {r} : req'[q] = req[q]
      /\ req'[r].pc = "facts" /\ req'[r].op = "attach" /\ req'[r].who = p
      /\ req'[r].key = None /\ req'[r].msg = None /\ req'[r].facts = NoFacts
  BY BeginChanges DEF PCs
<1>2. TypeOK'
  BY <1>1 DEF TypeOK, Decisions, Statuses
<1>3. Shape'
  BY <1>1 DEF TypeOK, Shape, Idle
<1>4. Learnt'
  BY <1>1 DEF TypeOK, Shape, Learnt, LearntBy, Idle, NoFacts, Decisions, Statuses
<1>5. Locked'
  BY <1>1 DEF TypeOK, Learnt, LearntBy, Locked, SentBy, Idle
<1>6. Written'
  BY <1>1 DEF TypeOK, Written, KeysUnique, OpeningIsFinal, OneEach, Decisions, Statuses
<1>7. QED BY <1>2, <1>3, <1>4, <1>5, <1>6

LEMMA LockConnectionStep ==
  ASSUME IInv, NEW r \in Requests,
         LockConnection(r)
  PROVE  IInv'
<1> USE DEF IInv, LockConnection
<1>1. /\ req' \in [Requests -> InFlight]
      /\ \A q \in Requests \ {r} : req'[q] = req[q]
      /\ req'[r].pc = "counting"
      /\ req'[r].op = req[r].op
      /\ req'[r].who = req[r].who
      /\ req'[r].key = req[r].key
      /\ req'[r].msg = req[r].msg
      /\ req'[r].facts = req[r].facts
  BY GoChanges DEF PCs
<1>2. TypeOK'
  BY <1>1 DEF TypeOK, Decisions, Statuses
<1>3. Shape'
  BY <1>1 DEF TypeOK, Shape, Idle
<1>4. Learnt'
  BY <1>1 DEF TypeOK, Shape, Learnt, LearntBy, Idle, NoFacts, Decisions, Statuses
<1>5. Locked'
  BY <1>1 DEF TypeOK, Learnt, LearntBy, Locked, SentBy, Idle
<1>6. Written'
  BY <1>1 DEF TypeOK, Written, KeysUnique, OpeningIsFinal, OneEach, Decisions, Statuses
<1>7. QED BY <1>2, <1>3, <1>4, <1>5, <1>6

LEMMA RequestDiesStep ==
  ASSUME IInv, NEW r \in Requests,
         RequestDies(r)
  PROVE  IInv'
<1> USE DEF IInv, RequestDies, Unlock
<1>1. /\ req' \in [Requests -> InFlight]
      /\ \A q \in Requests \ {r} : req'[q] = req[q]
      /\ req'[r] = Idle
  BY AnswerChanges
<1>2. TypeOK'
  BY <1>1 DEF TypeOK, Decisions, Statuses
<1>3. Shape'
  BY <1>1 DEF TypeOK, Shape, Idle
<1>4. Learnt'
  BY <1>1 DEF TypeOK, Shape, Learnt, LearntBy, Idle, NoFacts, Decisions, Statuses
<1>5. Locked'
  BY <1>1 DEF TypeOK, Learnt, LearntBy, Locked, SentBy, Idle
<1>6. Written'
  BY <1>1 DEF TypeOK, Written, KeysUnique, OpeningIsFinal, OneEach, Decisions, Statuses
<1>7. QED BY <1>2, <1>3, <1>4, <1>5, <1>6

LEMMA SendStep ==
  ASSUME IInv, NEW r \in Requests, NEW p \in Parties, NEW k \in Keys,
         Send(r, p, k)
  PROVE  IInv'
<1> USE DEF IInv, Send
<1> DEFINE new == [Idle EXCEPT !.pc = "facts", !.op = "send", !.who = p, !.key = k]
<1>0. /\ new \in InFlight
      /\ new.pc = "facts" /\ new.op = "send" /\ new.who = p
      /\ new.key = k /\ new.msg = None /\ new.facts = NoFacts
  BY DEF Idle, NoFacts, InFlight, Facts, PCs
<1>1. /\ req' \in [Requests -> InFlight]
      /\ \A q \in Requests \ {r} : req'[q] = req[q]
      /\ req'[r].pc = "facts" /\ req'[r].op = "send" /\ req'[r].who = p
      /\ req'[r].facts = NoFacts
  <2>1. req' = [req EXCEPT ![r] = new] /\ req \in [Requests -> InFlight]
    BY DEF TypeOK
  <2>2. QED BY <1>0, <2>1
<1>2. TypeOK'
  BY <1>1 DEF TypeOK
<1>3. Shape'
  BY <1>1 DEF TypeOK, Shape
<1>4. Learnt'
  BY <1>1 DEF TypeOK, Shape, Learnt, LearntBy, NoFacts
<1>5. Locked'
  BY <1>1 DEF TypeOK, Learnt, LearntBy, Locked, SentBy
<1>6. Written'
  BY <1>1 DEF TypeOK, Written, KeysUnique, OpeningIsFinal, OneEach
<1>7. QED BY <1>2, <1>3, <1>4, <1>5, <1>6

LEMMA EditOrDeleteStep ==
  ASSUME IInv, NEW r \in Requests, NEW op \in {"edit", "delete"},
         NEW m \in 1..MaxMessages, EditOrDelete(r, op, m)
  PROVE  IInv'
<1> USE DEF IInv, EditOrDelete
<1> DEFINE new == [Idle EXCEPT !.pc = "facts", !.op = op, !.who = msgs[m].sender,
                               !.msg = m, !.gone = msgs[m].deleted]
<1>a. msgs[m] \in Message /\ m \in DOMAIN msgs
  BY DEF TypeOK
<1>b. msgs[m].sender \in Parties /\ msgs[m].deleted \in BOOLEAN
  BY <1>a DEF Message
<1>0. /\ new \in InFlight
      /\ new.pc = "facts" /\ new.op = op /\ new.who = msgs[m].sender
      /\ new.key = None /\ new.msg = m /\ new.facts = NoFacts
  BY <1>b DEF Idle, NoFacts, InFlight, Facts, PCs
<1>1. /\ req' \in [Requests -> InFlight]
      /\ \A q \in Requests \ {r} : req'[q] = req[q]
      /\ req'[r].pc = "facts" /\ req'[r].op = op
      /\ req'[r].who = msgs[m].sender /\ req'[r].who # None
      /\ req'[r].msg = m /\ m \in DOMAIN msgs
      /\ req'[r].facts = NoFacts
  <2>1. req' = [req EXCEPT ![r] = new] /\ req \in [Requests -> InFlight]
    BY DEF TypeOK
  <2>2. QED BY <1>0, <1>a, <1>b, <2>1
<1>2. TypeOK'
  BY <1>1 DEF TypeOK
<1>3. Shape'
  BY <1>1 DEF TypeOK, Shape
<1>4. Learnt'
  BY <1>1 DEF TypeOK, Shape, Learnt, LearntBy, NoFacts
<1>5. Locked'
  BY <1>1 DEF TypeOK, Learnt, LearntBy, Locked, SentBy
<1>6. Written'
  BY <1>1 DEF TypeOK, Written, KeysUnique, OpeningIsFinal, OneEach
<1>7. QED BY <1>2, <1>3, <1>4, <1>5, <1>6

LEMMA ReadBlockedStep ==
  ASSUME IInv, NEW r \in Requests, ReadBlocked(r)
  PROVE  IInv'
<1> USE DEF IInv, ReadBlocked, Learn
<1> DEFINE f == [req[r].facts EXCEPT !.blocked = blocked]
<1>0. /\ f \in Facts
      /\ f.status = req[r].facts.status /\ f.sent = req[r].facts.sent
  BY DEF TypeOK, InFlight, Facts
<1>1. /\ req' \in [Requests -> InFlight]
      /\ \A q \in Requests \ {r} : req'[q] = req[q]
      /\ \/ req'[r] = Idle
         \/ /\ ~ Denies(f)
            /\ req'[r].facts = f
            /\ req'[r].pc = req[r].pc /\ req'[r].op = req[r].op
            /\ req'[r].who = req[r].who /\ req'[r].key = req[r].key
            /\ req'[r].msg = req[r].msg
  BY <1>0, LearnChanges, AnswerChanges
<1>2. TypeOK'
  BY <1>1 DEF TypeOK
<1>3. Shape'
  BY <1>1 DEF TypeOK, Shape, Idle
<1>4. Learnt'
  <2>1. ASSUME NEW q \in Requests \ {r} PROVE LearntBy(q)'
    BY <1>1, <2>1 DEF Learnt, LearntBy
  <2>2. LearntBy(r)'
    <3>1. CASE req'[r] = Idle
      BY <3>1 DEF LearntBy, Idle, NoFacts
    <3>2. CASE req'[r] # Idle
      BY <1>0, <1>1, <3>2 DEF TypeOK, Learnt, LearntBy
    <3>3. QED BY <3>1, <3>2
  <2>3. QED BY <2>1, <2>2 DEF Learnt
<1>5. Locked'
  BY <1>1 DEF TypeOK, Locked, SentBy, Idle
<1>6. Written'
  BY <1>1 DEF TypeOK, Written, KeysUnique, OpeningIsFinal, OneEach
<1>7. QED BY <1>2, <1>3, <1>4, <1>5, <1>6

LEMMA ReadStatusStep ==
  ASSUME IInv, NEW r \in Requests, ReadStatus(r)
  PROVE  IInv'
<1> USE DEF IInv, ReadStatus, Learn
<1> DEFINE f == [req[r].facts EXCEPT !.status = status]
<1>0. /\ f \in Facts
      /\ f.status = status /\ f.sent = req[r].facts.sent
  <2>1. req[r].facts \in Facts /\ status \in Statuses \cup {None}
    BY DEF TypeOK, InFlight
  <2>2. QED BY <2>1 DEF Facts
<1>1. /\ req' \in [Requests -> InFlight]
      /\ \A q \in Requests \ {r} : req'[q] = req[q]
      /\ \/ req'[r] = Idle
         \/ /\ ~ Denies(f)
            /\ req'[r].facts = f
            /\ req'[r].pc = req[r].pc /\ req'[r].op = req[r].op
            /\ req'[r].who = req[r].who /\ req'[r].key = req[r].key
            /\ req'[r].msg = req[r].msg
  BY <1>0, LearnChanges, AnswerChanges
<1>2. TypeOK'
  BY <1>1 DEF TypeOK
<1>3. Shape'
  BY <1>1 DEF TypeOK, Shape, Idle
<1>4. Learnt'
  <2>1. ASSUME NEW q \in Requests \ {r} PROVE LearntBy(q)'
    BY <1>1, <2>1 DEF Learnt, LearntBy
  <2>2. LearntBy(r)'
    <3>1. CASE req'[r] = Idle
      BY <3>1 DEF LearntBy, Idle, NoFacts
    <3>2. CASE req'[r] # Idle
      BY <1>0, <1>1, <3>2 DEF TypeOK, Learnt, LearntBy, Denies, Statuses, Decisions
    <3>3. QED BY <3>1, <3>2
  <2>3. QED BY <2>1, <2>2 DEF Learnt
<1>5. Locked'
  BY <1>1 DEF TypeOK, Locked, SentBy, Idle
<1>6. Written'
  BY <1>1 DEF TypeOK, Written, KeysUnique, OpeningIsFinal, OneEach
<1>7. QED BY <1>2, <1>3, <1>4, <1>5, <1>6

\* What the senders of messages are, counted.
LEMMA Counting ==
  ASSUME TypeOK, NEW p
  PROVE  /\ IsFiniteSet(SentBy(p)) /\ IsFiniteSet(Kept(p))
         /\ Cardinality(SentBy(p)) \in Nat /\ Cardinality(Kept(p)) \in Nat
         /\ Cardinality(SentBy(p)) = 0 => SentBy(p) = {}
         /\ Cardinality(Kept(p)) = 0 => Kept(p) = {}
<1>1. SentBy(p) \subseteq 1..Len(msgs) /\ Kept(p) \subseteq SentBy(p)
  BY DEF TypeOK, SentBy, Kept
<1>2. IsFiniteSet(1..Len(msgs))
  <2>1. Len(msgs) \in Int /\ 1 \in Int
    BY DEF TypeOK
  <2>2. QED BY <2>1, FS_Interval
<1>3. QED BY <1>1, <1>2, FS_Subset, FS_CardinalityType, FS_EmptySet

LEMMA ReadSentStep ==
  ASSUME IInv, NEW r \in Requests, ReadSent(r)
  PROVE  IInv'
<1> USE DEF IInv, ReadSent, Learn
<1> DEFINE f == [req[r].facts EXCEPT !.sent = Cardinality(Kept(req[r].who))]
<1>0. /\ f \in Facts
      /\ f.status = req[r].facts.status
      /\ f.sent = Cardinality(Kept(req[r].who)) /\ f.sent \in Nat
  BY Counting DEF TypeOK, InFlight, Facts
<1>1. /\ req' \in [Requests -> InFlight]
      /\ \A q \in Requests \ {r} : req'[q] = req[q]
      /\ \/ req'[r] = Idle
         \/ /\ ~ Denies(f)
            /\ req'[r].facts = f
            /\ req'[r].pc = req[r].pc /\ req'[r].op = req[r].op
            /\ req'[r].who = req[r].who /\ req'[r].key = req[r].key
            /\ req'[r].msg = req[r].msg
  BY <1>0, LearnChanges, AnswerChanges
<1>2. TypeOK'
  BY <1>1 DEF TypeOK
<1>3. Shape'
  BY <1>1 DEF TypeOK, Shape, Idle
<1>4. Learnt'
  <2>1. ASSUME status # "ACCEPTED", req'[r].facts = f, ~ Denies(f),
               req[r].pc = "facts", req[r].op \in {"edit", "delete"}
        PROVE  msgs[req[r].msg].deleted
    <3>1. f.status = "PENDING"
      BY <1>0, <2>1 DEF Learnt, LearntBy
    <3>2. f.sent = 0
      BY <1>0, <2>1, <3>1 DEF Denies, LIMIT
    <3>3. Kept(req[r].who) = {}
      BY <1>0, <3>2, Counting
    <3>4. QED BY <2>1, <3>3 DEF Shape, Kept, SentBy
  <2>2. ASSUME NEW q \in Requests \ {r} PROVE LearntBy(q)'
    BY <1>1, <2>2 DEF Learnt, LearntBy
  <2>3. LearntBy(r)'
    <3>1. CASE req'[r] = Idle
      BY <3>1 DEF LearntBy, Idle, NoFacts
    <3>2. CASE req'[r] # Idle
      BY <1>0, <1>1, <2>1, <3>2 DEF TypeOK, Learnt, LearntBy
    <3>3. QED BY <3>1, <3>2
  <2>4. QED BY <2>2, <2>3 DEF Learnt
<1>5. Locked'
  BY <1>1 DEF TypeOK, Locked, SentBy, Idle
<1>6. Written'
  BY <1>1 DEF TypeOK, Written, KeysUnique, OpeningIsFinal, OneEach
<1>7. QED BY <1>2, <1>3, <1>4, <1>5, <1>6

LEMMA CheckKeyStep ==
  ASSUME IInv, NEW r \in Requests, CheckKey(r)
  PROVE  IInv'
<1> USE DEF IInv, CheckKey
<1>0. req[r].facts.status \in {"PENDING", "ACCEPTED"}
  BY DEF Admitted, Learnt, LearntBy
<1>1. /\ req' \in [Requests -> InFlight]
      /\ \A q \in Requests \ {r} : req'[q] = req[q]
      /\ \/ req'[r] = Idle
         \/ /\ IF req[r].facts.status = "PENDING" THEN req'[r].pc = "locking"
                                                 ELSE req'[r].pc = "inserting"
            /\ req'[r].op = req[r].op /\ req'[r].who = req[r].who
            /\ req'[r].key = req[r].key /\ req'[r].msg = req[r].msg
            /\ req'[r].facts = req[r].facts
  BY GoChanges, AnswerChanges DEF PCs
<1>2. TypeOK'
  BY <1>1 DEF TypeOK
<1>3. Shape'
  BY <1>1 DEF TypeOK, Shape, Admitted, Idle
<1>4. Learnt'
  BY <1>0, <1>1 DEF TypeOK, Learnt, LearntBy, Idle, NoFacts
<1>5. Locked'
  BY <1>0, <1>1 DEF TypeOK, Learnt, LearntBy, Locked, SentBy, Idle
<1>6. Written'
  BY <1>1 DEF TypeOK, Written, KeysUnique, OpeningIsFinal, OneEach
<1>7. QED BY <1>2, <1>3, <1>4, <1>5, <1>6

LEMMA CountSentStep ==
  ASSUME IInv, NEW r \in Requests, CountSent(r)
  PROVE  IInv'
<1> USE DEF IInv, CountSent
<1>1. /\ req' \in [Requests -> InFlight]
      /\ \A q \in Requests \ {r} : req'[q] = req[q]
      /\ \/ req'[r] = Idle /\ lock' = IF lock = r THEN None ELSE lock
         \/ /\ SentBy(req[r].who) = {} /\ lock' = lock
            /\ req'[r].pc = "inserting"
            /\ req'[r].op = req[r].op /\ req'[r].who = req[r].who
            /\ req'[r].key = req[r].key /\ req'[r].msg = req[r].msg
            /\ req'[r].facts = req[r].facts
  <2>1. CASE /\ Cardinality(SentBy(req[r].who)) < LIMIT
             /\ Go(r, "inserting") /\ lock' = lock
    <3>1. SentBy(req[r].who) = {}
      BY <2>1, Counting DEF LIMIT
    <3>2. QED BY <2>1, <3>1, GoChanges DEF PCs
  <2>2. CASE Answer(r) /\ Unlock(r)
    BY <2>2, AnswerChanges DEF Unlock
  <2>3. QED BY <2>1, <2>2
<1>2. TypeOK'
  BY <1>1 DEF TypeOK
<1>3. Shape'
  BY <1>1 DEF TypeOK, Shape, Idle
<1>4. Learnt'
  BY <1>1 DEF TypeOK, Learnt, LearntBy, Idle, NoFacts
<1>5. Locked'
  BY <1>1 DEF TypeOK, Locked, SentBy, Idle
<1>6. Written'
  BY <1>1 DEF TypeOK, Written, KeysUnique, OpeningIsFinal, OneEach
<1>7. QED BY <1>2, <1>3, <1>4, <1>5, <1>6

\* What a change of one message leaves as it is.
LEMMA Changed ==
  ASSUME TypeOK, NEW m \in DOMAIN msgs,
         \/ msgs' = msgs
         \/ msgs' = [msgs EXCEPT ![m].edited = TRUE]
         \/ msgs' = [msgs EXCEPT ![m].deleted = TRUE]
  PROVE  /\ msgs' \in Seq(Message) /\ Len(msgs') = Len(msgs)
         /\ DOMAIN msgs' = DOMAIN msgs
         /\ \A n \in DOMAIN msgs :
              /\ msgs'[n].sender = msgs[n].sender /\ msgs'[n].key = msgs[n].key
              /\ msgs'[n].text = msgs[n].text
              /\ msgs[n].deleted => msgs'[n].deleted
              /\ n # m => msgs'[n] = msgs[n]
              /\ msgs' = [msgs EXCEPT ![m].deleted = TRUE] =>
                   msgs'[n].edited = msgs[n].edited
<1>1. msgs \in Seq(Message) /\ msgs[m] \in Message
  BY DEF TypeOK
<1>2. CASE msgs' = msgs
  BY <1>1, <1>2 DEF Message
<1>3. CASE msgs' = [msgs EXCEPT ![m].edited = TRUE]
  <2> DEFINE new == [msgs[m] EXCEPT !.edited = TRUE]
  <2>1. /\ new \in Message /\ new.sender = msgs[m].sender /\ new.key = msgs[m].key
        /\ new.text = msgs[m].text /\ new.deleted = msgs[m].deleted
        /\ new.edited
    BY <1>1 DEF Message
  <2>2. msgs' = [msgs EXCEPT ![m] = new]
    BY <1>3
  <2> HIDE DEF new
  <2>3. /\ msgs' \in Seq(Message) /\ Len(msgs') = Len(msgs)
        /\ DOMAIN msgs' = DOMAIN msgs
        /\ msgs'[m] = new /\ \A n \in DOMAIN msgs : n # m => msgs'[n] = msgs[n]
    BY <1>1, <2>1, <2>2
  <2>4. CASE msgs' # [msgs EXCEPT ![m].deleted = TRUE]
    BY <2>1, <2>3, <2>4
  <2>5. CASE msgs' = [msgs EXCEPT ![m].deleted = TRUE]
    <3>1. msgs'[m].edited = msgs[m].edited
      BY <1>1, <2>5 DEF Message
    <3>2. QED BY <2>1, <2>3, <3>1
  <2>6. QED BY <2>4, <2>5
<1>4. CASE msgs' = [msgs EXCEPT ![m].deleted = TRUE]
  <2> DEFINE new == [msgs[m] EXCEPT !.deleted = TRUE]
  <2>1. /\ new \in Message /\ new.sender = msgs[m].sender /\ new.key = msgs[m].key
        /\ new.text = msgs[m].text /\ new.edited = msgs[m].edited
        /\ new.deleted
    BY <1>1 DEF Message
  <2>2. msgs' = [msgs EXCEPT ![m] = new]
    BY <1>4
  <2> HIDE DEF new
  <2>3. /\ msgs' \in Seq(Message) /\ Len(msgs') = Len(msgs)
        /\ DOMAIN msgs' = DOMAIN msgs
        /\ msgs'[m] = new /\ \A n \in DOMAIN msgs : n # m => msgs'[n] = msgs[n]
    BY <1>1, <2>1, <2>2
  <2>4. QED BY <2>1, <2>3
<1>5. QED BY <1>2, <1>3, <1>4

\* A request that changes a message answers; only OpeningIsFinal depends on which
\* change it makes.
LEMMA ChangeStep ==
  ASSUME IInv, NEW r \in Requests, NEW m \in DOMAIN msgs,
         \/ msgs' = msgs
         \/ msgs' = [msgs EXCEPT ![m].edited = TRUE]
         \/ msgs' = [msgs EXCEPT ![m].deleted = TRUE],
         OpeningIsFinal', Answer(r), UNCHANGED <<requester, status, blocked, lock>>,
         req[r].pc \notin {"counting", "inserting"}
  PROVE  IInv'
<1> USE DEF IInv
<1>1. /\ req' \in [Requests -> InFlight]
      /\ \A q \in Requests \ {r} : req'[q] = req[q]
      /\ req'[r] = Idle
  BY AnswerChanges
<1>2. /\ msgs' \in Seq(Message) /\ Len(msgs') = Len(msgs)
      /\ DOMAIN msgs' = DOMAIN msgs
      /\ \A n \in DOMAIN msgs :
           /\ msgs'[n].sender = msgs[n].sender /\ msgs'[n].key = msgs[n].key
           /\ msgs'[n].text = msgs[n].text
           /\ msgs[n].deleted => msgs'[n].deleted
  BY Changed
<1>3. TypeOK'
  BY <1>1, <1>2 DEF TypeOK
<1>4. Shape'
  BY <1>1, <1>2 DEF Shape, Idle
<1>5. Learnt'
  BY <1>1, <1>2 DEF Shape, Learnt, LearntBy, Idle, NoFacts
<1>6. Locked'
  BY <1>1, <1>2 DEF Locked, SentBy, Idle
<1>7. Written'
  BY <1>2 DEF Written, KeysUnique, OneEach
<1>8. QED BY <1>3, <1>4, <1>5, <1>6, <1>7

LEMMA EditStep ==
  ASSUME IInv, NEW r \in Requests, Edit(r)
  PROVE  IInv'
<1> USE DEF IInv, Edit
<1> DEFINE m == req[r].msg
<1>1. /\ req[r].pc = "facts" /\ m \in DOMAIN msgs
      /\ status # "ACCEPTED" => msgs[m].deleted
  BY DEF Admitted, Shape, Learnt, LearntBy
<1>2. msgs' = msgs \/ (msgs[m].text /\ msgs' = [msgs EXCEPT ![m].edited = TRUE])
  BY Zenon
<1>3. OpeningIsFinal'
  BY <1>1, <1>2 DEF Written, OpeningIsFinal
<1>4. QED BY <1>1, <1>2, <1>3, ChangeStep

LEMMA DeleteStep ==
  ASSUME IInv, NEW r \in Requests, Delete(r)
  PROVE  IInv'
<1> USE DEF IInv, Delete
<1> DEFINE m == req[r].msg
<1>1. /\ req[r].pc = "facts" /\ m \in DOMAIN msgs
      /\ status # "ACCEPTED" => msgs[m].deleted
  BY DEF Admitted, Shape, Learnt, LearntBy
<1>2. msgs' = msgs \/ msgs' = [msgs EXCEPT ![m].deleted = TRUE]
  OBVIOUS
<1>3. OpeningIsFinal'
  <2>1. CASE msgs' = msgs
    BY <2>1 DEF Written, OpeningIsFinal
  <2>2. CASE msgs' = [msgs EXCEPT ![m].deleted = TRUE]
    <3>1. status # "ACCEPTED" => ~ msgs[m].text
      BY <1>1 DEF Written, OpeningIsFinal
    <3>2. \A n \in DOMAIN msgs :
            /\ msgs'[n].text = msgs[n].text /\ msgs'[n].edited = msgs[n].edited
            /\ n # m => msgs'[n] = msgs[n]
      BY <1>1, <2>2, Changed
    <3>3. DOMAIN msgs' = DOMAIN msgs
      BY <2>2
    <3>4. QED BY <3>1, <3>2, <3>3 DEF Written, OpeningIsFinal
  <2>3. QED BY <1>2, <2>1, <2>2
<1>4. QED BY <1>1, <1>2, <1>3, ChangeStep

LEMMA UploadStep ==
  ASSUME IInv, NEW r \in Requests, Upload(r)
  PROVE  IInv'
<1> USE DEF IInv, Upload
<1> DEFINE m == req[r].msg
<1>1. m \in DOMAIN msgs /\ ~ msgs[m].text
  BY DEF Shape
<1>2. msgs' = msgs \/ msgs' = [msgs EXCEPT ![m].deleted = TRUE]
  OBVIOUS
<1>3. OpeningIsFinal'
  <2>1. CASE msgs' = msgs
    BY <2>1 DEF Written, OpeningIsFinal
  <2>2. CASE msgs' = [msgs EXCEPT ![m].deleted = TRUE]
    <3>1. \A n \in DOMAIN msgs :
            /\ msgs'[n].text = msgs[n].text /\ msgs'[n].edited = msgs[n].edited
            /\ n # m => msgs'[n] = msgs[n]
      BY <1>1, <2>2, Changed
    <3>2. DOMAIN msgs' = DOMAIN msgs
      BY <2>2
    <3>3. QED BY <1>1, <3>1, <3>2 DEF Written, OpeningIsFinal
  <2>3. QED BY <1>2, <2>1, <2>2
<1>4. QED BY <1>1, <1>2, <1>3, ChangeStep

LEMMA InsertStep ==
  ASSUME IInv, NEW r \in Requests, Insert(r)
  PROVE  IInv'
<1> USE DEF IInv, Insert
<1> DEFINE q == req[r]
           new == NewMessage(r)
           n == Len(msgs) + 1
<1>0. /\ q \in InFlight /\ q.who \in Parties /\ q.pc = "inserting"
      /\ Len(msgs) \in Nat /\ DOMAIN msgs = 1..Len(msgs)
      /\ q.op = "attach" => ~ Stored(q.who, q.key)
  BY DEF TypeOK, InFlight, Shape, Stored
<1>1. lock' = IF lock = r THEN None ELSE lock
  BY DEF Unlock
<1>2. CASE Stored(q.who, q.key)
  <2>1. /\ req' \in [Requests -> InFlight]
        /\ \A p \in Requests \ {r} : req'[p] = req[p]
        /\ req'[r] = Idle /\ msgs' = msgs
    BY <1>0, <1>2, AnswerChanges DEF AfterInsert
  <2>2. TypeOK'
    BY <1>1, <2>1 DEF TypeOK
  <2>3. Shape' /\ Learnt'
    BY <2>1 DEF Shape, Learnt, LearntBy, Idle, NoFacts
  <2>4. Locked'
    BY <1>1, <2>1 DEF Locked, SentBy, Idle
  <2>5. Written'
    BY <2>1 DEF Written, KeysUnique, OpeningIsFinal, OneEach
  <2>6. QED BY <2>2, <2>3, <2>4, <2>5
<1>3. CASE ~ Stored(q.who, q.key)
  <2>1. /\ new \in Message
        /\ new.sender = q.who /\ new.key = q.key /\ (q.op = "attach" => ~ new.text)
        /\ new.edited = FALSE /\ new.deleted = FALSE
    BY <1>0 DEF NewMessage, Message, InFlight
  <2>2. Len(msgs) < MaxMessages /\ msgs' = Append(msgs, new)
    BY <1>3
  <2> HIDE DEF new
  <2>3. /\ msgs' \in Seq(Message) /\ Len(msgs') = n /\ n <= MaxMessages
        /\ DOMAIN msgs' = 1..n
        /\ msgs'[n] = new /\ \A m \in DOMAIN msgs : msgs'[m] = msgs[m]
    <3>1. msgs \in Seq(Message) /\ MaxMessages \in Nat
      BY DEF TypeOK
    <3>2. /\ msgs' \in Seq(Message) /\ Len(msgs') = n /\ DOMAIN msgs' = 1..n
          /\ msgs'[n] = new /\ \A m \in 1..Len(msgs) : msgs'[m] = msgs[m]
      BY <2>1, <2>2, <3>1
    <3>3. n <= MaxMessages
      <4>1. Len(msgs) \in Nat /\ Len(msgs) < MaxMessages
        BY <1>0, <2>2
      <4>2. QED BY <3>1, <4>1
    <3>4. QED BY <1>0, <3>2, <3>3
  <2>4. /\ req' \in [Requests -> InFlight]
        /\ \A p \in Requests \ {r} : req'[p] = req[p]
        /\ \/ req'[r] = Idle
           \/ /\ q.op = "attach" /\ req'[r].pc = "uploading" /\ req'[r].op = q.op
              /\ req'[r].who = q.who /\ req'[r].key = q.key
              /\ req'[r].msg = n /\ req'[r].facts = q.facts
    <3>1. CASE q.op # "attach"
      BY <3>1, AnswerChanges DEF AfterInsert
    <3>2. CASE q.op = "attach"
      <4> DEFINE up == [req[r] EXCEPT !.pc = "uploading", !.msg = n]
      <4>1. n \in 1..MaxMessages
        BY <1>0, <2>3
      <4>2. /\ up \in InFlight /\ up.pc = "uploading" /\ up.op = q.op
            /\ up.who = q.who /\ up.key = q.key /\ up.msg = n /\ up.facts = q.facts
        BY <1>0, <4>1 DEF InFlight, PCs
      <4>3. req' = [req EXCEPT ![r] = up] /\ req \in [Requests -> InFlight]
        BY <3>2 DEF AfterInsert, TypeOK
      <4>4. QED BY <3>2, <4>2, <4>3
    <3>3. QED BY <3>1, <3>2
  <2>5. TypeOK'
    BY <1>1, <2>3, <2>4 DEF TypeOK
  <2>6. Shape'
    BY <1>0, <2>1, <2>3, <2>4 DEF Shape, Idle
  <2>7. Learnt'
    BY <1>0, <2>3, <2>4 DEF Shape, Learnt, LearntBy, Idle, NoFacts
  <2>8. status # "ACCEPTED" => SentBy(q.who) = {} /\ lock = r
    BY <1>0 DEF Locked, Learnt, LearntBy
  <2>9. Locked'
    BY <1>0, <1>1, <2>1, <2>3, <2>4, <2>8 DEF Locked, Learnt, LearntBy, SentBy, Idle
  <2>10. KeysUnique'
    BY <1>0, <1>3, <2>1, <2>3 DEF Written, KeysUnique, Stored, SentBy
  <2>11. OpeningIsFinal'
    BY <1>0, <2>1, <2>3 DEF Written, OpeningIsFinal
  <2>12. OneEach'
    BY <1>0, <2>1, <2>3, <2>8 DEF Written, OneEach, SentBy
  <2>13. QED BY <2>5, <2>6, <2>7, <2>9, <2>10, <2>11, <2>12 DEF Written
<1>4. QED BY <1>2, <1>3

LEMMA StutterStep == IInv /\ UNCHANGED vars => IInv'
BY DEF vars, IInv, TypeOK, Shape, Learnt, LearntBy, Locked, SentBy, Written,
       KeysUnique, OpeningIsFinal, OneEach

LEMMA NextStep == IInv /\ [Next]_vars => IInv'
<1> SUFFICES ASSUME IInv, Next PROVE IInv'
  BY StutterStep
<1>1. ASSUME NEW r \in Requests, ReadFacts(r) \/ Transact(r) PROVE IInv'
  BY <1>1, ReadBlockedStep, ReadStatusStep, ReadSentStep, CheckKeyStep,
     LockConnectionStep, CountSentStep, InsertStep, UploadStep
     DEF ReadFacts, Transact
<1>2. QED
  BY <1>1, StartConversationStep, SendStep, AttachStep, ReadConnectionStep,
     EditOrDeleteStep, CheckStartStep, CreateConversationStep, DecideStep,
     EditStep, DeleteStep, RequestDiesStep, BlockStep DEF Next

LEMMA Invariance == Spec => []IInv
BY InitIInv, NextStep, PTL DEF Spec

-----------------------------------------------------------------------------
(* The theorems.                                                           *)

\* The variables keep their types.
THEOREM TypeCorrect == Spec => []TypeOK
BY Invariance, PTL DEF IInv

\* Until the recipient accepts, nobody has more than one message in the
\* conversation (chat.repository.ts:221-235): the holder of the lock is the only one
\* who may insert on pending facts, and it has counted none.
THEOREM QuotaHolds == Spec => []PendingQuota
<1>1. IInv => PendingQuota
  <2> SUFFICES ASSUME IInv, status # "ACCEPTED", NEW p \in Parties
               PROVE  Cardinality(SentBy(p)) <= LIMIT
    BY DEF PendingQuota
  <2>1. CASE SentBy(p) = {}
    BY <2>1, FS_EmptySet DEF LIMIT
  <2>2. ASSUME NEW m \in SentBy(p) PROVE Cardinality(SentBy(p)) <= LIMIT
    <3>1. SentBy(p) = {m}
      BY DEF IInv, Written, OneEach, SentBy
    <3>2. QED BY <3>1, FS_Singleton DEF LIMIT
  <2>3. QED BY <2>1, <2>2
<1>2. QED BY <1>1, Invariance, PTL

\* One client message id of one sender names one message, whatever retries race
\* (chat.service.ts:336-350, 370-380).
THEOREM RetriesAddNothing == Spec => []KeysUnique
BY Invariance, PTL DEF IInv, Written

\* A decision on the connection request is final, and so is who asked
\* (chat.repository.ts:599-623).
THEOREM DecisionIsFinal == Spec => DecidedOnce
<1>1. IInv /\ [Next]_vars =>
        [/\ status \in Decisions => status' = status
         /\ requester # None => requester' = requester]_<<requester, status>>
  <2> SUFFICES ASSUME IInv, Next
               PROVE  /\ status \in Decisions => status' = status
                      /\ requester # None => requester' = requester
    BY DEF vars
  <2>1. ASSUME NEW r \in Requests, CreateConversation(r)
        PROVE  /\ status \in Decisions => status' = status
               /\ requester # None => requester' = requester
    BY <2>1 DEF CreateConversation, IInv, TypeOK, Decisions
  <2>2. ASSUME NEW r \in Requests, Decide(r)
        PROVE  /\ status \in Decisions => status' = status
               /\ requester # None => requester' = requester
    BY <2>2 DEF Decide, Decisions
  <2>3. CASE UNCHANGED <<requester, status>>
    BY <2>3
  <2>4. QED
    BY <2>1, <2>2, <2>3 DEF Next, StartConversation, Send, Attach, ReadConnection,
       EditOrDelete, CheckStart, ReadFacts, ReadBlocked, ReadStatus, ReadSent,
       Learn, Transact, CheckKey, LockConnection, CountSent, Insert, Upload, Edit,
       Delete, RequestDies, Block
<1>2. QED BY <1>1, Invariance, PTL DEF Spec, DecidedOnce

\* A request that a step leaves alone does not come to write by it.
LEMMA StillQuiet ==
  ASSUME NEW r \in Requests, req'[r] = req[r],
         blocked => blocked',
         status \in {"REJECTED", "CANCELLED"} => status' \in {"REJECTED", "CANCELLED"},
         ~ MayWrite(r)
  PROVE  ~ MayWrite(r)'
BY DEF MayWrite

\* While the conversation is over and nobody may write, nobody comes to.
LEMMA QuietStep ==
  ASSUME IInv, Quiet, Next
  PROVE  Quiet' /\ msgs' = msgs
<1> USE DEF IInv
<1>0. Over /\ \A r \in Requests : ~ MayWrite(r)
  BY DEF Quiet
<1>1. ASSUME NEW r \in Requests, NEW pc \in {"starting", "deciding", "facts"},
             NEW p \in Parties, NEW op \in Decisions \cup {"start", "attach"},
             Begin(r, pc, op, p), UNCHANGED <<status, blocked, msgs>>
      PROVE  Quiet' /\ msgs' = msgs
  <2>1. /\ \A q \in Requests \ {r} : req'[q] = req[q]
        /\ req'[r].pc = pc /\ req'[r].facts = NoFacts
    BY <1>1, BeginChanges DEF PCs
  <2>2. ~ MayWrite(r)'
    BY <1>0, <1>1, <2>1 DEF Over, MayWrite, NoFacts
  <2>3. QED BY <1>0, <1>1, <2>1, <2>2, StillQuiet DEF Quiet, Over
<1>2. ASSUME NEW r \in Requests, NEW q \in InFlight,
             q.pc = "facts", q.facts = NoFacts,
             req' = [req EXCEPT ![r] = q], UNCHANGED <<status, blocked, msgs>>
      PROVE  Quiet' /\ msgs' = msgs
  <2>1. req'[r] = q /\ \A s \in Requests \ {r} : req'[s] = req[s]
    BY <1>2 DEF TypeOK
  <2>2. ~ MayWrite(r)'
    BY <1>0, <1>2, <2>1 DEF Over, MayWrite, NoFacts
  <2>3. QED BY <1>0, <1>2, <2>1, <2>2, StillQuiet DEF Quiet, Over
<1>3. ASSUME NEW r \in Requests, NEW p \in Parties, NEW k \in Keys, Send(r, p, k)
      PROVE  Quiet' /\ msgs' = msgs
  <2> DEFINE q == [Idle EXCEPT !.pc = "facts", !.op = "send", !.who = p, !.key = k]
  <2>1. q \in InFlight /\ q.pc = "facts" /\ q.facts = NoFacts
    BY DEF Idle, NoFacts, InFlight, Facts, PCs
  <2>2. req' = [req EXCEPT ![r] = q] /\ UNCHANGED <<status, blocked, msgs>>
    BY <1>3 DEF Send
  <2> HIDE DEF q
  <2>3. QED BY <1>2, <2>1, <2>2
<1>4. ASSUME NEW r \in Requests, NEW op \in {"edit", "delete"},
             NEW m \in 1..MaxMessages, EditOrDelete(r, op, m)
      PROVE  Quiet' /\ msgs' = msgs
  <2> DEFINE q == [Idle EXCEPT !.pc = "facts", !.op = op, !.who = msgs[m].sender,
                               !.msg = m, !.gone = msgs[m].deleted]
  <2>1. msgs[m].sender \in Parties /\ msgs[m].deleted \in BOOLEAN
    <3>1. msgs[m] \in Message
      BY <1>4 DEF EditOrDelete, TypeOK
    <3>2. QED BY <3>1 DEF Message
  <2>2. q \in InFlight /\ q.pc = "facts" /\ q.facts = NoFacts
    BY <2>1 DEF Idle, NoFacts, InFlight, Facts, PCs
  <2>3. req' = [req EXCEPT ![r] = q] /\ UNCHANGED <<status, blocked, msgs>>
    BY <1>4 DEF EditOrDelete
  <2> HIDE DEF q
  <2>4. QED BY <1>2, <2>2, <2>3
<1>5. ASSUME NEW r \in Requests, CheckStart(r)
      PROVE  Quiet' /\ msgs' = msgs
  <2>1. /\ \A q \in Requests \ {r} : req'[q] = req[q]
        /\ req'[r].pc \in {"idle", "creating"}
        /\ UNCHANGED <<status, blocked, msgs>>
    BY <1>5, GoChanges, AnswerChanges DEF CheckStart, PCs, Idle
  <2>2. QED BY <1>0, <2>1, StillQuiet DEF Quiet, Over, MayWrite
<1>6. ASSUME NEW r \in Requests, Answer(r), UNCHANGED <<blocked, msgs>>,
             \/ status' = status
             \/ status \notin {"REJECTED", "CANCELLED"}
      PROVE  Quiet' /\ msgs' = msgs
  <2>1. /\ \A q \in Requests \ {r} : req'[q] = req[q]
        /\ req'[r].pc = "idle"
    BY <1>6, AnswerChanges DEF Idle
  <2>2. QED BY <1>0, <1>6, <2>1, StillQuiet DEF Quiet, Over, MayWrite
<1>7. ASSUME NEW r \in Requests,
             CreateConversation(r) \/ Decide(r) \/ RequestDies(r)
      PROVE  Quiet' /\ msgs' = msgs
  BY <1>6, <1>7 DEF CreateConversation, Decide, RequestDies, TypeOK
<1>8. ASSUME NEW r \in Requests, ReadFacts(r)
      PROVE  Quiet' /\ msgs' = msgs
  <2>1. ASSUME NEW f \in Facts, Learn(r, f),
               ~ Denies(f) => \/ blocked /\ f.blocked = None
                              \/ /\ status \in {"REJECTED", "CANCELLED"}
                                 /\ f.status = None
        PROVE  Quiet' /\ msgs' = msgs
    <3>1. CASE Denies(f)
      BY <1>6, <2>1, <3>1 DEF Learn
    <3>2. CASE ~ Denies(f)
      <4>1. /\ \A q \in Requests \ {r} : req'[q] = req[q]
            /\ req'[r].pc = "facts" /\ req'[r].facts = f
            /\ UNCHANGED <<status, blocked, msgs>>
        BY <2>1, <3>2, LearnChanges DEF Learn
      <4>2. ~ MayWrite(r)'
        BY <2>1, <3>2, <4>1 DEF MayWrite
      <4>3. QED BY <1>0, <4>1, <4>2, StillQuiet DEF Quiet, Over
    <3>3. QED BY <3>1, <3>2
  <2>2. /\ req[r].facts \in Facts /\ status \in Statuses \cup {None}
        /\ blocked \in BOOLEAN
        /\ Cardinality(Kept(req[r].who)) \in Nat
    BY Counting DEF TypeOK, InFlight
  <2>3. req[r].pc = "facts" =>
          \/ blocked /\ req[r].facts.blocked = None
          \/ /\ status \in {"REJECTED", "CANCELLED"}
             /\ req[r].facts.status = None
    BY <1>0 DEF MayWrite
  <2>4. CASE ReadBlocked(r)
    <3> DEFINE f == [req[r].facts EXCEPT !.blocked = blocked]
    <3>1. /\ f \in Facts /\ f.status = req[r].facts.status /\ f.blocked = blocked
          /\ Learn(r, f) /\ req[r].pc = "facts"
      BY <2>2, <2>4 DEF ReadBlocked, Learn, Facts
    <3>2. blocked => Denies(f)
      BY <2>2, <3>1 DEF Denies
    <3> HIDE DEF f
    <3>3. QED BY <2>1, <2>3, <3>1, <3>2
  <2>5. CASE ReadStatus(r)
    <3> DEFINE f == [req[r].facts EXCEPT !.status = status]
    <3>1. /\ f \in Facts /\ f.blocked = req[r].facts.blocked /\ f.status = status
          /\ Learn(r, f) /\ req[r].pc = "facts"
      BY <2>2, <2>5 DEF ReadStatus, Learn, Facts
    <3>2. status \in {"REJECTED", "CANCELLED"} => Denies(f)
      BY <3>1 DEF Denies
    <3> HIDE DEF f
    <3>3. QED BY <2>1, <2>3, <3>1, <3>2
  <2>6. CASE ReadSent(r)
    <3> DEFINE f == [req[r].facts EXCEPT !.sent = Cardinality(Kept(req[r].who))]
    <3>1. /\ f \in Facts /\ f.blocked = req[r].facts.blocked
          /\ f.status = req[r].facts.status
          /\ Learn(r, f) /\ req[r].pc = "facts"
      BY <2>2, <2>6 DEF ReadSent, Learn, Facts
    <3> HIDE DEF f
    <3>2. QED BY <2>1, <2>3, <3>1
  <2>7. QED BY <1>8, <2>4, <2>5, <2>6 DEF ReadFacts
<1>9. ASSUME NEW r \in Requests PROVE ~ Transact(r) /\ ~ Edit(r) /\ ~ Delete(r)
  <2>1. ASSUME NEW op, Admitted(r, op) PROVE FALSE
    BY <1>0, <2>1 DEF Admitted, MayWrite, Learnt, LearntBy
  <2>2. QED
    BY <1>0, <2>1 DEF MayWrite, Transact, CheckKey, LockConnection, CountSent, Insert,
       Upload, Edit, Delete
<1>10. CASE Block
  BY <1>0, <1>10, StillQuiet DEF Block, Quiet, Over
<1>11. ASSUME NEW r \in Requests, NEW p \in Parties, NEW d \in Decisions,
              StartConversation(r, p) \/ Attach(r, p) \/ ReadConnection(r, p, d)
       PROVE  Quiet' /\ msgs' = msgs
  BY <1>1, <1>11 DEF StartConversation, Attach, ReadConnection, Decisions
<1>12. QED
  BY <1>3, <1>4, <1>5, <1>7, <1>8, <1>9, <1>10, <1>11 DEF Next, Decisions

\* After a block, a rejection or a cancellation, and once the requests that read
\* the facts before it have answered, no message is written, edited or deleted again
\* (findlove.policy.ts:32-42).
THEOREM SilenceAfterTheEnd == Spec => OverIsQuiet
<1>1. IInv /\ [Next]_vars => [Quiet => Quiet' /\ msgs' = msgs]_vars
  BY QuietStep
<1>2. QED BY <1>1, Invariance, PTL DEF Spec, OverIsQuiet
=============================================================================
