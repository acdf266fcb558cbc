-------------------------- MODULE InvitationsProofs --------------------------
(***************************************************************************)
(* Proofs about Invitations, for any inviters and links and any finite set *)
(* of requests in flight.                                                  *)
(***************************************************************************)
EXTENDS Invitations, FiniteSetTheorems, TLAPS

-----------------------------------------------------------------------------
(* Types.                                                                  *)

LEMMA TypeStep ==
  ASSUME TypeOK, [Next]_vars
  PROVE  TypeOK'
<1> USE ConstantsAssumption DEF TypeOK, InFlight, Sent, Admitted, Idle
<1>1. ASSUME NEW r \in Requests, NEW i \in Inviters, Invite(r, i)
      PROVE  TypeOK'
  BY <1>1 DEF Invite, invitations
<1>2. ASSUME NEW r \in Requests, NEW n \in Links, Accept(r, n)
      PROVE  TypeOK'
  BY <1>2 DEF Accept, invitations
<1>3. ASSUME NEW r \in Requests, FindPending(r)
      PROVE  TypeOK'
  <2>1. CASE Go(r, "inserting")
    BY <1>3, <2>1 DEF FindPending, Go, invitations
  <2>2. CASE Answer(r)
    BY <1>3, <2>2 DEF FindPending, Answer, invitations
  <2> QED
    BY <1>3, <2>1, <2>2 DEF FindPending
<1>4. ASSUME NEW r \in Requests, NEW n \in Links, InsertInvitation(r, n)
      PROVE  TypeOK'
  BY <1>4 DEF InsertInvitation, Answer
<1>5. ASSUME NEW r \in Requests, FindByToken(r)
      PROVE  TypeOK'
  <2>1. CASE Usable(req[r].link) /\ Go(r, "finding")
    BY <1>5, <2>1 DEF FindByToken, Usable, Go, invitations
  <2>2. CASE Answer(r)
    BY <1>5, <2>2 DEF FindByToken, Answer, invitations
  <2> QED
    BY <1>5, <2>1, <2>2 DEF FindByToken
<1>6. ASSUME NEW r \in Requests, FindDirect(r)
      PROVE  TypeOK'
  BY <1>6 DEF FindDirect, Go, invitations
<1>7. ASSUME NEW r \in Requests, CreateDirect(r)
      PROVE  TypeOK'
  <2>1. direct' \in [Inviters -> Nat]
    BY <1>7 DEF CreateDirect, InsertDirect
  <2> QED
    BY <1>7, <2>1 DEF CreateDirect, Go, invitations
<1>8. ASSUME NEW r \in Requests, Present(r)
      PROVE  TypeOK'
  <2> DEFINE b == req[r].link \notin due
  <2>1. b \in BOOLEAN
    OBVIOUS
  <2>2. req' = [req EXCEPT ![r].pc = "claiming", ![r].intime = b]
    BY <1>8 DEF Present
  <2>3. UNCHANGED <<active, status, inviter, due, direct, accepted>>
        /\ req[r].pc = "presenting"
    BY <1>8 DEF Present, invitations
  <2> HIDE DEF b
  <2> QED
    BY <2>1, <2>2, <2>3
<1>9. ASSUME NEW r \in Requests, AcceptInvitation(r)
      PROVE  TypeOK'
  BY <1>9 DEF AcceptInvitation, Claim, Answer
<1>10. ASSUME NEW r \in Requests, RequestDies(r)
       PROVE  TypeOK'
  BY <1>10 DEF RequestDies, Answer, invitations
<1>11. ASSUME NEW i \in Inviters, StartDirect(i)
       PROVE  TypeOK'
  BY <1>11 DEF StartDirect, InsertDirect, invitations
<1>12. ASSUME NEW n \in Links, Expire(n)
       PROVE  TypeOK'
  BY <1>12 DEF Expire
<1>13. ASSUME NEW b \in BOOLEAN, SetActive(b)
       PROVE  TypeOK'
  BY <1>13 DEF SetActive, invitations
<1>14. CASE ExpireInvitations
  BY <1>14 DEF ExpireInvitations
<1>15. CASE UNCHANGED vars
  BY <1>15 DEF vars, invitations
<1> QED
  BY <1>1, <1>2, <1>3, <1>4, <1>5, <1>6, <1>7, <1>8, <1>9, <1>10, <1>11, <1>12,
     <1>13, <1>14, <1>15 DEF Next, CreateInvitation, Redeem

\* The variables keep their types, a row has its inviter, and a request past the
\* lookup holds an invitation that exists.
THEOREM TypeCorrect == Spec => []TypeOK
<1>1. ASSUME Init
      PROVE  TypeOK
  <2>1. Idle \in InFlight
    BY DEF Idle, InFlight
  <2>2. req \in [Requests -> InFlight] /\ \A r \in Requests : req[r].pc = "idle"
    BY <1>1, <2>1 DEF Init, Idle
  <2>3. due \subseteq Sent
    BY <1>1 DEF Init
  <2> QED
    BY <1>1, <2>2, <2>3, ConstantsAssumption DEF Init, TypeOK, Admitted
<1> QED
  BY <1>1, TypeStep, PTL DEF Spec

-----------------------------------------------------------------------------
(* Single use.                                                             *)

LEMMA SingleUseStep ==
  ASSUME TypeOK, SingleUse, [Next]_vars
  PROVE  SingleUse'
<1> USE ConstantsAssumption DEF TypeOK, SingleUse
<1>1. ASSUME NEW r \in Requests, AcceptInvitation(r)
      PROVE  SingleUse'
  BY <1>1 DEF AcceptInvitation, Claim, Sent, Admitted
<1>2. ASSUME NEW r \in Requests, NEW n \in Links, InsertInvitation(r, n)
      PROVE  SingleUse'
  BY <1>2 DEF InsertInvitation, Sent
<1>3. CASE ExpireInvitations
  BY <1>3 DEF ExpireInvitations
<1>4. CASE UNCHANGED <<status, accepted>>
  BY <1>4
<1>5. ASSUME NEW r \in Requests, FindPending(r) \/ FindByToken(r) \/ FindDirect(r)
      PROVE  UNCHANGED <<status, accepted>>
  BY <1>5 DEF FindPending, FindByToken, FindDirect, invitations
<1>6. ASSUME NEW r \in Requests, CreateDirect(r) \/ Present(r) \/ RequestDies(r)
      PROVE  UNCHANGED <<status, accepted>>
  BY <1>6 DEF CreateDirect, Present, RequestDies, invitations
<1>7. ASSUME NEW r \in Requests, \/ \E i \in Inviters : Invite(r, i)
                                 \/ \E n \in Links : Accept(r, n)
      PROVE  UNCHANGED <<status, accepted>>
  BY <1>7 DEF Invite, Accept, invitations
<1>8. ASSUME \/ \E i \in Inviters : StartDirect(i)
             \/ \E n \in Links : Expire(n)
             \/ \E b \in BOOLEAN : SetActive(b)
             \/ UNCHANGED vars
      PROVE  UNCHANGED <<status, accepted>>
  BY <1>8 DEF StartDirect, Expire, SetActive, vars, invitations
<1> QED
  BY <1>1, <1>2, <1>3, <1>4, <1>5, <1>6, <1>7, <1>8 DEF Next, CreateInvitation, Redeem

\* No link is accepted twice, and none is marked accepted without a person
\* having accepted it.
THEOREM LinksAreSingleUse == Spec => []SingleUse
<1>1. Init => SingleUse
  BY ConstantsAssumption DEF Init, SingleUse
<1> QED
  BY <1>1, SingleUseStep, TypeCorrect, PTL DEF Spec

-----------------------------------------------------------------------------
(* The conversation comes first.                                           *)

\* A handler that goes on to the update has its conversation.
Opened ==
  \A r \in Requests :
    req[r].pc \in {"presenting", "claiming"} => direct[Host(r)] = 1

OpenedInv == AcceptedHasConversation /\ Opened

\* A row keeps its inviter, and a conversation is never taken back.
LEMMA RowsStay ==
  ASSUME TypeOK, AcceptedHasConversation, [Next]_vars
  PROVE  /\ \A n \in Sent : inviter'[n] = inviter[n]
         /\ \A i \in Inviters : /\ direct'[i] \in {0, 1}
                                /\ direct[i] = 1 => direct'[i] = 1
<1> USE DEF TypeOK, AcceptedHasConversation
<1>1. ASSUME NEW i \in Inviters, InsertDirect(i)
      PROVE  \A j \in Inviters : /\ direct'[j] \in {0, 1}
                                 /\ direct[j] = 1 => direct'[j] = 1
  BY <1>1 DEF InsertDirect
<1>2. \A i \in Inviters : direct[i] \in {0, 1}
  OBVIOUS
<1>3. ASSUME NEW r \in Requests, CreateDirect(r)
      PROVE  InsertDirect(Host(r)) /\ Host(r) \in Inviters /\ inviter' = inviter
  BY <1>3, ConstantsAssumption DEF CreateDirect, Host, Admitted, Sent, invitations
<1>4. ASSUME NEW i \in Inviters, StartDirect(i)
      PROVE  InsertDirect(i) /\ inviter' = inviter
  BY <1>4 DEF StartDirect, invitations
<1>5. ASSUME NEW r \in Requests, NEW n \in Links, InsertInvitation(r, n)
      PROVE  direct' = direct /\ \A m \in Sent : inviter'[m] = inviter[m]
  BY <1>5 DEF InsertInvitation, Sent
<1>6. ASSUME NEW r \in Requests,
             \/ FindPending(r) \/ FindByToken(r) \/ FindDirect(r)
             \/ Present(r) \/ AcceptInvitation(r) \/ RequestDies(r)
      PROVE  UNCHANGED <<direct, inviter>>
  BY <1>6 DEF FindPending, FindByToken, FindDirect, Present, AcceptInvitation,
              Claim, RequestDies, invitations
<1>7. ASSUME NEW r \in Requests, \/ \E i \in Inviters : Invite(r, i)
                                 \/ \E n \in Links : Accept(r, n)
      PROVE  UNCHANGED <<direct, inviter>>
  BY <1>7 DEF Invite, Accept, invitations
<1>8. ASSUME \/ \E n \in Links : Expire(n)
             \/ \E b \in BOOLEAN : SetActive(b)
             \/ ExpireInvitations
             \/ UNCHANGED vars
      PROVE  UNCHANGED <<direct, inviter>>
  BY <1>8 DEF Expire, SetActive, ExpireInvitations, vars, invitations
<1> QED
  BY <1>1, <1>2, <1>3, <1>4, <1>5, <1>6, <1>7, <1>8 DEF Next, CreateInvitation, Redeem

\* Only the conditional update makes an invitation ACCEPTED.
LEMMA StatusStep ==
  ASSUME TypeOK, [Next]_vars,
         NEW n \in Links, status'[n] = "ACCEPTED", status[n] # "ACCEPTED"
  PROVE  \E r \in Requests : AcceptInvitation(r)
<1> USE DEF TypeOK
<1>1. ASSUME NEW r \in Requests, NEW m \in Links, InsertInvitation(r, m)
      PROVE  FALSE
  BY <1>1 DEF InsertInvitation
<1>2. CASE ExpireInvitations
  BY <1>2 DEF ExpireInvitations
<1>3. ASSUME NEW r \in Requests,
             \/ FindPending(r) \/ FindByToken(r) \/ FindDirect(r)
             \/ CreateDirect(r) \/ Present(r) \/ RequestDies(r)
             \/ \E i \in Inviters : Invite(r, i)
             \/ \E m \in Links : Accept(r, m)
      PROVE  status' = status
  BY <1>3 DEF FindPending, FindByToken, FindDirect, CreateDirect, Present,
              RequestDies, Invite, Accept, invitations
<1>4. ASSUME \/ \E i \in Inviters : StartDirect(i)
             \/ \E m \in Links : Expire(m)
             \/ \E b \in BOOLEAN : SetActive(b)
             \/ UNCHANGED vars
      PROVE  status' = status
  BY <1>4 DEF StartDirect, Expire, SetActive, vars, invitations
<1> QED
  BY <1>1, <1>2, <1>3, <1>4 DEF Next, CreateInvitation, Redeem

\* Whoever presents or claims has found the conversation or created it.
LEMMA OpenedStep ==
  ASSUME TypeOK, OpenedInv, [Next]_vars
  PROVE  OpenedInv'
<1> USE DEF OpenedInv, Opened, TypeOK
<1>0. /\ \A n \in Sent : inviter'[n] = inviter[n]
      /\ \A i \in Inviters : direct'[i] \in {0, 1} /\ (direct[i] = 1 => direct'[i] = 1)
  BY RowsStay
<1>1. \A n \in Sent : inviter[n] \in Inviters
  BY DEF Sent
<1>2. ASSUME NEW q \in Requests, req'[q].link = req[q].link,
             req[q].pc \in {"presenting", "claiming"}
      PROVE  direct'[Host(q)'] = 1
  BY <1>0, <1>1, <1>2 DEF Host, Admitted
<1>3. Opened'
  <2>1. ASSUME NEW r \in Requests, FindDirect(r)
        PROVE  Opened'
    <3>1. direct[Host(r)] \in {0, 1} /\ Host(r) \in Inviters
      BY <2>1, <1>1 DEF FindDirect, Host, Admitted, AcceptedHasConversation
    <3>2. req'[r].pc = "presenting" => direct'[Host(r)'] = 1
      BY <2>1, <3>1 DEF FindDirect, Go, Host, invitations, InFlight
    <3>3. \A q \in Requests \ {r} : req'[q] = req[q]
      BY <2>1 DEF FindDirect, Go
    <3>4. req'[r].pc \in {"presenting", "creating"}
      BY <2>1 DEF FindDirect, Go, InFlight
    <3> QED
      BY <1>2, <3>2, <3>3, <3>4
  <2>2. ASSUME NEW r \in Requests, CreateDirect(r)
        PROVE  Opened'
    <3>1. direct[Host(r)] \in {0, 1} /\ Host(r) \in Inviters
      BY <2>2, <1>1 DEF CreateDirect, Host, Admitted, AcceptedHasConversation
    <3>2. direct'[Host(r)] = 1 /\ Host(r)' = Host(r)
      BY <2>2, <3>1 DEF CreateDirect, InsertDirect, Go, Host, invitations, InFlight
    <3>3. \A q \in Requests \ {r} : req'[q] = req[q]
      BY <2>2 DEF CreateDirect, Go
    <3> QED
      BY <1>2, <3>2, <3>3
  <2>3. ASSUME NEW r \in Requests, Present(r)
        PROVE  Opened'
    <3>1. /\ req[r].pc = "presenting" /\ req'[r].link = req[r].link
          /\ \A q \in Requests \ {r} : req'[q] = req[q]
      BY <2>3 DEF Present, InFlight
    <3> QED
      BY <1>2, <3>1
  <2>4. ASSUME NEW r \in Requests,
               \A q \in Requests \ {r} : req'[q] = req[q],
               req'[r].pc \notin {"presenting", "claiming"}
        PROVE  Opened'
    BY <1>2, <2>4
  <2>5. ASSUME NEW r \in Requests, FindPending(r) \/ FindByToken(r)
        PROVE  Opened'
    BY <2>5, <2>4 DEF FindPending, FindByToken, Go, Answer, Idle, InFlight
  <2>6. ASSUME NEW r \in Requests, \/ \E n \in Links : InsertInvitation(r, n)
                                   \/ AcceptInvitation(r) \/ RequestDies(r)
        PROVE  Opened'
    BY <2>6, <2>4 DEF InsertInvitation, AcceptInvitation, Claim, RequestDies, Answer, Idle
  <2>7. ASSUME NEW r \in Requests, \/ \E i \in Inviters : Invite(r, i)
                                   \/ \E n \in Links : Accept(r, n)
        PROVE  Opened'
    BY <2>7, <2>4 DEF Invite, Accept, InFlight
  <2>8. ASSUME \/ \E i \in Inviters : StartDirect(i)
               \/ \E n \in Links : Expire(n)
               \/ \E b \in BOOLEAN : SetActive(b)
               \/ ExpireInvitations
               \/ UNCHANGED vars
        PROVE  Opened'
    <3>1. req' = req
      BY <2>8 DEF StartDirect, Expire, SetActive, ExpireInvitations, vars
    <3> QED
      BY <1>2, <3>1
  <2> QED
    BY <2>1, <2>2, <2>3, <2>5, <2>6, <2>7, <2>8 DEF Next, CreateInvitation, Redeem
<1>4. AcceptedHasConversation'
  <2>1. ASSUME NEW n \in Links, status'[n] = "ACCEPTED"
        PROVE  n \in Sent /\ direct[inviter[n]] = 1
    <3>1. CASE status[n] = "ACCEPTED"
      BY <3>1, ConstantsAssumption DEF AcceptedHasConversation, Sent
    <3>2. CASE status[n] # "ACCEPTED"
      <4>1. PICK r \in Requests : AcceptInvitation(r)
        BY <2>1, <3>2, StatusStep
      <4>2. req[r].link = n /\ req[r].pc = "claiming"
        BY <2>1, <3>2, <4>1 DEF AcceptInvitation, Claim
      <4> QED
        BY <4>2 DEF Host, Admitted
    <3> QED
      BY <3>1, <3>2
  <2>2. \A i \in Inviters : direct'[i] <= 1
    BY <1>0
  <2> QED
    BY <1>0, <1>1, <2>1, <2>2 DEF AcceptedHasConversation
<1> QED
  BY <1>3, <1>4

\* An accepted invitation has its conversation, and the pair has one, for every
\* race with other acceptances and with conversations started otherwise.
THEOREM ConversationComesFirst == Spec => []AcceptedHasConversation
<1>1. Init => OpenedInv
  BY ConstantsAssumption DEF Init, OpenedInv, Opened, AcceptedHasConversation, Idle
<1>2. OpenedInv => AcceptedHasConversation
  BY DEF OpenedInv
<1> QED
  BY <1>1, <1>2, OpenedStep, TypeCorrect, PTL DEF Spec

-----------------------------------------------------------------------------
(* Links alive at the same time.                                           *)

Bounded(i) ==
  /\ IsFiniteSet(Live(i))
  /\ Cardinality(Live(i)) + Cardinality(Inserting(i)) <= Cardinality(Requests)

BoundInv == \A i \in Inviters : Bounded(i)

LEMMA InsertingFinite ==
  ASSUME NEW i
  PROVE  /\ IsFiniteSet(Inserting(i))
         /\ Cardinality(Inserting(i)) \in Nat
         /\ Cardinality(Inserting(i)) <= Cardinality(Requests)
         /\ Cardinality(Requests) \in Nat
<1>1. Inserting(i) \in SUBSET Requests
  BY DEF Inserting
<1> QED
  BY <1>1, ConstantsAssumption, FS_Subset, FS_CardinalityType

\* A step that revives no link and lets no new request through keeps the bound.
LEMMA BoundKept ==
  ASSUME NEW i, Bounded(i), Live(i)' \subseteq Live(i),
         Inserting(i)' \subseteq Inserting(i)
  PROVE  Bounded(i)'
<1>1. IsFiniteSet(Inserting(i))
  BY InsertingFinite
<1>2. /\ IsFiniteSet(Live(i)') /\ Cardinality(Live(i)') <= Cardinality(Live(i))
      /\ Cardinality(Live(i)') \in Nat /\ Cardinality(Live(i)) \in Nat
  BY FS_Subset, FS_CardinalityType DEF Bounded
<1>3. /\ Cardinality(Inserting(i)') <= Cardinality(Inserting(i))
      /\ Cardinality(Inserting(i)') \in Nat /\ Cardinality(Inserting(i)) \in Nat
  BY <1>1, FS_Subset, FS_CardinalityType
<1> QED
  BY <1>2, <1>3, InsertingFinite DEF Bounded

LEMMA LiveBoundStep ==
  ASSUME TypeOK, BoundInv, [Next]_vars
  PROVE  BoundInv'
<1> USE ConstantsAssumption DEF TypeOK
<1>1. ASSUME NEW r \in Requests, FindPending(r)
      PROVE  BoundInv'
  <2>1. /\ UNCHANGED <<status, inviter, due>>
        /\ \A i \in Inviters : Live(i)' = Live(i)
    BY <1>1 DEF FindPending, invitations, Live, Sent, Usable
  <2>2. \A q \in Requests \ {r} : req'[q] = req[q]
    BY <1>1 DEF FindPending, Go, Answer
  <2>3. CASE Answer(r)
    <3>1. \A i \in Inviters : Inserting(i)' \subseteq Inserting(i)
      BY <2>2, <2>3 DEF Answer, Idle, Inserting
    <3> QED
      BY <2>1, <3>1, BoundKept DEF BoundInv
  <2>4. ASSUME Live(req[r].who) = {}, Go(r, "inserting")
        PROVE  BoundInv'
    <3>1. ASSUME NEW i \in Inviters, i # req[r].who
          PROVE  Inserting(i)' \subseteq Inserting(i)
      BY <2>2, <2>4, <3>1 DEF Go, Inserting, InFlight
    <3>2. ASSUME NEW i \in Inviters, i = req[r].who
          PROVE  Bounded(i)'
      <4>1. Live(i)' = {}
        BY <2>1, <2>4, <3>2
      <4>2. Inserting(i)' \in SUBSET Requests
        BY DEF Inserting
      <4> QED
        BY <4>1, <4>2, FS_EmptySet, FS_Subset, FS_CardinalityType DEF Bounded
    <3> QED
      BY <2>1, <3>1, <3>2, BoundKept DEF BoundInv
  <2>5. ~ (\E n \in Sent : inviter[n] = req[r].who /\ Usable(n))
          => Live(req[r].who) = {}
    BY DEF Live
  <2> QED
    BY <1>1, <2>3, <2>4, <2>5 DEF FindPending
<1>2. ASSUME NEW r \in Requests, NEW n \in Links, InsertInvitation(r, n)
      PROVE  BoundInv'
  <2>1. /\ \A q \in Requests \ {r} : req'[q] = req[q]
        /\ req'[r].pc = "idle" /\ req[r].pc = "inserting"
    BY <1>2 DEF InsertInvitation, Answer, Idle
  <2>2. \A i : Inserting(i)' = Inserting(i) \ {r}
    BY <2>1 DEF Inserting
  <2>3. /\ \A m \in Links \ {n} : status'[m] = status[m] /\ inviter'[m] = inviter[m]
        /\ inviter'[n] = req[r].who /\ due' = due
    BY <1>2 DEF InsertInvitation
  <2>4. ASSUME NEW i \in Inviters, i # req[r].who
        PROVE  Bounded(i)'
    <3>1. Live(i)' \subseteq Live(i)
      BY <2>3, <2>4 DEF Live, Usable, Sent
    <3> QED
      BY <2>2, <3>1, BoundKept DEF BoundInv
  <2>5. ASSUME NEW i \in Inviters, i = req[r].who
        PROVE  Bounded(i)'
    <3>1. Live(i)' \subseteq Live(i) \cup {n} /\ r \in Inserting(i)
      BY <2>1, <2>3, <2>5 DEF Live, Usable, Sent, Inserting
    <3>2. /\ IsFiniteSet(Live(i) \cup {n}) /\ Cardinality(Live(i)) \in Nat
          /\ Cardinality(Live(i) \cup {n}) <= Cardinality(Live(i)) + 1
          /\ Cardinality(Live(i) \cup {n}) \in Nat
      <4>1. IsFiniteSet(Live(i))
        BY DEF BoundInv, Bounded
      <4>2. Cardinality(Live(i)) \in Nat
        BY <4>1, FS_CardinalityType
      <4>3. /\ IsFiniteSet(Live(i) \cup {n})
            /\ Cardinality(Live(i) \cup {n})
                 \in {Cardinality(Live(i)), Cardinality(Live(i)) + 1}
        BY <4>1, FS_AddElement
      <4> QED
        BY <4>2, <4>3
    <3>3. /\ IsFiniteSet(Live(i)') /\ Cardinality(Live(i)') \in Nat
          /\ Cardinality(Live(i)') <= Cardinality(Live(i) \cup {n})
      BY <3>1, <3>2, FS_Subset, FS_CardinalityType
    <3>4. Cardinality(Inserting(i)') = Cardinality(Inserting(i)) - 1
      BY <2>2, <3>1, InsertingFinite, FS_RemoveElement
    <3>5. Cardinality(Live(i)) + Cardinality(Inserting(i)) <= Cardinality(Requests)
      BY DEF BoundInv, Bounded
    <3> QED
      BY <3>2, <3>3, <3>4, <3>5, InsertingFinite DEF Bounded
  <2> QED
    BY <2>4, <2>5 DEF BoundInv
<1>3. ASSUME \A i \in Inviters : Live(i)' \subseteq Live(i),
             \A i \in Inviters : Inserting(i)' \subseteq Inserting(i)
      PROVE  BoundInv'
  BY <1>3, BoundKept DEF BoundInv
<1>4. ASSUME NEW r \in Requests,
             \/ FindByToken(r) \/ FindDirect(r) \/ CreateDirect(r) \/ Present(r)
             \/ AcceptInvitation(r) \/ RequestDies(r)
             \/ \E i \in Inviters : Invite(r, i)
             \/ \E n \in Links : Accept(r, n)
      PROVE  BoundInv'
  <2>1. /\ \A q \in Requests \ {r} : req'[q] = req[q]
        /\ req'[r].pc # "inserting"
    <3>1. CASE FindByToken(r) \/ FindDirect(r) \/ CreateDirect(r) \/ Present(r)
      BY <3>1 DEF FindByToken, FindDirect, CreateDirect, Present, Go, Answer,
                  Idle, InFlight
    <3>2. CASE AcceptInvitation(r) \/ RequestDies(r)
      BY <3>2 DEF AcceptInvitation, Claim, RequestDies, Answer, Idle
    <3>3. CASE \/ \E i \in Inviters : Invite(r, i)
               \/ \E n \in Links : Accept(r, n)
      BY <3>3 DEF Invite, Accept, InFlight
    <3> QED
      BY <1>4, <3>1, <3>2, <3>3
  <2>2. /\ UNCHANGED <<inviter, due>>
        /\ \A n \in Links : status'[n] \in {status[n], "ACCEPTED"}
    <3>1. CASE AcceptInvitation(r)
      BY <3>1 DEF AcceptInvitation, Claim
    <3>2. CASE ~ AcceptInvitation(r)
      BY <1>4, <3>2 DEF FindByToken, FindDirect, CreateDirect, Present,
                        RequestDies, Invite, Accept, invitations
    <3> QED
      BY <3>1, <3>2
  <2>3. \A i \in Inviters : Inserting(i)' \subseteq Inserting(i)
    BY <2>1 DEF Inserting
  <2>4. \A i \in Inviters : Live(i)' \subseteq Live(i)
    BY <2>2 DEF Live, Usable, Sent
  <2> QED
    BY <1>3, <2>3, <2>4
<1>5. ASSUME \/ \E i \in Inviters : StartDirect(i)
             \/ \E n \in Links : Expire(n)
             \/ \E b \in BOOLEAN : SetActive(b)
             \/ ExpireInvitations
             \/ UNCHANGED vars
      PROVE  BoundInv'
  <2>1. /\ req' = req /\ inviter' = inviter /\ due \subseteq due'
        /\ \A n \in Links : status'[n] \in {status[n], "EXPIRED"}
    BY <1>5 DEF StartDirect, Expire, SetActive, ExpireInvitations, vars, invitations
  <2>2. \A i \in Inviters : Inserting(i)' = Inserting(i) /\ Live(i)' \subseteq Live(i)
    BY <2>1 DEF Inserting, Live, Usable, Sent
  <2> QED
    BY <1>3, <2>2
<1> QED
  BY <1>1, <1>2, <1>4, <1>5 DEF Next, CreateInvitation, Redeem

\* One inviter never has more links alive for the phone than requests run at the
\* same time, however many invitations are sent.
THEOREM LinksAreBounded == Spec => []LiveLinksBounded
<1>1. ASSUME Init
      PROVE  BoundInv
  <2>1. \A i \in Inviters : Live(i) = {}
    BY <1>1, ConstantsAssumption DEF Init, Live, Sent
  <2> QED
    BY <2>1, FS_EmptySet, InsertingFinite DEF BoundInv, Bounded
<1>2. BoundInv => LiveLinksBounded
  BY DEF BoundInv, Bounded, LiveLinksBounded
<1> QED
  BY <1>1, <1>2, LiveBoundStep, TypeCorrect, PTL DEF Spec

-----------------------------------------------------------------------------
(* Dead links.                                                             *)

LEMMA DeadStep ==
  ASSUME TypeOK, [Next]_vars, NEW n \in Links, Dead(n)
  PROVE  Dead(n)' /\ accepted'[n] = accepted[n]
<1> USE ConstantsAssumption DEF TypeOK
<1>1. ASSUME NEW r \in Requests, AcceptInvitation(r)
      PROVE  Dead(n)' /\ accepted'[n] = accepted[n]
  <2>1. ~ (/\ req[r].link = n /\ status[n] = "PENDING" /\ req[r].intime)
    BY <1>1 DEF AcceptInvitation, Claim, Dead
  <2>2. status'[n] = status[n] /\ accepted'[n] = accepted[n] /\ due' = due
    BY <1>1, <2>1 DEF AcceptInvitation, Claim
  <2>3. \A q \in Requests : req'[q] = req[q] \/ req'[q].pc = "idle"
    BY <1>1 DEF AcceptInvitation, Claim, Answer, Idle
  <2> QED
    BY <2>2, <2>3 DEF Dead
<1>2. ASSUME NEW r \in Requests, Present(r)
      PROVE  Dead(n)' /\ accepted'[n] = accepted[n]
  <2>1. UNCHANGED <<status, due, accepted>>
    BY <1>2 DEF Present, invitations
  <2>2. \A q \in Requests \ {r} : req'[q] = req[q]
    BY <1>2 DEF Present
  <2>3. req'[r].link = req[r].link /\ (req'[r].intime => req[r].link \notin due)
    BY <1>2 DEF Present, InFlight
  <2> QED
    BY <2>1, <2>2, <2>3 DEF Dead
<1>3. ASSUME UNCHANGED <<due, accepted>>, status'[n] = status[n],
             \A q \in Requests : req'[q] = req[q] \/ req'[q].pc # "claiming"
      PROVE  Dead(n)' /\ accepted'[n] = accepted[n]
  BY <1>3 DEF Dead
<1>4. ASSUME NEW r \in Requests, NEW m \in Links, InsertInvitation(r, m)
      PROVE  Dead(n)' /\ accepted'[n] = accepted[n]
  <2>1. n \in Sent
    BY DEF Dead, Sent
  <2>2. status'[n] = status[n] /\ UNCHANGED <<due, accepted>>
    BY <1>4, <2>1 DEF InsertInvitation
  <2>3. \A q \in Requests : req'[q] = req[q] \/ req'[q].pc # "claiming"
    BY <1>4 DEF InsertInvitation, Answer, Idle
  <2> QED
    BY <1>3, <2>2, <2>3
<1>5. ASSUME NEW r \in Requests,
             \/ FindPending(r) \/ FindByToken(r) \/ FindDirect(r)
             \/ CreateDirect(r) \/ RequestDies(r)
             \/ \E i \in Inviters : Invite(r, i)
             \/ \E m \in Links : Accept(r, m)
      PROVE  Dead(n)' /\ accepted'[n] = accepted[n]
  <2>1. UNCHANGED <<due, accepted, status>>
    BY <1>5 DEF FindPending, FindByToken, FindDirect, CreateDirect, RequestDies,
                Invite, Accept, invitations
  <2>2. \A q \in Requests : req'[q] = req[q] \/ req'[q].pc # "claiming"
    <3>1. CASE FindPending(r) \/ FindByToken(r) \/ FindDirect(r)
      BY <3>1 DEF FindPending, FindByToken, FindDirect, Go, Answer, Idle, InFlight
    <3>2. CASE CreateDirect(r) \/ RequestDies(r)
      BY <3>2 DEF CreateDirect, RequestDies, Go, Answer, Idle, InFlight
    <3>3. CASE \/ \E i \in Inviters : Invite(r, i)
               \/ \E m \in Links : Accept(r, m)
      BY <3>3 DEF Invite, Accept, InFlight
    <3> QED
      BY <1>5, <3>1, <3>2, <3>3
  <2> QED
    BY <1>3, <2>1, <2>2
<1>6. ASSUME \/ \E i \in Inviters : StartDirect(i)
             \/ \E m \in Links : Expire(m)
             \/ \E b \in BOOLEAN : SetActive(b)
             \/ ExpireInvitations
             \/ UNCHANGED vars
      PROVE  Dead(n)' /\ accepted'[n] = accepted[n]
  <2>1. /\ req' = req /\ accepted' = accepted /\ due \subseteq due'
        /\ status'[n] = status[n] \/ status'[n] = "EXPIRED"
    BY <1>6 DEF StartDirect, Expire, SetActive, ExpireInvitations, vars, invitations
  <2> QED
    BY <2>1 DEF Dead
<1> QED
  BY <1>1, <1>2, <1>4, <1>5, <1>6 DEF Next, CreateInvitation, Redeem

\* Used, expired or too late, a link never comes back to life and is accepted by
\* nobody any more.
THEOREM DeadIsStable == Spec => DeadLinksStayDead
<1>1. TypeOK /\ [Next]_vars
        => [\A n \in Links : Dead(n) => Dead(n)' /\ accepted'[n] = accepted[n]]_vars
  BY DeadStep
<1> QED
  BY <1>1, TypeCorrect, PTL DEF Spec, DeadLinksStayDead
=============================================================================
