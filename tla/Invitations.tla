----------------------------- MODULE Invitations -----------------------------
(***************************************************************************)
(* Chat invitations sent to one phone number: created by people with an    *)
(* account, expired by time, and accepted by the account of the phone,     *)
(* which opens the Eventis conversation of inviter and invitee.            *)
(*                                                                         *)
(* A handler is cut at every await that reads or writes the database.  The *)
(* lookups take the clock with the query.  Accepting takes it an await     *)
(* before the update that decides, so the stamp is a step of its own.      *)
(* Nothing holds the reads and the writes of a handler together: there is  *)
(* no transaction.                                                         *)
(***************************************************************************)
EXTENDS Naturals, FiniteSets

CONSTANTS
  Inviters, \* people who invite, with ACTIVE accounts
  Links,    \* invitations, each with the token of its link
  Requests, \* HTTP requests in flight at the same time
  None      \* no row

ASSUME ConstantsAssumption ==
  /\ IsFiniteSet(Requests)
  /\ None \notin Inviters \cup Links
  /\ None \notin {"PENDING", "ACCEPTED", "EXPIRED"}

VARIABLES
  active,   \* the phone has an account, and it is ACTIVE
  status,   \* chat_invitations.status, None when the row does not exist
  inviter,  \* chat_invitations.inviter_id
  due,      \* invitations whose expires_at has passed
  direct,   \* direct[i]: conversations with the pair key of i and the invitee
  accepted, \* accepted[n]: times that n was accepted
  req       \* what a handler remembers across its awaits

invitations == <<status, inviter, due>>
vars == <<active, invitations, direct, accepted, req>>

Sent == {n \in Links : status[n] # None}

Idle == [pc |-> "idle", who |-> None, link |-> None, intime |-> FALSE]

Init ==
  /\ active = FALSE
  /\ status = [n \in Links |-> None]
  /\ inviter = [n \in Links |-> None]
  /\ due = {}
  /\ direct = [i \in Inviters |-> 0]
  /\ accepted = [n \in Links |-> 0]
  /\ req = [r \in Requests |-> Idle]

Go(r, pc) == req' = [req EXCEPT ![r].pc = pc]
Answer(r) == req' = [req EXCEPT ![r] = Idle]

\* What both lookups ask for: PENDING, and not yet expired.
Usable(n) == status[n] = "PENDING" /\ n \notin due

-----------------------------------------------------------------------------
(* createInvitation.  The policy of Eventis allows phone invitations; that *)
(* of FindLove refuses them all.                                           *)

\* The phone belongs to no ACTIVE account.
Invite(r, i) ==
  /\ req[r] = Idle
  /\ ~ active
  /\ req' = [req EXCEPT ![r].pc = "looking", ![r].who = i]
  /\ UNCHANGED <<active, invitations, direct, accepted>>

FindPending_IgnoresExpiry(r) ==
  /\ req[r].pc = "looking"
  /\ IF \E n \in Sent : /\ inviter[n] = req[r].who
                        /\ status[n] = "PENDING" /\ n \in due
       THEN Answer(r)
       ELSE Go(r, "inserting")
  /\ UNCHANGED <<active, invitations, direct, accepted>>

\* findPendingInvitation: one usable invitation of the inviter is a conflict.
FindPending(r) ==
  /\ req[r].pc = "looking"
  /\ IF \E n \in Sent : inviter[n] = req[r].who /\ Usable(n)
       THEN Answer(r)
       ELSE Go(r, "inserting")
  /\ UNCHANGED <<active, invitations, direct, accepted>>

InsertInvitation(r, n) ==
  /\ req[r].pc = "inserting"
  /\ n \notin Sent
  /\ status' = [status EXCEPT ![n] = "PENDING"]
  /\ inviter' = [inviter EXCEPT ![n] = req[r].who]
  /\ Answer(r)
  /\ UNCHANGED <<active, due, direct, accepted>>

\* listInvitations expires the invitations of every inviter before it reads.
ExpireInvitations ==
  /\ status' = [n \in Links |->
       IF status[n] = "PENDING" /\ n \in due THEN "EXPIRED" ELSE status[n]]
  /\ UNCHANGED <<active, inviter, due, direct, accepted, req>>

-----------------------------------------------------------------------------
(* acceptInvitation.                                                       *)

\* The profile of the person who accepts: an ACTIVE account with the phone.
Accept(r, n) ==
  /\ req[r] = Idle
  /\ active
  /\ req' = [req EXCEPT ![r].pc = "redeeming", ![r].link = n]
  /\ UNCHANGED <<active, invitations, direct, accepted>>

\* findInvitationByTokenHash.
FindByToken(r) ==
  /\ req[r].pc = "redeeming"
  /\ IF Usable(req[r].link) THEN Go(r, "finding") ELSE Answer(r)
  /\ UNCHANGED <<active, invitations, direct, accepted>>

Host(r) == inviter[req[r].link]

\* getOrCreateDirect: the conversation of the pair, if there is one.
FindDirect(r) ==
  /\ req[r].pc = "finding"
  /\ Go(r, IF direct[Host(r)] > 0 THEN "presenting" ELSE "creating")
  /\ UNCHANGED <<active, invitations, direct, accepted>>

\* direct_pair_key is unique: when the row is there the insert fails, and the
\* handler goes on with the row that it finds.
InsertDirect(i) ==
  direct' = IF direct[i] = 0 THEN [direct EXCEPT ![i] = 1] ELSE direct

CreateDirect(r) ==
  /\ req[r].pc = "creating"
  /\ InsertDirect(Host(r))
  /\ Go(r, "presenting")
  /\ UNCHANGED <<active, invitations, accepted>>

\* presentConversation, then the reading of the clock for the update.
Present(r) ==
  /\ req[r].pc = "presenting"
  /\ req' = [req EXCEPT ![r].pc = "claiming", ![r].intime = req[r].link \notin due]
  /\ UNCHANGED <<active, invitations, direct, accepted>>

Claim(r, wins) ==
  LET n == req[r].link IN
  /\ req[r].pc = "claiming"
  /\ IF wins
       THEN /\ status' = [status EXCEPT ![n] = "ACCEPTED"]
            /\ accepted' = [accepted EXCEPT ![n] = @ + 1]
       ELSE UNCHANGED <<status, accepted>>
  /\ Answer(r)
  /\ UNCHANGED <<active, inviter, due, direct>>

AcceptInvitation_ById(r) == Claim(r, req[r].intime)

AcceptInvitation_AnyTime(r) == Claim(r, status[req[r].link] = "PENDING")

\* updateMany where the invitation is PENDING and expires after the stamp.
AcceptInvitation(r) ==
  Claim(r, status[req[r].link] = "PENDING" /\ req[r].intime)

-----------------------------------------------------------------------------
(* The other actors.                                                       *)

\* createConversation, by one of the two on the ground of an event.
StartDirect(i) ==
  /\ active
  /\ InsertDirect(i)
  /\ UNCHANGED <<active, invitations, accepted, req>>

\* The phone signs up, is suspended, or is activated again.
SetActive(b) ==
  /\ active' = b
  /\ UNCHANGED <<invitations, direct, accepted, req>>

Expire(n) ==
  /\ n \in Sent
  /\ due' = due \cup {n}
  /\ UNCHANGED <<active, status, inviter, direct, accepted, req>>

\* The process stops or a statement fails: what is written stays.
RequestDies(r) ==
  /\ req[r] # Idle
  /\ Answer(r)
  /\ UNCHANGED <<active, invitations, direct, accepted>>

-----------------------------------------------------------------------------
CreateInvitation(r) ==
  FindPending(r) \/ \E n \in Links : InsertInvitation(r, n)

Redeem(r) ==
  \/ FindByToken(r)
  \/ FindDirect(r) \/ CreateDirect(r)
  \/ Present(r)
  \/ AcceptInvitation(r)

Next ==
  \/ \E r \in Requests :
       \/ \E i \in Inviters : Invite(r, i)
       \/ \E n \in Links : Accept(r, n)
       \/ CreateInvitation(r)
       \/ Redeem(r)
       \/ RequestDies(r)
  \/ \E i \in Inviters : StartDirect(i)
  \/ \E n \in Links : Expire(n)
  \/ \E b \in BOOLEAN : SetActive(b)
  \/ ExpireInvitations

Spec == Init /\ [][Next]_vars

-----------------------------------------------------------------------------
(* Properties.                                                             *)

InFlight ==
  [pc : {"idle", "looking", "inserting", "redeeming", "finding", "creating",
         "presenting", "claiming"},
   who : Inviters \cup {None},
   link : Links \cup {None},
   intime : BOOLEAN]

Admitted == {"finding", "creating", "presenting", "claiming"}

TypeOK ==
  /\ active \in BOOLEAN
  /\ status \in [Links -> {"PENDING", "ACCEPTED", "EXPIRED", None}]
  /\ inviter \in [Links -> Inviters \cup {None}]
  /\ \A n \in Links : inviter[n] = None <=> status[n] = None
  /\ due \subseteq Sent
  /\ direct \in [Inviters -> Nat]
  /\ accepted \in [Links -> Nat]
  /\ req \in [Requests -> InFlight]
  /\ \A r \in Requests :
       /\ req[r].pc \in {"looking", "inserting"} => req[r].who # None
       /\ req[r].pc = "redeeming" => req[r].link # None
       /\ req[r].pc \in Admitted => req[r].link \in Sent

\* A link works once: however many requests present it at the same time, and
\* whatever expires it meanwhile (chat.repository.ts:416-422; "single-use deep
\* link", docs/api-reference.md:98-99).
SingleUse ==
  \A n \in Links : accepted[n] = IF status[n] = "ACCEPTED" THEN 1 ELSE 0

\* An accepted invitation always has its conversation, and the pair has only
\* one, whoever else creates it: the handler opens it first and claims the link
\* last, so no failure in between burns a link for nothing
\* (chat.service.ts:689-697, 908-935).
AcceptedHasConversation ==
  /\ \A i \in Inviters : direct[i] <= 1
  /\ \A n \in Links : status[n] = "ACCEPTED" => direct[inviter[n]] = 1

Live(i) == {n \in Sent : inviter[n] = i /\ Usable(n)}
Inserting(i) == {r \in Requests : req[r].pc = "inserting" /\ req[r].who = i}

\* "Already pending" is a check apart from the insert: one inviter can have more
\* than one link alive for the phone, but never more than requests run at the
\* same time (chat.service.ts:642-662).
LiveLinksBounded ==
  \A i \in Inviters :
    Cardinality(Live(i)) + Cardinality(Inserting(i)) <= Cardinality(Requests)

\* Too late: used, expired, or due with no request that took its stamp in time.
Dead(n) ==
  \/ status[n] \in {"ACCEPTED", "EXPIRED"}
  \/ /\ n \in due
     /\ \A r \in Requests :
          ~ (req[r].pc = "claiming" /\ req[r].link = n /\ req[r].intime)

\* A dead link stays dead: no retry, suspension, new account or slow request
\* brings it back (chat.repository.ts:402-422, 443-448).
DeadLinksStayDead ==
  [][\A n \in Links : Dead(n) => Dead(n)' /\ accepted'[n] = accepted[n]]_vars
=============================================================================
