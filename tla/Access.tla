------------------------------- MODULE Access -------------------------------
(***************************************************************************)
(* What access tokens let their holders do: the guards of HTTP handlers,   *)
(* the handshake of sockets, and the handlers that change an account.      *)
(*                                                                         *)
(* A token says what roles the account had when its row was read for it,   *)
(* and nobody asks the row again while the token lasts: neither guard, nor *)
(* the gateway, which asks the token itself only at the handshake.  The    *)
(* sessions behind a refresh are in RefreshSessions.                       *)
(***************************************************************************)
EXTENDS Naturals

CONSTANTS
  Accounts,     \* accounts
  Admins,       \* those with role ADMIN
  SignIns,      \* sign-ins and refreshes past their status test at the same time
  AccessTokens, \* access tokens that live at the same time
  Sockets,      \* sockets
  Nobody        \* no token, no user

ASSUME AccessAssumption == Admins \subseteq Accounts /\ Nobody \notin Accounts

VARIABLES
  accountStatus, \* users.status
  poster,        \* accounts with account type POSTER
  grant,         \* the user a sign-in or a refresh has found active, and the roles
                 \* of the row it has for the token
  token,         \* the claims of each live token
  sock,          \* the state of each socket and the token it came with
  known,         \* userIdBySocketId of the gateway: sockets with a user
  registry,      \* socketsByUser of the publisher: sockets with a user
  broken         \* sockets whose client left during the handshake;
                 \* history, read by properties only

account == <<accountStatus, poster>>
sockets == <<sock, known, registry, broken>>
accessVars == <<account, grant, token, sockets>>

\* toAuthRoles
Roles(u) ==
  LET own == (IF u \in Admins THEN {"admin"} ELSE {}) \cup
             (IF u \in poster THEN {"organizer_owner"} ELSE {})
  IN IF own = {} THEN {"customer"} ELSE own

Closed == [pc |-> "closed", user |-> Nobody]

AccessInit ==
  /\ accountStatus = [u \in Accounts |-> "ACTIVE"]
  /\ poster = {}
  /\ grant = [r \in SignIns |-> Nobody]
  /\ token = [t \in AccessTokens |-> Nobody]
  /\ sock = [s \in Sockets |-> Closed]
  /\ known = {} /\ registry = {} /\ broken = {}

\* AuthGuard and JwtAuthGuard, and then RolesGuard.
Authenticated(t) == token[t] # Nobody
HasRole(t, required) == Authenticated(t) /\ required \in token[t].roles

\* Sign-ins and refreshes that have found u active, and the sockets that came with a
\* token of u.
InFlight(u) == {r \in SignIns : grant[r] # Nobody /\ grant[r].user = u}
SocketsOf(u) == {s \in Sockets : sock[s].pc # "closed" /\ sock[s].user = u}

\* No token of u passes a guard or a handshake, and none will be issued.
Out(u) ==
  /\ \A t \in AccessTokens : token[t] # Nobody => token[t].user # u
  /\ InFlight(u) = {}

-----------------------------------------------------------------------------
(* Tokens.                                                                 *)

Read(pc, u) == [pc |-> pc, user |-> u, roles |-> Roles(u)]

StartGrant_Sliding(r, u) ==
  /\ grant[r] = Nobody
  /\ accountStatus[u] = "ACTIVE" \/ ~ Out(u)
  /\ grant' = [grant EXCEPT ![r] = Read("issuing", u)]
  /\ UNCHANGED <<account, token, sockets>>

\* The account is read and its status tested, and a session is written: by LoginService
\* and RefreshTokenService, and by VerifyOtpService when no PIN comes with the code.
StartGrant(r, u) ==
  /\ grant[r] = Nobody
  /\ accountStatus[u] = "ACTIVE"
  /\ grant' = [grant EXCEPT ![r] = Read("issuing", u)]
  /\ UNCHANGED <<account, token, sockets>>

BeginCodeSignIn_AnyStatus(r, u) ==
  /\ grant[r] = Nobody
  /\ grant' = [grant EXCEPT ![r] = Read("writing", u)]
  /\ UNCHANGED <<account, token, sockets>>

\* With a PIN, completeSignIn tests the status of the row it reads.
BeginCodeSignIn(r, u) ==
  /\ grant[r] = Nobody
  /\ accountStatus[u] = "ACTIVE"
  /\ grant' = [grant EXCEPT ![r] = Read("writing", u)]
  /\ UNCHANGED <<account, token, sockets>>

\* The token is for the row that the UPDATE of the PIN returns, whatever its status.
WritePin(r) ==
  /\ grant[r] # Nobody /\ grant[r].pc = "writing"
  /\ grant' = [grant EXCEPT ![r] = Read("issuing", grant[r].user)]
  /\ UNCHANGED <<account, token, sockets>>

\* A statement fails, or the session was rotated or revoked: there is no token.
GrantFails(r) ==
  /\ grant[r] # Nobody
  /\ grant' = [grant EXCEPT ![r] = Nobody]
  /\ UNCHANGED <<account, token, sockets>>

\* issueAccessToken, for the row that was read.
Issue(r, t) ==
  /\ grant[r] # Nobody /\ grant[r].pc = "issuing" /\ token[t] = Nobody
  /\ token' = [token EXCEPT ![t] = [user |-> grant[r].user, roles |-> grant[r].roles]]
  /\ grant' = [grant EXCEPT ![r] = Nobody]
  /\ UNCHANGED <<account, sockets>>

ExpireToken(t) ==
  /\ token[t] # Nobody
  /\ token' = [token EXCEPT ![t] = Nobody]
  /\ UNCHANGED <<account, grant, sockets>>

-----------------------------------------------------------------------------
(* Handlers that change an account.                                        *)

\* PATCH /users/me, with any token that lasts.
PatchMe(t) ==
  /\ Authenticated(t)
  /\ \E type \in SUBSET {token[t].user} : poster' = (poster \ {token[t].user}) \cup type
  /\ UNCHANGED <<accountStatus, grant, token, sockets>>

\* An administrator cannot suspend their own account, and may activate any.
SuspendAccount(t, u) ==
  /\ HasRole(t, "admin") /\ token[t].user # u
  /\ accountStatus' = [accountStatus EXCEPT ![u] = "INACTIVE"]
  /\ UNCHANGED <<poster, grant, token, sockets>>

ActivateAccount(t, u) ==
  /\ HasRole(t, "admin")
  /\ accountStatus' = [accountStatus EXCEPT ![u] = "ACTIVE"]
  /\ UNCHANGED <<poster, grant, token, sockets>>

-----------------------------------------------------------------------------
(* Sockets.                                                                *)

\* The middleware verifies the token, which may expire on the way.
BeginHandshake(s, t) ==
  /\ sock[s] = Closed /\ s \notin broken /\ Authenticated(t)
  /\ sock' = [sock EXCEPT ![s] = [pc |-> "verifying", user |-> token[t].user]]
  /\ UNCHANGED <<account, grant, token, known, registry, broken>>

VerifyFails(s) ==
  /\ sock[s].pc \in {"verifying", "left"}
  /\ sock' = [sock EXCEPT ![s] = Closed]
  /\ UNCHANGED <<account, grant, token, known, registry, broken>>

\* The user is noted, and the socket goes on to its connection unless it has left.
VerifyOk(s) ==
  /\ sock[s].pc \in {"verifying", "left"}
  /\ known' = known \cup {s}
  /\ sock' = [sock EXCEPT
       ![s] = IF sock[s].pc = "left" THEN Closed ELSE [@ EXCEPT !.pc = "admitted"]]
  /\ UNCHANGED <<account, grant, token, registry, broken>>

OnConnection(s) ==
  /\ sock[s].pc = "admitted"
  /\ sock' = [sock EXCEPT ![s].pc = "open"]
  /\ registry' = registry \cup {s}
  /\ UNCHANGED <<account, grant, token, known, broken>>

\* The client goes during the handshake: there is no disconnect handler yet.
Leave(s) ==
  /\ sock[s].pc \in {"verifying", "admitted"}
  /\ sock' = [sock EXCEPT
       ![s] = IF sock[s].pc = "admitted" THEN Closed ELSE [@ EXCEPT !.pc = "left"]]
  /\ broken' = broken \cup {s}
  /\ UNCHANGED <<account, grant, token, known, registry>>

Disconnect_KeepsUser(s) ==
  /\ sock[s].pc = "open"
  /\ sock' = [sock EXCEPT ![s] = Closed]
  /\ registry' = registry \ {s}
  /\ UNCHANGED <<account, grant, token, known, broken>>

Disconnect(s) ==
  /\ sock[s].pc = "open"
  /\ sock' = [sock EXCEPT ![s] = Closed]
  /\ known' = known \ {s}
  /\ registry' = registry \ {s}
  /\ UNCHANGED <<account, grant, token, broken>>

\* The process stops and comes back: requests and sockets are gone, tokens last.
Restart ==
  /\ grant' = [r \in SignIns |-> Nobody]
  /\ sock' = [s \in Sockets |-> Closed]
  /\ known' = {} /\ registry' = {} /\ broken' = {}
  /\ UNCHANGED <<account, token>>

-----------------------------------------------------------------------------
AccessNext ==
  \/ \E r \in SignIns :
       \/ \E u \in Accounts : StartGrant(r, u) \/ BeginCodeSignIn(r, u)
       \/ WritePin(r) \/ GrantFails(r)
       \/ \E t \in AccessTokens : Issue(r, t)
  \/ \E t \in AccessTokens :
       \/ ExpireToken(t) \/ PatchMe(t)
       \/ \E u \in Accounts : SuspendAccount(t, u) \/ ActivateAccount(t, u)
       \/ \E s \in Sockets : BeginHandshake(s, t)
  \/ \E s \in Sockets :
       \/ VerifyOk(s) \/ VerifyFails(s) \/ OnConnection(s) \/ Leave(s) \/ Disconnect(s)
  \/ Restart

\* Tokens expire, requests end with a token or without, and handshakes end.
Fairness ==
  /\ \A t \in AccessTokens : WF_accessVars(ExpireToken(t))
  /\ \A r \in SignIns :
       WF_accessVars(WritePin(r) \/ GrantFails(r) \/ \E t \in AccessTokens : Issue(r, t))
  /\ \A s \in Sockets : WF_accessVars(VerifyOk(s) \/ VerifyFails(s) \/ OnConnection(s))

AccessSpec == AccessInit /\ [][AccessNext]_accessVars /\ Fairness

-----------------------------------------------------------------------------
(* Properties.                                                             *)

AuthRoles == {"admin", "organizer_owner", "customer"}
Claims == [user : Accounts, roles : SUBSET AuthRoles]
Grants == [pc : {"writing", "issuing"}, user : Accounts, roles : SUBSET AuthRoles]

AccessTypeOK ==
  /\ accountStatus \in [Accounts -> {"ACTIVE", "INACTIVE"}]
  /\ poster \subseteq Accounts
  /\ grant \in [SignIns -> Grants \cup {Nobody}]
  /\ token \in [AccessTokens -> Claims \cup {Nobody}]
  /\ sock \in [Sockets -> [pc : {"closed", "verifying", "admitted", "left", "open"},
                           user : Accounts \cup {Nobody}]]
  /\ \A s \in Sockets : sock[s].pc \in {"admitted", "open"} => s \in known
  /\ known \cup registry \cup broken \subseteq Sockets

\* A suspended account whose tokens have expired, and with no request past its status
\* test, is out until it is reactivated: by none of the three ways in does it get a
\* token, and so no socket either.  No guard asks for the status, so this is all that
\* keeps it out (login.service.ts:38-69, refresh-token.service.ts:53-78,
\* identity.repository.ts:213-245, auth.guard.ts:65-88).
OutStaysOut ==
  [][\A u \in Accounts :
       accountStatus[u] = "INACTIVE" /\ Out(u) =>
         Out(u)' /\ SocketsOf(u)' \subseteq SocketsOf(u)]_accessVars

\* A suspension that lasts ends what came before it: the tokens run out and are not
\* renewed, and so do the requests and handshakes in flight.  Open sockets are all that
\* is left of the account, and they do not end: the gateway asks for no token again,
\* and serves their user for as long as the client stays
\* (chat-realtime.gateway.ts:51-63, 81-167).
AccessEnds ==
  \A u \in Accounts :
    <>[](accountStatus[u] = "INACTIVE") =>
      <>[](Out(u) /\ \A s \in SocketsOf(u) : sock[s].pc = "open")

\* The gateway and the publisher know the open sockets and no others, but for those
\* whose client left during the handshake (chat-realtime.gateway.ts:51-92).
SocketsAreForgotten ==
  /\ AccessTypeOK
  /\ registry = {s \in Sockets : sock[s].pc = "open"}
  /\ \A s \in known : sock[s].pc \in {"admitted", "open"} \/ s \in broken
=============================================================================
