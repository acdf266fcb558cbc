-------------------------- MODULE RefreshSessions --------------------------
(***************************************************************************)
(* Refresh sessions of the identity module: sign-in, refresh with          *)
(* rotation and reuse detection, logout, suspension and reactivation.      *)
(*                                                                         *)
(* One row of refresh_sessions is named by the token that it stores the    *)
(* hash of (token_hash is unique), and a family by its first token.        *)
(* A handler is cut at every await that reads or writes the database; a    *)
(* single SQL statement is one step.  rotate is a transaction of an INSERT *)
(* and an UPDATE by primary key, which no other statement can separate, so *)
(* it is one step.  setStatus is not: rows inserted after its second       *)
(* statement took its snapshot and before it commits escape it, so it is a *)
(* sweep step and a commit step.                                           *)
(***************************************************************************)
EXTENDS Naturals, FiniteSets

CONSTANTS
  Users,     \* rows of users; the accounts exist, an admin is not among them
  Tokens,    \* refresh tokens that issueRefreshToken can generate
  Requests,  \* HTTP requests in flight at the same time
  None       \* SQL NULL

ASSUME NoneAssumption == None \notin Users \cup Tokens

VARIABLES
  status,      \* users.status
  owner,       \* refresh_sessions.user_id
  family,      \* refresh_sessions.family_id, None when the row does not exist
  replacedBy,  \* refresh_sessions.replaced_by_id
  revoked,     \* rows whose revoked_at is not null
  expired,     \* rows whose expires_at has passed
  suspending,  \* users with a setStatus(INACTIVE) transaction not committed
  victims,     \* rows that transaction has found to revoke
  req          \* what a handler remembers across its awaits

rows == <<owner, family, replacedBy, revoked>>
vars == <<status, rows, expired, suspending, victims, req>>

Issued == {t \in Tokens : family[t] # None}

Idle == [pc |-> "idle", token |-> None, user |-> None]

Init ==
  /\ status = [u \in Users |-> "ACTIVE"]
  /\ owner = [t \in Tokens |-> None]
  /\ family = [t \in Tokens |-> None]
  /\ replacedBy = [t \in Tokens |-> None]
  /\ revoked = {}
  /\ expired = {}
  /\ suspending = {}
  /\ victims = [u \in Users |-> {}]
  /\ req = [r \in Requests |-> Idle]

Go(r, pc) == req' = [req EXCEPT ![r].pc = pc]
Answer(r) == req' = [req EXCEPT ![r] = Idle]

-----------------------------------------------------------------------------
(* Sign-in.  Login and OTP verification both read the account, and later   *)
(* insert the first session of a new family.                               *)

\* The account is read and found ACTIVE; the PIN or the code matched.
SignInCheck(r, u) ==
  /\ req[r] = Idle
  /\ status[u] = "ACTIVE"
  /\ req' = [req EXCEPT ![r] = [pc |-> "opening", token |-> None, user |-> u]]
  /\ UNCHANGED <<status, rows, expired, suspending, victims>>

OpenSession(r, n) ==
  /\ req[r].pc = "opening"
  /\ n \notin Issued
  /\ owner' = [owner EXCEPT ![n] = req[r].user]
  /\ family' = [family EXCEPT ![n] = n]
  /\ Answer(r)
  /\ UNCHANGED <<status, replacedBy, revoked, expired, suspending, victims>>

-----------------------------------------------------------------------------
(* Refresh.                                                                *)

IsRefreshReuse(t) == replacedBy[t] # None \/ t \in revoked

IsRefreshReusable(t) ==
  t \notin revoked /\ replacedBy[t] = None /\ t \notin expired

\* findByTokenHash, and the decision taken on that row without another await.
\* An expired row is refused with no change of state.
LookupReused(r, t) ==
  /\ req[r] = Idle
  /\ t \in Issued
  /\ IsRefreshReuse(t)
  /\ req' = [req EXCEPT ![r] = [pc |-> "revoking", token |-> t, user |-> None]]
  /\ UNCHANGED <<status, rows, expired, suspending, victims>>

LookupUsable_ExpiryOnly(r, t) ==
  /\ req[r] = Idle
  /\ t \in Issued
  /\ t \notin expired
  /\ req' = [req EXCEPT ![r] = [pc |-> "checking", token |-> t, user |-> None]]
  /\ UNCHANGED <<status, rows, expired, suspending, victims>>

LookupUsable(r, t) ==
  /\ req[r] = Idle
  /\ t \in Issued
  /\ ~ IsRefreshReuse(t)
  /\ IsRefreshReusable(t)
  /\ req' = [req EXCEPT ![r] = [pc |-> "checking", token |-> t, user |-> None]]
  /\ UNCHANGED <<status, rows, expired, suspending, victims>>

\* users.findById, then the status test.
CheckUser_IgnoresStatus(r) ==
  /\ req[r].pc = "checking"
  /\ Go(r, "rotating")
  /\ UNCHANGED <<status, rows, expired, suspending, victims>>

CheckUser(r) ==
  /\ req[r].pc = "checking"
  /\ \/ status[owner[req[r].token]] = "ACTIVE" /\ Go(r, "rotating")
     \/ status[owner[req[r].token]] # "ACTIVE" /\ Answer(r)
  /\ UNCHANGED <<status, rows, expired, suspending, victims>>

\* rotate: the new row joins the family of the old one, and the old row is
\* updated by its id alone: whatever it holds by now is overwritten.
Rotate_NewFamily(r, n) ==
  LET old == req[r].token IN
  /\ req[r].pc = "rotating"
  /\ n \notin Issued
  /\ owner' = [owner EXCEPT ![n] = owner[old]]
  /\ family' = [family EXCEPT ![n] = n]
  /\ replacedBy' = [replacedBy EXCEPT ![old] = n]
  /\ revoked' = revoked \cup {old}
  /\ Answer(r)
  /\ UNCHANGED <<status, expired, suspending, victims>>

Rotate_KeepsOld(r, n) ==
  LET old == req[r].token IN
  /\ req[r].pc = "rotating"
  /\ n \notin Issued
  /\ owner' = [owner EXCEPT ![n] = owner[old]]
  /\ family' = [family EXCEPT ![n] = family[old]]
  /\ replacedBy' = [replacedBy EXCEPT ![old] = n]
  /\ Answer(r)
  /\ UNCHANGED <<status, revoked, expired, suspending, victims>>

Rotate(r, n) ==
  LET old == req[r].token IN
  /\ req[r].pc = "rotating"
  /\ n \notin Issued
  /\ owner' = [owner EXCEPT ![n] = owner[old]]
  /\ family' = [family EXCEPT ![n] = family[old]]
  /\ replacedBy' = [replacedBy EXCEPT ![old] = n]
  /\ revoked' = revoked \cup {old}
  /\ Answer(r)
  /\ UNCHANGED <<status, expired, suspending, victims>>

-----------------------------------------------------------------------------
(* Logout, and the reaction to a reused token, revoke the whole family.    *)

LookupLogout(r, t) ==
  /\ req[r] = Idle
  /\ t \in Issued
  /\ req' = [req EXCEPT ![r] = [pc |-> "revoking", token |-> t, user |-> None]]
  /\ UNCHANGED <<status, rows, expired, suspending, victims>>

Family(f) == {t \in Tokens : family[t] = f /\ f # None}

RevokeFamily(r) ==
  /\ req[r].pc = "revoking"
  /\ revoked' = revoked \cup Family(family[req[r].token])
  /\ Answer(r)
  /\ UNCHANGED <<status, owner, family, replacedBy, expired, suspending, victims>>

-----------------------------------------------------------------------------
(* An admin suspends or reactivates the account.  The users row stays      *)
(* locked until the transaction commits, so there is one at a time.        *)

SuspendSweep(u) ==
  /\ u \notin suspending
  /\ suspending' = suspending \cup {u}
  /\ victims' = [victims EXCEPT
       ![u] = {t \in Issued : owner[t] = u /\ t \notin revoked}]
  /\ UNCHANGED <<status, rows, expired, req>>

SuspendCommit(u) ==
  /\ u \in suspending
  /\ status' = [status EXCEPT ![u] = "INACTIVE"]
  /\ revoked' = revoked \cup victims[u]
  /\ suspending' = suspending \ {u}
  /\ victims' = [victims EXCEPT ![u] = {}]
  /\ UNCHANGED <<owner, family, replacedBy, expired, req>>

Activate(u) ==
  /\ u \notin suspending
  /\ status' = [status EXCEPT ![u] = "ACTIVE"]
  /\ UNCHANGED <<rows, expired, suspending, victims, req>>

-----------------------------------------------------------------------------
(* Time and failures.                                                      *)

Expire(t) ==
  /\ t \in Issued
  /\ expired' = expired \cup {t}
  /\ UNCHANGED <<status, rows, suspending, victims, req>>

\* The database call fails or the process stops: nothing more is written.
RequestDies(r) ==
  /\ req[r] # Idle
  /\ Answer(r)
  /\ UNCHANGED <<status, rows, expired, suspending, victims>>

SuspendRollsBack(u) ==
  /\ u \in suspending
  /\ suspending' = suspending \ {u}
  /\ victims' = [victims EXCEPT ![u] = {}]
  /\ UNCHANGED <<status, rows, expired, req>>

-----------------------------------------------------------------------------
Next ==
  \/ \E r \in Requests :
       \/ \E u \in Users : SignInCheck(r, u)
       \/ \E n \in Tokens : OpenSession(r, n)
       \/ \E t \in Tokens : LookupReused(r, t)
       \/ \E t \in Tokens : LookupUsable(r, t)
       \/ CheckUser(r)
       \/ \E n \in Tokens : Rotate(r, n)
       \/ \E t \in Tokens : LookupLogout(r, t)
       \/ RevokeFamily(r)
       \/ RequestDies(r)
  \/ \E u \in Users :
       SuspendSweep(u) \/ SuspendCommit(u) \/ Activate(u) \/ SuspendRollsBack(u)
  \/ \E t \in Tokens : Expire(t)

Spec == Init /\ [][Next]_vars

-----------------------------------------------------------------------------
(* Properties.                                                             *)

TypeOK ==
  /\ status \in [Users -> {"ACTIVE", "INACTIVE"}]
  /\ owner \in [Tokens -> Users \cup {None}]
  /\ family \in [Tokens -> Tokens \cup {None}]
  /\ replacedBy \in [Tokens -> Tokens \cup {None}]
  /\ \A t \in Tokens \ Issued : replacedBy[t] = None
  /\ revoked \subseteq Issued
  /\ expired \subseteq Issued
  /\ suspending \subseteq Users
  /\ victims \in [Users -> SUBSET Issued]
  /\ req \in [Requests ->
       [pc : {"idle", "opening", "checking", "rotating", "revoking"},
        token : Issued \cup {None}, user : Users \cup {None}]]
  /\ \A r \in Requests :
       /\ req[r].pc = "opening" => req[r].user # None
       /\ req[r].pc \in {"checking", "rotating", "revoking"} => req[r].token # None

Live(t) == t \in Issued /\ t \notin revoked /\ t \notin expired

\* A token that was exchanged points at a session of the same family and user
\* and can never be exchanged again by a later request: whatever races wrote
\* the row, no row is both replaced and live, and no two rows name the same
\* successor (rotate, identity.repository.ts:283-309).
ChainSound ==
  \A t \in Issued :
    /\ family[t] \in Issued
    /\ owner[t] = owner[family[t]]
    /\ replacedBy[t] # None =>
         /\ t \in revoked
         /\ replacedBy[t] \in Issued \ {family[t]}
         /\ family[replacedBy[t]] = family[t]
    /\ \A s \in Issued :
         replacedBy[s] = replacedBy[t] /\ replacedBy[t] # None => s = t

\* A session of family f that no row names as its successor: the link to it was
\* overwritten by a second exchange of the same token.
Orphans(f) ==
  {t \in Family(f) : t # f /\ \A s \in Tokens : replacedBy[s] # t}

\* One family never has two live sessions unless a concurrent exchange of one
\* token lost a link, and then at most one more for each lost link: refreshes
\* that do not overlap keep exactly one holder (refresh-token.service.ts:27-80).
LiveSessionsBoundedByForks ==
  \A f \in Tokens :
    Cardinality({t \in Family(f) : Live(t)}) <= 1 + Cardinality(Orphans(f))

\* No live session is left in the family and no refresh that read it live is
\* still running.
Ended(f) ==
  /\ f \in Issued
  /\ \A t \in Family(f) : ~ Live(t)
  /\ \A r \in Requests :
       req[r].pc \in {"checking", "rotating"} => req[r].token \notin Family(f)

\* Once a family has ended - by logout, detected reuse, suspension or expiry -
\* and the refreshes that overlapped the end have answered, no sequence of
\* requests brings it back, reactivation of the account included
\* (refresh-token.service.ts:36-51, logout.service.ts:16-23).
EndedFamilyStaysEnded == [][\A f \in Tokens : Ended(f) => Ended(f)']_vars

\* The account is suspended, holds no live session, and no request that saw it
\* ACTIVE is still running.
LockedOut(u) ==
  /\ status[u] = "INACTIVE"
  /\ \A t \in Issued : owner[t] = u => ~ Live(t)
  /\ \A r \in Requests :
       /\ req[r].pc = "opening" => req[r].user # u
       /\ req[r].pc = "rotating" => owner[req[r].token] # u

\* A locked-out account obtains no session until an admin reactivates it, on
\* any path: login, refresh of an old token, or a refresh that had already
\* looked its row up (login.service.ts:41-46, refresh-token.service.ts:53-56).
SuspensionHolds ==
  [][\A u \in Users :
       LockedOut(u) /\ status'[u] = "INACTIVE" => LockedOut(u)']_vars

=============================================================================
