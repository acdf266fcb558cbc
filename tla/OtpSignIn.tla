----------------------------- MODULE OtpSignIn -----------------------------
(***************************************************************************)
(* Sign-in and sign-up with a one-time code, for one phone number: the     *)
(* verify-otp handlers against each other, against new codes being sent,   *)
(* and against the suspension of the account.                              *)
(*                                                                         *)
(* completeSignIn is an interactive transaction at READ COMMITTED.  Its    *)
(* conditional update of the code takes the row lock, the read of the      *)
(* account sees what is committed by then, and what it writes becomes      *)
(* visible at commit.  The row of users can only be inserted once: phone   *)
(* is unique, and the second insert fails after the first commits.         *)
(*                                                                         *)
(* When a code may be sent is decided in OtpRequest; here a request to     *)
(* send one is cut only where it reads the account.                        *)
(***************************************************************************)
EXTENDS Naturals, FiniteSets

CONSTANTS
  Requests,    \* HTTP requests in flight at the same time
  MaxOtps,     \* bound: codes sent to this phone
  MaxAttempts, \* OTP_MAX_ATTEMPTS
  None         \* SQL NULL

ASSUME ConstantsAssumption ==
  /\ MaxOtps \in Nat
  /\ MaxAttempts \in Nat \ {0}
  /\ IsFiniteSet(Requests)
  /\ None \notin Requests \cup Nat
  /\ None \notin {"ACTIVE", "INACTIVE", "SIGN_IN", "SIGN_UP"}

Otps == 1..MaxOtps

VARIABLES
  purpose,   \* otp_verifications.purpose, None when the row does not exist;
             \* rows are numbered in order of created_at
  attempts,  \* otp_verifications.attempts
  expired,   \* codes whose expires_at has passed
  verified,  \* codes whose verified_at is set
  account,   \* users.status of the phone's account, None while there is none
  createdBy, \* the code whose verification inserted the account
  pinBy,     \* the code whose verification last wrote users.pin_hash
  sessions,  \* sessions[i]: refresh sessions inserted by verifying code i
  lock,      \* lock[i]: the request whose transaction holds the row of code i
  req        \* what a handler remembers across its awaits

codes == <<purpose, attempts, expired, verified>>
user == <<account, createdBy, pinBy>>
vars == <<codes, user, sessions, lock, req>>

Sent == {i \in Otps : purpose[i] # None}

Idle == [pc |-> "idle", otp |-> None]

Init ==
  /\ purpose = [i \in Otps |-> None]
  /\ attempts = [i \in Otps |-> 0]
  /\ expired = {}
  /\ verified = {}
  /\ account = None
  /\ createdBy = None
  /\ pinBy = None
  /\ sessions = [i \in Otps |-> 0]
  /\ lock = [i \in Otps |-> None]
  /\ req = [r \in Requests |-> Idle]

Go(r, pc) == req' = [req EXCEPT ![r].pc = pc]
Answer(r) == req' = [req EXCEPT ![r] = Idle]

-----------------------------------------------------------------------------
(* Sending a code.                                                         *)

\* A sign-up is refused when findByPhone returns an account.
SignUpRequest(r) ==
  /\ req[r] = Idle
  /\ account = None
  /\ Go(r, "sending")
  /\ UNCHANGED <<codes, user, sessions, lock>>

InsertOtp(i, p) ==
  /\ i \notin Sent /\ 1..(i - 1) \subseteq Sent
  /\ purpose' = [purpose EXCEPT ![i] = p]
  /\ UNCHANGED <<attempts, expired, verified>>

SendSignUp(r, i) ==
  /\ req[r].pc = "sending"
  /\ InsertOtp(i, "SIGN_UP")
  /\ Answer(r)
  /\ UNCHANGED <<user, sessions, lock>>

SendSignIn(i) ==
  /\ InsertOtp(i, "SIGN_IN")
  /\ UNCHANGED <<user, sessions, lock, req>>

-----------------------------------------------------------------------------
(* Verifying a code.                                                       *)

\* findLatestActive: the newest code not verified.
LatestActive(i) == i \in Sent \ verified /\ \A j \in Sent \ verified : j <= i

HasExceededAttempts_OffByOne(i) == attempts[i] > MaxAttempts
HasExceededAttempts(i) == attempts[i] >= MaxAttempts

\* The row passes the tests on its expiry and its attempts; the route's purpose
\* is the row's, or the request is refused with no change of state.
Accepted(i) == LatestActive(i) /\ i \notin expired /\ ~ HasExceededAttempts(i)

LookupMatch(r, i) ==
  /\ req[r] = Idle
  /\ Accepted(i)
  /\ req' = [req EXCEPT ![r] = [pc |-> "claiming", otp |-> i]]
  /\ UNCHANGED <<codes, user, sessions, lock>>

LookupMismatch(r, i) ==
  /\ req[r] = Idle
  /\ Accepted(i)
  /\ req' = [req EXCEPT ![r] = [pc |-> "counting", otp |-> i]]
  /\ UNCHANGED <<codes, user, sessions, lock>>

\* incrementAttempts is one UPDATE; the row it re-reads only picks the error.
CountAttempt(r) ==
  /\ req[r].pc = "counting"
  /\ attempts' = [attempts EXCEPT ![req[r].otp] = @ + 1]
  /\ Answer(r)
  /\ UNCHANGED <<purpose, expired, verified, user, sessions, lock>>

-----------------------------------------------------------------------------
(* completeSignIn.                                                         *)

\* The transaction ends without a trace: locks go, the code is usable again.
Rollback(r) ==
  /\ lock' = [lock EXCEPT ![req[r].otp] = None]
  /\ Answer(r)
  /\ UNCHANGED <<codes, user, sessions>>

\* A claim that does not test verifiedAt.
Claim_Unconditional(r) ==
  LET i == req[r].otp IN
  /\ req[r].pc = "claiming"
  /\ lock[i] = None
  /\ lock' = [lock EXCEPT ![i] = r]
  /\ Go(r, "claimed")
  /\ UNCHANGED <<codes, user, sessions>>

\* A claim that lost is tried again for ever instead of refused.
Claim_Retries(r) ==
  LET i == req[r].otp IN
  /\ req[r].pc = "claiming"
  /\ lock[i] = None /\ i \notin verified
  /\ lock' = [lock EXCEPT ![i] = r]
  /\ Go(r, "claimed")
  /\ UNCHANGED <<codes, user, sessions>>

\* updateMany where verifiedAt is null: waits for the row, then tests it again.
Claim(r) ==
  LET i == req[r].otp IN
  /\ req[r].pc = "claiming"
  /\ lock[i] = None
  /\ \/ /\ i \notin verified
        /\ lock' = [lock EXCEPT ![i] = r]
        /\ Go(r, "claimed")
     \/ /\ i \in verified
        /\ Answer(r)
        /\ UNCHANGED lock
  /\ UNCHANGED <<codes, user, sessions>>

\* Whether the account read by the transaction makes it fail.
Refused_IgnoresStatus(i) == account # None /\ purpose[i] = "SIGN_UP"
Refused(i) ==
  \/ account # None /\ purpose[i] = "SIGN_UP"
  \/ account = "INACTIVE"

ReadUser(r) ==
  LET i == req[r].otp IN
  /\ req[r].pc = "claimed"
  /\ \/ Refused(i) /\ Rollback(r)
     \/ /\ ~ Refused(i)
        /\ Go(r, IF account = None THEN "creating" ELSE "updating")
        /\ UNCHANGED <<codes, user, sessions, lock>>

\* The account is written, the session inserted, and the transaction commits.
Commit(r) ==
  LET i == req[r].otp IN
  /\ pinBy' = i
  /\ verified' = verified \cup {i}
  /\ sessions' = [sessions EXCEPT ![i] = @ + 1]
  /\ lock' = [lock EXCEPT ![i] = None]
  /\ Answer(r)
  /\ UNCHANGED <<purpose, attempts, expired>>

CreateUser_Upserts(r) ==
  /\ req[r].pc = "creating"
  /\ account' = "ACTIVE"
  /\ createdBy' = IF account = None THEN req[r].otp ELSE createdBy
  /\ Commit(r)

CreateUser(r) ==
  /\ req[r].pc = "creating"
  /\ \/ /\ account = None
        /\ account' = "ACTIVE"
        /\ createdBy' = req[r].otp
        /\ Commit(r)
     \/ account # None /\ Rollback(r)

\* Every route that verifies a code carries a PIN or finds one on the code, so
\* an account that exists has its pin_hash written; its status is not read again.
UpdateUser(r) ==
  /\ req[r].pc = "updating"
  /\ Commit(r)
  /\ UNCHANGED <<account, createdBy>>

-----------------------------------------------------------------------------
(* Suspension, time and failures.                                          *)

SetStatus(s) ==
  /\ account # None
  /\ account' = s
  /\ UNCHANGED <<codes, createdBy, pinBy, sessions, lock, req>>

Expire(i) ==
  /\ i \in Sent
  /\ expired' = expired \cup {i}
  /\ UNCHANGED <<purpose, attempts, verified, user, sessions, lock, req>>

\* The process stops or a statement fails: an open transaction rolls back.
RequestDies(r) ==
  \/ /\ req[r].pc \in {"claimed", "creating", "updating"}
     /\ Rollback(r)
  \/ /\ req[r].pc \in {"sending", "counting", "claiming"}
     /\ Answer(r)
     /\ UNCHANGED <<codes, user, sessions, lock>>

-----------------------------------------------------------------------------
Handle(r) ==
  \/ CountAttempt(r)
  \/ Claim(r)
  \/ ReadUser(r)
  \/ CreateUser(r)
  \/ UpdateUser(r)

Next ==
  \/ \E r \in Requests :
       \/ SignUpRequest(r)
       \/ \E i \in Otps :
            SendSignUp(r, i) \/ LookupMatch(r, i) \/ LookupMismatch(r, i)
       \/ Handle(r)
       \/ RequestDies(r)
  \/ \E s \in {"ACTIVE", "INACTIVE"} : SetStatus(s)
  \/ \E i \in Otps : SendSignIn(i) \/ Expire(i)

Spec == Init /\ [][Next]_vars

\* A handler keeps running, and PostgreSQL grants a row lock in the order of
\* the requests for it, so a waiting claim is not overtaken for ever.  Sending
\* stops at the bound MaxOtps and is left out.
Fairness ==
  \A r \in Requests :
    /\ WF_vars(CountAttempt(r))
    /\ SF_vars(Claim(r))
    /\ WF_vars(ReadUser(r) \/ CreateUser(r) \/ UpdateUser(r))

FairSpec == Spec /\ Fairness

-----------------------------------------------------------------------------
(* Properties.                                                             *)

TypeOK ==
  /\ purpose \in [Otps -> {"SIGN_IN", "SIGN_UP", None}]
  /\ attempts \in [Otps -> Nat]
  /\ expired \subseteq Sent
  /\ verified \subseteq Sent
  /\ account \in {"ACTIVE", "INACTIVE", None}
  /\ createdBy \in Sent \cup {None}
  /\ pinBy \in Sent \cup {None}
  /\ sessions \in [Otps -> Nat]
  /\ lock \in [Otps -> Requests \cup {None}]
  /\ req \in [Requests ->
       [pc : {"idle", "sending", "counting", "claiming", "claimed",
              "creating", "updating"},
        otp : Sent \cup {None}]]
  /\ \A r \in Requests :
       req[r].pc \in {"idle", "sending"} <=> req[r].otp = None

\* The requests inside the transaction that claimed code i.
Claimants(i) ==
  {r \in Requests : req[r].otp = i
                    /\ req[r].pc \in {"claimed", "creating", "updating"}}

\* A code is consumed exactly when it signed someone in, once: however verify
\* requests race, roll back or die, no code yields two sessions and none is
\* lost without one (identity.repository.ts:200-257).
ConsumedIffSignedIn ==
  \A i \in Otps :
    /\ sessions[i] = IF i \in verified THEN 1 ELSE 0
    /\ \A r \in Claimants(i) : lock[i] = r /\ i \notin verified

\* A sign-up code never touches an account that exists: if the PIN in force was
\* written with a sign-up code, that code is the one that created the account.
\* The test at identity.repository.ts:214 alone does not give this.
SignUpNeverOverwrites ==
  /\ account = None <=> createdBy = None
  /\ account = None <=> pinBy = None
  /\ pinBy # None /\ purpose[pinBy] = "SIGN_UP" => pinBy = createdBy

\* Guesses that passed the limit test but are not counted yet.
Uncounted(i) == {r \in Requests : req[r].pc = "counting" /\ req[r].otp = i}

\* The limit on wrong guesses is overrun by at most the requests that run at
\* the same time (verify-otp.service.ts:84-95).
AttemptsBounded ==
  \A i \in Otps :
    attempts[i] + Cardinality(Uncounted(i)) <= MaxAttempts - 1 + Cardinality(Requests)

\* No transaction that saw the account ACTIVE is still open.
Frozen ==
  /\ account = "INACTIVE"
  /\ \A r \in Requests : req[r].pc # "updating"

\* A suspended account cannot be entered and its PIN cannot be replaced with any
\* code, old or new, until it is reactivated (identity.repository.ts:238-239).
SuspendedAccountIsFrozen ==
  [][Frozen /\ account' = "INACTIVE"
       => Frozen' /\ UNCHANGED <<pinBy, sessions>>]_vars

\* No request waits for ever for a code's row: every path of the transaction
\* lets it go.
EveryVerifyAnswered ==
  \A r \in Requests :
    req[r].pc \in {"counting", "claiming", "claimed", "creating", "updating"}
      ~> req[r].pc = "idle"

-----------------------------------------------------------------------------
(* What a test says and the code does not do.                              *)

=============================================================================
