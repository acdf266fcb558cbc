-------------------------- MODULE OtpSignInProofs --------------------------
(***************************************************************************)
(* Proofs about OtpSignIn, for any number of codes, any limit on attempts  *)
(* and any finite set of concurrent requests, and about OtpRequest, for    *)
(* any cooldown, daily limit and time to live.                             *)
(*                                                                         *)
(* The two modules share no variable: the theorems of each are about the   *)
(* specification of that module alone.                                     *)
(***************************************************************************)
EXTENDS OtpSignIn, OtpRequest, FiniteSetTheorems, TLAPS

USE DEF codes, user

LEMMA OtpNotNone == \A i \in Otps : i # None
BY ConstantsAssumption DEF Otps

LEMMA TypeInit == Init => TypeOK
BY ConstantsAssumption DEF Init, TypeOK, Sent, Idle

\* What the commit of a sign-in writes is well typed.
LEMMA CommitTypes ==
  ASSUME TypeOK, NEW r \in Requests, req[r].otp \in Sent, Commit(r),
         account' \in {"ACTIVE", "INACTIVE", None},
         createdBy' \in Sent \cup {None}
  PROVE  TypeOK'
<1> USE ConstantsAssumption, OtpNotNone DEF TypeOK, Sent, Idle, Commit, Answer
<1>1. Sent' = Sent
  OBVIOUS
<1>2. sessions' \in [Otps -> Nat]
  OBVIOUS
<1>3. lock' \in [Otps -> Requests \cup {None}]
  OBVIOUS
<1>4. /\ req' \in [Requests ->
           [pc : {"idle", "sending", "counting", "claiming", "claimed",
                  "creating", "updating"},
            otp : Sent \cup {None}]]
      /\ \A q \in Requests :
           req'[q].pc \in {"idle", "sending"} <=> req'[q].otp = None
  OBVIOUS
<1> QED
  BY <1>1, <1>2, <1>3, <1>4

LEMMA TypeStep ==
  ASSUME TypeOK, [Next]_vars
  PROVE  TypeOK'
<1> USE ConstantsAssumption, OtpNotNone DEF TypeOK, Sent, Idle
<1>1. ASSUME NEW r \in Requests, SignUpRequest(r)
      PROVE  TypeOK'
  BY <1>1 DEF SignUpRequest, Go
<1>2. ASSUME NEW i \in Otps, SendSignIn(i)
      PROVE  TypeOK'
  BY <1>2 DEF SendSignIn, InsertOtp
<1>3. ASSUME NEW r \in Requests, NEW i \in Otps, SendSignUp(r, i)
      PROVE  TypeOK'
  BY <1>3 DEF SendSignUp, InsertOtp, Answer
<1>4. ASSUME NEW r \in Requests, NEW i \in Otps,
             LookupMatch(r, i) \/ LookupMismatch(r, i)
      PROVE  TypeOK'
  BY <1>4 DEF LookupMatch, LookupMismatch, Accepted, LatestActive
<1>5. ASSUME NEW r \in Requests, CountAttempt(r)
      PROVE  TypeOK'
  BY <1>5 DEF CountAttempt, Answer
<1>6. ASSUME NEW r \in Requests, Claim(r)
      PROVE  TypeOK'
  BY <1>6 DEF Claim, Go, Answer
<1>7. ASSUME NEW r \in Requests, ReadUser(r)
      PROVE  TypeOK'
  <2>1. CASE Rollback(r)
    BY <2>1 DEF Rollback, Answer
  <2>2. CASE /\ req[r].pc = "claimed"
             /\ \E pc \in {"creating", "updating"} : Go(r, pc)
             /\ UNCHANGED <<codes, user, sessions, lock>>
    BY <2>2 DEF Go
  <2> QED
    BY <1>7, <2>1, <2>2 DEF ReadUser
<1>8. ASSUME NEW r \in Requests, CreateUser(r)
      PROVE  TypeOK'
  <2> DEFINE i == req[r].otp
  <2>1. i \in Sent /\ i \in Otps
    BY <1>8 DEF CreateUser
  <2>2. CASE Rollback(r) /\ UNCHANGED user
    BY <2>1, <2>2 DEF Rollback, Answer
  <2>3. CASE Commit(r) /\ account' = "ACTIVE" /\ createdBy' = i
    BY <2>1, <2>3, CommitTypes
  <2> QED
    BY <1>8, <2>2, <2>3 DEF CreateUser, Rollback
<1>9. ASSUME NEW r \in Requests, UpdateUser(r)
      PROVE  TypeOK'
  <2>1. req[r].otp \in Sent
    BY <1>9 DEF UpdateUser
  <2> QED
    BY <1>9, <2>1, CommitTypes DEF UpdateUser
<1>10. ASSUME NEW r \in Requests, RequestDies(r)
       PROVE  TypeOK'
  <2>1. CASE Rollback(r)
    BY <2>1 DEF Rollback, Answer
  <2>2. CASE Answer(r) /\ UNCHANGED <<codes, user, sessions, lock>>
    BY <2>2 DEF Answer
  <2> QED
    BY <1>10, <2>1, <2>2 DEF RequestDies
<1>11. ASSUME NEW s \in {"ACTIVE", "INACTIVE"}, SetStatus(s)
       PROVE  TypeOK'
  BY <1>11 DEF SetStatus
<1>12. ASSUME NEW i \in Otps, Expire(i)
       PROVE  TypeOK'
  BY <1>12 DEF Expire
<1>13. CASE UNCHANGED vars
  BY <1>13 DEF vars
<1> QED
  BY <1>1, <1>2, <1>3, <1>4, <1>5, <1>6, <1>7, <1>8, <1>9, <1>10, <1>11,
     <1>12, <1>13 DEF Next, Handle

\* Rows and handlers' memory stay well typed; a handler never holds a code that
\* was not sent.
THEOREM TypeCorrect == Spec => []TypeOK
BY TypeInit, TypeStep, PTL DEF Spec

-----------------------------------------------------------------------------
(* A code is consumed exactly when it signs someone in.                    *)

LEMMA ConsumedStep ==
  ASSUME TypeOK, ConsumedIffSignedIn, [Next]_vars
  PROVE  ConsumedIffSignedIn'
<1> USE ConstantsAssumption, OtpNotNone DEF TypeOK, Sent, Idle, ConsumedIffSignedIn, Claimants
<1>1. ASSUME NEW r \in Requests, SignUpRequest(r)
      PROVE  ConsumedIffSignedIn'
  BY <1>1 DEF SignUpRequest, Go
<1>0. ASSUME NEW i \in Otps, SendSignIn(i)
      PROVE  ConsumedIffSignedIn'
  BY <1>0 DEF SendSignIn, InsertOtp
<1>2. ASSUME NEW r \in Requests, NEW i \in Otps, SendSignUp(r, i)
      PROVE  ConsumedIffSignedIn'
  BY <1>2 DEF SendSignUp, InsertOtp, Answer
<1>3. ASSUME NEW r \in Requests, NEW i \in Otps,
             LookupMatch(r, i) \/ LookupMismatch(r, i)
      PROVE  ConsumedIffSignedIn'
  BY <1>3 DEF LookupMatch, LookupMismatch
<1>4. ASSUME NEW r \in Requests, CountAttempt(r)
      PROVE  ConsumedIffSignedIn'
  BY <1>4 DEF CountAttempt, Answer
<1>5. ASSUME NEW r \in Requests, Claim(r)
      PROVE  ConsumedIffSignedIn'
  BY <1>5 DEF Claim, Go, Answer
<1>6. ASSUME NEW r \in Requests, ReadUser(r)
      PROVE  ConsumedIffSignedIn'
  BY <1>6 DEF ReadUser, Rollback, Go, Answer
<1>7. ASSUME NEW r \in Requests, CreateUser(r) \/ UpdateUser(r)
      PROVE  ConsumedIffSignedIn'
  BY <1>7 DEF CreateUser, UpdateUser, Commit, Rollback, Answer
<1>8. ASSUME NEW r \in Requests, RequestDies(r)
      PROVE  ConsumedIffSignedIn'
  BY <1>8 DEF RequestDies, Rollback, Answer
<1>9. ASSUME UNCHANGED <<sessions, verified, lock, req>>
      PROVE  ConsumedIffSignedIn'
  BY <1>9
<1>10. ASSUME NEW s \in {"ACTIVE", "INACTIVE"}, SetStatus(s)
       PROVE  ConsumedIffSignedIn'
  BY <1>9, <1>10 DEF SetStatus
<1>11. ASSUME NEW i \in Otps, Expire(i)
       PROVE  ConsumedIffSignedIn'
  BY <1>9, <1>11 DEF Expire
<1>12. CASE UNCHANGED vars
  BY <1>9, <1>12 DEF vars
<1> QED
  BY <1>0, <1>1, <1>2, <1>3, <1>4, <1>5, <1>6, <1>7, <1>8, <1>10, <1>11, <1>12
  DEF Next, Handle

\* No interleaving of verify requests, rollbacks and deaths makes a code give
\* two sessions, or burns a code that gave none.
THEOREM SingleUse == Spec => []ConsumedIffSignedIn
<1>1. Init => ConsumedIffSignedIn
  BY ConstantsAssumption DEF Init, ConsumedIffSignedIn, Claimants, Otps, Idle
<1> QED
  BY <1>1, ConsumedStep, TypeCorrect, PTL DEF Spec

-----------------------------------------------------------------------------
(* A sign-up code never touches an account that exists.                    *)

\* The strengthening: a transaction that will write an account it read holds a
\* sign-in code, and the account is still there.
SignUpInv ==
  /\ SignUpNeverOverwrites
  /\ \A r \in Requests :
       req[r].pc = "updating" =>
         purpose[req[r].otp] = "SIGN_IN" /\ account # None

LEMMA SignUpStep ==
  ASSUME TypeOK, SignUpInv, [Next]_vars
  PROVE  SignUpInv'
<1> USE ConstantsAssumption, OtpNotNone
    DEF TypeOK, Sent, Idle, SignUpInv, SignUpNeverOverwrites
<1>1. ASSUME NEW r \in Requests, SignUpRequest(r)
      PROVE  SignUpInv'
  BY <1>1 DEF SignUpRequest, Go
<1>0. ASSUME NEW i \in Otps, SendSignIn(i)
      PROVE  SignUpInv'
  BY <1>0 DEF SendSignIn, InsertOtp
<1>2. ASSUME NEW r \in Requests, NEW i \in Otps, SendSignUp(r, i)
      PROVE  SignUpInv'
  BY <1>2 DEF SendSignUp, InsertOtp, Answer
<1>3. ASSUME NEW r \in Requests, NEW i \in Otps,
             LookupMatch(r, i) \/ LookupMismatch(r, i)
      PROVE  SignUpInv'
  BY <1>3 DEF LookupMatch, LookupMismatch
<1>4. ASSUME NEW r \in Requests, CountAttempt(r)
      PROVE  SignUpInv'
  BY <1>4 DEF CountAttempt, Answer
<1>5. ASSUME NEW r \in Requests, Claim(r)
      PROVE  SignUpInv'
  BY <1>5 DEF Claim, Go, Answer
<1>6. ASSUME NEW r \in Requests, ReadUser(r)
      PROVE  SignUpInv'
  BY <1>6 DEF ReadUser, Refused, Rollback, Go, Answer
<1>7. ASSUME NEW r \in Requests, CreateUser(r)
      PROVE  SignUpInv'
  BY <1>7 DEF CreateUser, Commit, Rollback, Answer
<1>8. ASSUME NEW r \in Requests, UpdateUser(r)
      PROVE  SignUpInv'
  BY <1>8 DEF UpdateUser, Commit, Answer
<1>9. ASSUME NEW r \in Requests, RequestDies(r)
      PROVE  SignUpInv'
  BY <1>9 DEF RequestDies, Rollback, Answer
<1>10. ASSUME NEW s \in {"ACTIVE", "INACTIVE"}, SetStatus(s)
       PROVE  SignUpInv'
  BY <1>10 DEF SetStatus
<1>11. ASSUME UNCHANGED <<purpose, account, createdBy, pinBy, req>>
       PROVE  SignUpInv'
  BY <1>11
<1>12. ASSUME NEW i \in Otps, Expire(i)
       PROVE  SignUpInv'
  BY <1>11, <1>12 DEF Expire
<1>13. CASE UNCHANGED vars
  BY <1>11, <1>13 DEF vars
<1> QED
  BY <1>0, <1>1, <1>2, <1>3, <1>4, <1>5, <1>6, <1>7, <1>8, <1>9, <1>10, <1>12,
     <1>13 DEF Next, Handle

\* The account's PIN comes from the code that created it or from a sign-in code,
\* for every interleaving of sign-ups and sign-ins on the phone.
THEOREM SignUpIsCreateOnly == Spec => []SignUpNeverOverwrites
<1>1. Init => SignUpInv
  BY ConstantsAssumption DEF Init, SignUpInv, SignUpNeverOverwrites, Idle
<1>2. SignUpInv => SignUpNeverOverwrites
  BY DEF SignUpInv
<1> QED
  BY <1>1, <1>2, SignUpStep, TypeCorrect, PTL DEF Spec

-----------------------------------------------------------------------------
(* The limit on attempts.                                                  *)

LEMMA UncountedFinite ==
  ASSUME NEW i
  PROVE  /\ IsFiniteSet(Uncounted(i))
         /\ Cardinality(Uncounted(i)) \in Nat
         /\ Cardinality(Uncounted(i)) <= Cardinality(Requests)
         /\ Cardinality(Requests) \in Nat
<1>1. Uncounted(i) \in SUBSET Requests
  BY DEF Uncounted
<1> QED
  BY <1>1, ConstantsAssumption, FS_Subset, FS_CardinalityType

\* A step that counts nothing and lets no new guess through keeps the bound.
LEMMA BoundKept ==
  ASSUME TypeOK, AttemptsBounded, attempts' = attempts,
         \A i \in Otps : (Uncounted(i))' \subseteq Uncounted(i)
  PROVE  AttemptsBounded'
<1> SUFFICES ASSUME NEW i \in Otps
             PROVE  attempts'[i] + Cardinality(Uncounted(i)')
                      <= MaxAttempts - 1 + Cardinality(Requests)
  BY DEF AttemptsBounded
<1>1. /\ Cardinality(Uncounted(i)') <= Cardinality(Uncounted(i))
      /\ Cardinality(Uncounted(i)') \in Nat
  BY UncountedFinite, FS_Subset, FS_CardinalityType
<1>2. attempts[i] + Cardinality(Uncounted(i))
        <= MaxAttempts - 1 + Cardinality(Requests)
  BY DEF AttemptsBounded
<1> QED
  BY <1>1, <1>2, UncountedFinite, ConstantsAssumption DEF TypeOK

LEMMA BoundStep ==
  ASSUME TypeOK, AttemptsBounded, [Next]_vars
  PROVE  AttemptsBounded'
<1> USE ConstantsAssumption DEF TypeOK
<1>1. ASSUME NEW r \in Requests, NEW i \in Otps, LookupMismatch(r, i)
      PROVE  AttemptsBounded'
  <2>1. attempts[i] <= MaxAttempts - 1 /\ attempts[i] \in Nat
    BY <1>1 DEF LookupMismatch, Accepted, HasExceededAttempts
  <2>2. attempts' = attempts
    BY <1>1 DEF LookupMismatch
  <2>3. Cardinality(Uncounted(i)') <= Cardinality(Requests)
    <3>1. Uncounted(i)' \in SUBSET Requests
      BY DEF Uncounted
    <3> QED
      BY <3>1, FS_Subset
  <2>4. Cardinality(Uncounted(i)') \in Nat /\ Cardinality(Requests) \in Nat
    <3>1. Uncounted(i)' \in SUBSET Requests
      BY DEF Uncounted
    <3> QED
      BY <3>1, FS_Subset, FS_CardinalityType
  <2>5. \A j \in Otps \ {i} : Uncounted(j)' = Uncounted(j)
    BY <1>1 DEF LookupMismatch, Uncounted, Idle
  <2> QED
    BY <2>1, <2>2, <2>3, <2>4, <2>5 DEF AttemptsBounded
<1>2. ASSUME NEW r \in Requests, CountAttempt(r),
             NEW i \in Otps, i = req[r].otp
      PROVE  AttemptsBounded'
  <2>1. r \in Uncounted(i)
    BY <1>2 DEF CountAttempt, Uncounted
  <2>2. req'[r].pc = "idle" /\ \A q \in Requests \ {r} : req'[q] = req[q]
    BY <1>2 DEF CountAttempt, Answer, Idle
  <2>3. Uncounted(i)' = Uncounted(i) \ {r}
    BY <2>2 DEF Uncounted
  <2>4. \A j \in Otps \ {i} : Uncounted(j)' = Uncounted(j)
    BY <1>2, <2>2 DEF Uncounted
  <2>5. IsFiniteSet(Uncounted(i)) /\ Cardinality(Uncounted(i)) \in Nat
    BY UncountedFinite, FS_CardinalityType
  <2>6. Cardinality(Uncounted(i)') = Cardinality(Uncounted(i)) - 1
    <3>1. Cardinality(Uncounted(i) \ {r}) = Cardinality(Uncounted(i)) - 1
      BY <2>1, <2>5, FS_RemoveElement
    <3> QED
      BY <2>3, <3>1
  <2>7. /\ attempts'[i] = attempts[i] + 1
        /\ \A j \in Otps \ {i} : attempts'[j] = attempts[j]
        /\ attempts[i] \in Nat
    BY <1>2 DEF CountAttempt
  <2>8. attempts'[i] + Cardinality(Uncounted(i)') = attempts[i] + Cardinality(Uncounted(i))
    BY <2>5, <2>6, <2>7
  <2> QED
    BY <2>4, <2>7, <2>8 DEF AttemptsBounded
<1>3. ASSUME NEW r \in Requests,
             SignUpRequest(r) \/ Claim(r) \/ ReadUser(r) \/ CreateUser(r)
               \/ UpdateUser(r) \/ RequestDies(r)
      PROVE  AttemptsBounded'
  <2>1. /\ attempts' = attempts
        /\ Answer(r) \/ \E pc \in {"sending", "claimed", "creating", "updating"} :
                            Go(r, pc)
    <3>1. CASE SignUpRequest(r) \/ Claim(r)
      BY <3>1 DEF SignUpRequest, Claim
    <3>2. CASE ReadUser(r) \/ RequestDies(r)
      BY <3>2 DEF ReadUser, RequestDies, Rollback
    <3>3. CASE CreateUser(r) \/ UpdateUser(r)
      BY <3>3 DEF CreateUser, UpdateUser, Commit, Rollback
    <3> QED
      BY <1>3, <3>1, <3>2, <3>3
  <2>2. req'[r].pc # "counting" /\ \A q \in Requests \ {r} : req'[q] = req[q]
    BY <2>1 DEF Go, Answer, Idle
  <2>3. \A i \in Otps : Uncounted(i)' \subseteq Uncounted(i)
    BY <2>2 DEF Uncounted
  <2> QED
    BY <2>1, <2>3, BoundKept
<1>4. ASSUME NEW r \in Requests, NEW i \in Otps,
             SendSignUp(r, i) \/ LookupMatch(r, i)
      PROVE  AttemptsBounded'
  <2>1. attempts' = attempts
    BY <1>4 DEF SendSignUp, InsertOtp, LookupMatch
  <2>2. req'[r].pc # "counting" /\ \A q \in Requests \ {r} : req'[q] = req[q]
    <3>1. CASE SendSignUp(r, i)
      BY <3>1 DEF SendSignUp, Answer, Idle
    <3>2. CASE LookupMatch(r, i)
      BY <3>2 DEF LookupMatch
    <3> QED
      BY <1>4, <3>1, <3>2
  <2>3. \A j \in Otps : Uncounted(j)' \subseteq Uncounted(j)
    BY <2>2 DEF Uncounted
  <2> QED
    BY <2>1, <2>3, BoundKept
<1>5. ASSUME UNCHANGED <<attempts, req>>
      PROVE  AttemptsBounded'
  BY <1>5, BoundKept DEF Uncounted
<1>6. ASSUME NEW i \in Otps, SendSignIn(i) \/ Expire(i)
      PROVE  AttemptsBounded'
  BY <1>5, <1>6 DEF SendSignIn, InsertOtp, Expire
<1>7. ASSUME NEW s \in {"ACTIVE", "INACTIVE"}, SetStatus(s)
      PROVE  AttemptsBounded'
  BY <1>5, <1>7 DEF SetStatus
<1>8. CASE UNCHANGED vars
  BY <1>5, <1>8 DEF vars
<1>9. ASSUME NEW r \in Requests, CountAttempt(r)
      PROVE  AttemptsBounded'
  <2>1. req[r].otp \in Otps
    BY <1>9, OtpNotNone DEF CountAttempt, Sent
  <2> QED
    BY <1>2, <1>9, <2>1
<1> QED
  BY <1>1, <1>3, <1>4, <1>6, <1>7, <1>8, <1>9 DEF Next, Handle

\* With n requests at a time, a code takes at most OTP_MAX_ATTEMPTS - 1 + n wrong
\* guesses: the test and the increment are two statements.
THEOREM AttemptsOverrunIsBounded == Spec => []AttemptsBounded
<1>1. Init => AttemptsBounded
  <2> SUFFICES ASSUME Init, NEW i \in Otps
               PROVE  attempts[i] + Cardinality(Uncounted(i))
                        <= MaxAttempts - 1 + Cardinality(Requests)
    BY DEF AttemptsBounded
  <2>1. attempts[i] = 0
    BY DEF Init
  <2> QED
    BY <2>1, UncountedFinite, ConstantsAssumption
<1> QED
  BY <1>1, BoundStep, TypeCorrect, PTL DEF Spec

-----------------------------------------------------------------------------
(* Suspended accounts.                                                     *)

\* A suspended account's PIN and sessions cannot be changed with any code.
THEOREM SuspensionIsFrozen == Spec => SuspendedAccountIsFrozen
<1>1. ASSUME TypeOK, [Next]_vars
      PROVE  [Frozen /\ account' = "INACTIVE"
                => Frozen' /\ UNCHANGED <<pinBy, sessions>>]_vars
  <2> SUFFICES ASSUME Frozen, account' = "INACTIVE"
               PROVE  Frozen' /\ UNCHANGED <<pinBy, sessions>>
    OBVIOUS
  <2> USE ConstantsAssumption DEF TypeOK, Frozen, Idle
  <2>1. ASSUME NEW r \in Requests, SignUpRequest(r) \/ CountAttempt(r)
        PROVE  Frozen' /\ UNCHANGED <<pinBy, sessions>>
    BY <1>1, <2>1 DEF SignUpRequest, CountAttempt, Go, Answer
  <2>2. ASSUME NEW r \in Requests, NEW i \in Otps,
               SendSignUp(r, i) \/ LookupMatch(r, i) \/ LookupMismatch(r, i)
        PROVE  Frozen' /\ UNCHANGED <<pinBy, sessions>>
    BY <1>1, <2>2 DEF SendSignUp, InsertOtp, LookupMatch, LookupMismatch, Answer
  <2>3. ASSUME NEW r \in Requests, Claim(r)
        PROVE  Frozen' /\ UNCHANGED <<pinBy, sessions>>
    BY <1>1, <2>3 DEF Claim, Go, Answer
  <2>4. ASSUME NEW r \in Requests, ReadUser(r)
        PROVE  Frozen' /\ UNCHANGED <<pinBy, sessions>>
    BY <1>1, <2>4 DEF ReadUser, Refused, Rollback, Answer
  <2>5. ASSUME NEW r \in Requests, CreateUser(r) \/ UpdateUser(r)
        PROVE  Frozen' /\ UNCHANGED <<pinBy, sessions>>
    BY <1>1, <2>5 DEF CreateUser, UpdateUser, Rollback, Answer
  <2>6. ASSUME NEW r \in Requests, RequestDies(r)
        PROVE  Frozen' /\ UNCHANGED <<pinBy, sessions>>
    BY <1>1, <2>6 DEF RequestDies, Rollback, Answer
  <2>7. ASSUME NEW i \in Otps, SendSignIn(i) \/ Expire(i)
        PROVE  Frozen' /\ UNCHANGED <<pinBy, sessions>>
    BY <2>7 DEF SendSignIn, InsertOtp, Expire
  <2>8. ASSUME NEW s \in {"ACTIVE", "INACTIVE"}, SetStatus(s)
        PROVE  Frozen' /\ UNCHANGED <<pinBy, sessions>>
    BY <2>8 DEF SetStatus
  <2>9. CASE UNCHANGED vars
    BY <2>9 DEF vars
  <2> QED
    BY <1>1, <2>1, <2>2, <2>3, <2>4, <2>5, <2>6, <2>7, <2>8, <2>9 DEF Next, Handle
<1> QED
  BY <1>1, TypeCorrect, PTL DEF Spec, SuspendedAccountIsFrozen

-----------------------------------------------------------------------------
(* OtpRequest: the inductive invariant.                                    *)

\* A handler has a row just when it is about to text its code, and no other handler
\* has that row.
OneRowEach ==
  /\ \A r \in CodeRequests : asking[r].pc = "texting" <=> asking[r].row # Null
  /\ \A r, q \in CodeRequests :
       asking[r].row # Null /\ asking[r].row = asking[q].row => r = q

\* Rows are in the order in which they were inserted, the last not after now.
InOrder ==
  /\ \A i \in DOMAIN rows : rows[i].createdAt <= clock
  /\ \A i, j \in DOMAIN rows : i <= j => rows[i].createdAt <= rows[j].createdAt

\* The handlers that can still insert a code in the cooldown of row i: they have read
\* the latest row before there was row i.
Unthrottled(i) ==
  {r \in CodeRequests :
     /\ asking[r].now < rows[i].createdAt + COOLDOWN
     /\ \/ asking[r].pc \in {"counting", "inserting"}
        \/ asking[r].pc = "signup" /\ ~ Throttled(asking[r].latest, asking[r].now)}

\* The handlers that will insert a code within a day of row i.
Counted(i) ==
  {r \in CodeRequests :
     asking[r].pc = "inserting" /\ asking[r].now < rows[i].createdAt + (DAY + 1)}

\* What is still to come counts against the limit like what is there.
BurstRoom ==
  \A i \in DOMAIN rows :
    Cardinality(Since(i, COOLDOWN)) + Cardinality(Unthrottled(i))
      <= Cardinality(CodeRequests)

DayRoom ==
  \A i \in DOMAIN rows :
    Cardinality(Since(i, DAY + 1)) + Cardinality(Counted(i))
      <= DAILY_LIMIT - 1 + Cardinality(CodeRequests)

AskIInv ==
  AskTypeOK /\ OneRowEach /\ InOrder /\ BurstRoom /\ DayRoom /\ TextsMatchCodes

\* What a handler remembers.
Asking ==
  [pc : {"idle", "latest", "signup", "counting", "inserting", "texting"},
   details : Details \cup {Null}, now : Nat, latest : Nat \cup {Null},
   row : (DOMAIN rows) \cup {Null}]

LEMMA AskingFacts ==
  ASSUME AskTypeOK, NEW r \in CodeRequests
  PROVE  /\ asking[r] \in Asking /\ asking[r].now <= clock
         /\ asking[r].pc \in {"idle", "latest", "signup", "counting", "inserting", "texting"}
         /\ asking[r].now \in Nat /\ asking[r].latest \in Nat \cup {Null}
         /\ asking[r].row \in (DOMAIN rows) \cup {Null}
         /\ asking[r].pc = "signup" => asking[r].details # Null
         /\ NotAsking \in Asking
         /\ clock \in Nat /\ rows \in Seq(Row) /\ DOMAIN rows = 1 .. Len(rows)
         /\ \A i \in DOMAIN rows : rows[i].createdAt \in Nat
<1>1. asking[r] \in Asking /\ asking[r].now <= clock /\ clock \in Nat
      /\ (asking[r].pc = "signup" => asking[r].details # Null)
  BY DEF AskTypeOK, Asking
<1>2. NotAsking \in Asking
  BY DEF NotAsking, Asking
<1>3. rows \in Seq(Row) /\ DOMAIN rows = 1 .. Len(rows)
  BY DEF AskTypeOK
<1>4. \A i \in DOMAIN rows : rows[i].createdAt \in Nat
  <2>1. \A i \in DOMAIN rows : rows[i] \in Row
    BY <1>3
  <2> QED
    BY <2>1 DEF Row
<1> QED
  BY <1>1, <1>2, <1>3, <1>4 DEF Asking

\* What an insertion does to the rows, the messages and the handlers.
LEMMA Inserted ==
  ASSUME AskTypeOK, NEW r \in CodeRequests, Insert(r)
  PROVE  LET n == Len(rows) + 1 IN
         /\ asking[r].pc = "inserting"
         /\ Len(rows') = n /\ DOMAIN rows' = DOMAIN rows \cup {n} /\ n \notin DOMAIN rows
         /\ n \in Nat /\ DOMAIN rows = 1 .. Len(rows) /\ Len(rows) \in Nat
         /\ rows' \in Seq(Row) /\ texts' \in Seq(Nat) /\ Len(texts') = n
         /\ \A i \in DOMAIN rows : rows'[i] = rows[i] /\ texts'[i] = texts[i]
         /\ rows'[n].createdAt = clock /\ texts'[n] = 0
         /\ asking' = [asking EXCEPT ![r] = asking'[r]]
         /\ asking'[r] = [pc |-> "texting", details |-> Null, now |-> 0,
                          latest |-> Null, row |-> n]
         /\ UNCHANGED <<clock, hasAccount, lost>>
<1> DEFINE n == Len(rows) + 1
           new == [details |-> asking[r].details, createdAt |-> clock,
                   expiresAt |-> asking[r].now + TTL, verified |-> FALSE]
<1>1. new \in Row
  BY AskAssumption DEF AskTypeOK, Row
<1>2. rows' = Append(rows, new) /\ texts' = Append(texts, 0)
  BY DEF Insert
<1>3. rows \in Seq(Row) /\ texts \in Seq(Nat) /\ Len(texts) = Len(rows)
  BY DEF AskTypeOK
<1>4. new.createdAt = clock
  OBVIOUS
<1> HIDE DEF new
<1>5. /\ Len(rows') = n /\ DOMAIN rows' = DOMAIN rows \cup {n} /\ n \notin DOMAIN rows
      /\ n \in Nat /\ DOMAIN rows = 1 .. Len(rows) /\ Len(rows) \in Nat
      /\ rows' \in Seq(Row) /\ rows'[n] = new
      /\ \A i \in DOMAIN rows : rows'[i] = rows[i]
  BY <1>1, <1>2, <1>3
<1>6. /\ texts' \in Seq(Nat) /\ Len(texts') = n /\ texts'[n] = 0
      /\ \A i \in DOMAIN rows : texts'[i] = texts[i]
  BY <1>2, <1>3
<1>7. /\ asking' = [asking EXCEPT ![r] = asking'[r]]
      /\ asking'[r] = [pc |-> "texting", details |-> Null, now |-> 0,
                       latest |-> Null, row |-> n]
  BY DEF Insert, NotAsking, AskTypeOK
<1> QED
  BY <1>4, <1>5, <1>6, <1>7 DEF Insert

\* What a verification does to the rows.
LEMMA Verified ==
  ASSUME AskTypeOK, NEW i \in DOMAIN rows, Verify(i)
  PROVE  /\ rows' \in Seq(Row) /\ Len(rows') = Len(rows) /\ DOMAIN rows' = DOMAIN rows
         /\ \A j \in DOMAIN rows : rows'[j].createdAt = rows[j].createdAt
         /\ UNCHANGED <<clock, asking, sms>>
<1>1. rows \in Seq(Row) /\ rows' = [rows EXCEPT ![i].verified = TRUE]
  BY DEF Verify, AskTypeOK
<1>0. rows[i] \in Row
  BY <1>1
<1>2. rows[i] \in Row /\ [rows[i] EXCEPT !.verified = TRUE] \in Row
  BY <1>0 DEF Row
<1>3. [rows[i] EXCEPT !.verified = TRUE].createdAt = rows[i].createdAt
  BY <1>2 DEF Row
<1> QED
  BY <1>1, <1>2, <1>3 DEF Verify

\* What a handler starts with.
Started(d) == [NotAsking EXCEPT !.pc = "latest", !.details = d, !.now = clock]

LEMMA StartedFacts ==
  ASSUME AskTypeOK, NEW d \in Details \cup {Null}
  PROVE  /\ Started(d) \in Asking
         /\ Started(d).pc = "latest" /\ Started(d).now = clock /\ Started(d).row = Null
  BY DEF Started, NotAsking, Asking, AskTypeOK

\* A step of handler r: its own record changes and no row does.
Moves(r, x) ==
  /\ asking' = [asking EXCEPT ![r] = x]
  /\ UNCHANGED <<clock, rows, hasAccount>>

LEMMA HandlerMoves ==
  ASSUME AskTypeOK, NEW r \in CodeRequests, NEW x \in Asking, Moves(r, x),
         x.pc = "signup" => x.details # Null, x.now <= clock,
         texts' \in Seq(Nat), Len(texts') = Len(texts), lost' \subseteq DOMAIN rows
  PROVE  AskTypeOK'
<1>1. asking' \in [CodeRequests -> Asking] /\ asking'[r] = x
  BY AskingFacts DEF AskTypeOK, Moves, Asking
<1>2. \A q \in CodeRequests :
        /\ asking'[q].pc = "signup" => asking'[q].details # Null
        /\ asking'[q].now <= clock
  BY <1>1 DEF Moves, AskTypeOK
<1> QED
  BY <1>1, <1>2 DEF Moves, AskTypeOK, Asking

\* Every step but Insert and those of the environment moves one handler.
LEMMA Moved ==
  ASSUME AskTypeOK, NEW r \in CodeRequests
  PROVE  /\ \A d \in Details \cup {Null} : Begin(r, d) =>
              Moves(r, Started(d))
         /\ ReadLatest(r) =>
              \/ Moves(r, NotAsking)
              \/ Moves(r, [asking[r] EXCEPT !.pc = "signup", !.latest = CreatedAt])
              \/ Moves(r, [asking[r] EXCEPT !.pc = "counting"])
         /\ ReadSignUp(r) =>
              Moves(r, NotAsking) \/ Moves(r, [asking[r] EXCEPT !.pc = "counting"])
         /\ Count(r) =>
              Moves(r, NotAsking) \/ Moves(r, [asking[r] EXCEPT !.pc = "inserting"])
         /\ SendSms(r) \/ SmsRefused(r) \/ AskingDies(r) => Moves(r, NotAsking)
<1>1. DOMAIN asking = CodeRequests /\ asking[r] \in Asking
  BY AskingFacts DEF AskTypeOK
<1>2. ASSUME NEW d \in Details \cup {Null}, Begin(r, d)
      PROVE  Moves(r, Started(d))
  BY <1>2 DEF Begin, Moves, Started
<1>3. ASSUME NEW pc, GoOn(r, pc)
      PROVE  asking' = [asking EXCEPT ![r] = [asking[r] EXCEPT !.pc = pc]]
  BY <1>1, <1>3 DEF GoOn
<1>4. ASSUME ReadLatest(r)
      PROVE  \/ Moves(r, NotAsking)
             \/ Moves(r, [asking[r] EXCEPT !.pc = "signup", !.latest = CreatedAt])
             \/ Moves(r, [asking[r] EXCEPT !.pc = "counting"])
  BY <1>1, <1>3, <1>4 DEF ReadLatest, Reply, Moves
<1>5. ASSUME ReadSignUp(r)
      PROVE  Moves(r, NotAsking) \/ Moves(r, [asking[r] EXCEPT !.pc = "counting"])
  BY <1>3, <1>5 DEF ReadSignUp, Reply, Moves
<1>6. ASSUME Count(r)
      PROVE  Moves(r, NotAsking) \/ Moves(r, [asking[r] EXCEPT !.pc = "inserting"])
  BY <1>3, <1>6 DEF Count, Reply, Moves
<1>7. ASSUME SendSms(r) \/ SmsRefused(r) \/ AskingDies(r)
      PROVE  Moves(r, NotAsking)
  BY <1>7 DEF SendSms, SmsRefused, AskingDies, Reply, Moves
<1> QED
  BY <1>2, <1>4, <1>5, <1>6, <1>7

LEMMA AskTypeStep ==
  ASSUME AskTypeOK, OneRowEach, [AskNext]_askVars
  PROVE  AskTypeOK'
<1> USE AskAssumption
<1>0. /\ texts \in Seq(Nat) /\ lost \subseteq DOMAIN rows /\ clock \in Nat
      /\ CreatedAt \in Nat \cup {Null}
  <2>1. rows # << >> => Len(rows) \in DOMAIN rows
    BY DEF AskTypeOK
  <2>2. \A i \in DOMAIN rows : rows[i].createdAt \in Nat
    <3>1. \A i \in DOMAIN rows : rows[i] \in Row
      BY DEF AskTypeOK
    <3> QED
      BY <3>1 DEF Row
  <2> QED
    BY <2>1, <2>2 DEF AskTypeOK, CreatedAt
<1>1. ASSUME NEW r \in CodeRequests, NEW x \in Asking, Moves(r, x), UNCHANGED sms,
             x.pc = "signup" => x.details # Null, x.now <= clock
      PROVE  AskTypeOK'
  BY <1>0, <1>1, HandlerMoves DEF sms
<1>2. ASSUME NEW r \in CodeRequests, Moves(r, NotAsking),
             texts' \in Seq(Nat), Len(texts') = Len(texts), lost' \subseteq DOMAIN rows
      PROVE  AskTypeOK'
  <2>1. NotAsking \in Asking /\ NotAsking.pc = "idle" /\ NotAsking.now <= clock
    BY <1>0, AskingFacts DEF NotAsking
  <2> QED
    BY <1>2, <2>1, HandlerMoves
<1>3. ASSUME NEW r \in CodeRequests, NEW d \in Details \cup {Null}, Begin(r, d)
      PROVE  AskTypeOK'
  <2>1. Moves(r, Started(d))
    BY <1>3, Moved
  <2>2. Started(d).now <= clock
    BY <1>0, StartedFacts, AskingFacts
  <2> QED
    BY <1>1, <1>3, <2>1, <2>2, StartedFacts DEF Begin
<1>4. ASSUME NEW r \in CodeRequests, NEW pc \in {"counting", "inserting"},
             Moves(r, [asking[r] EXCEPT !.pc = pc]), UNCHANGED sms
      PROVE  AskTypeOK'
  <2> DEFINE x == [asking[r] EXCEPT !.pc = pc]
  <2>1. x \in Asking /\ x.pc = pc /\ x.now <= clock
    BY AskingFacts DEF Asking
  <2> HIDE DEF x
  <2> QED
    BY <1>1, <1>4, <2>1 DEF x
<1>5. ASSUME NEW r \in CodeRequests, ReadLatest(r)
      PROVE  AskTypeOK'
  <2> DEFINE x == [asking[r] EXCEPT !.pc = "signup", !.latest = CreatedAt]
  <2>1. CASE asking[r].details # Null
    <3>1. x \in Asking /\ x.pc = "signup" /\ x.details # Null /\ x.now <= clock
      BY <1>0, <2>1, AskingFacts DEF Asking
    <3>2. Moves(r, x)
      BY <1>5, <2>1, AskingFacts DEF ReadLatest, Moves, AskTypeOK
    <3> HIDE DEF x
    <3> QED
      BY <1>1, <1>5, <3>1, <3>2 DEF ReadLatest
  <2>2. CASE asking[r].details = Null
    <3>1. Moves(r, NotAsking) \/ Moves(r, [asking[r] EXCEPT !.pc = "counting"])
      BY <1>5, <2>2 DEF ReadLatest, Moves, Reply, GoOn, AskTypeOK
    <3> QED
      BY <1>0, <1>2, <1>4, <1>5, <3>1 DEF ReadLatest, sms
  <2> QED
    BY <2>1, <2>2
<1>6. ASSUME NEW r \in CodeRequests, ReadSignUp(r) \/ Count(r)
      PROVE  AskTypeOK'
  <2>1. \/ Moves(r, NotAsking)
        \/ \E pc \in {"counting", "inserting"} : Moves(r, [asking[r] EXCEPT !.pc = pc])
    BY <1>6, Moved
  <2>2. UNCHANGED sms
    BY <1>6 DEF ReadSignUp, Count
  <2> QED
    BY <1>0, <1>2, <1>4, <2>1, <2>2 DEF sms
<1>7. ASSUME NEW r \in CodeRequests, Insert(r)
      PROVE  AskTypeOK'
  <2>1. asking' \in [CodeRequests ->
          [pc : {"idle", "latest", "signup", "counting", "inserting", "texting"},
           details : Details \cup {Null}, now : Nat, latest : Nat \cup {Null},
           row : (DOMAIN rows') \cup {Null}]]
    <3> DEFINE A == [pc : {"idle", "latest", "signup", "counting", "inserting", "texting"},
                     details : Details \cup {Null}, now : Nat, latest : Nat \cup {Null},
                     row : (DOMAIN rows') \cup {Null}]
    <3>1. DOMAIN rows \subseteq DOMAIN rows' /\ Len(rows) + 1 \in DOMAIN rows'
      BY <1>7, Inserted
    <3>2. Asking \subseteq A
      BY <3>1 DEF Asking
    <3>3. asking'[r] \in A
      BY <1>7, <3>1, Inserted
    <3> HIDE DEF A
    <3>4. asking \in [CodeRequests -> A]
      BY <3>2, AskingFacts DEF AskTypeOK
    <3>5. asking' = [asking EXCEPT ![r] = asking'[r]]
      BY <1>7, Inserted
    <3>6. asking' \in [CodeRequests -> A]
      BY <3>3, <3>4, <3>5
    <3> QED
      BY <3>6 DEF A
  <2>2. lost' \subseteq DOMAIN rows'
    BY <1>0, <1>7, Inserted
  <2>3. \A q \in CodeRequests :
          /\ asking'[q].pc = "signup" => asking'[q].details # Null
          /\ asking'[q].now <= clock'
    <3>1. asking'[r].pc = "texting" /\ asking'[r].now = 0 /\ clock' = clock
      BY <1>7, Inserted
    <3>2. \A q \in CodeRequests \ {r} : asking'[q] = asking[q]
      BY <1>7, Inserted DEF AskTypeOK
    <3>3. \A q \in CodeRequests \ {r} :
            asking[q].now <= clock /\ (asking[q].pc = "signup" => asking[q].details # Null)
      BY AskingFacts
    <3> QED
      BY <1>0, <3>1, <3>2, <3>3
  <2>4. /\ clock' \in Nat /\ rows' \in Seq(Row) /\ hasAccount' \in BOOLEAN
        /\ texts' \in Seq(Nat) /\ Len(texts') = Len(rows')
    BY <1>7, Inserted DEF AskTypeOK
  <2> QED
    BY <2>1, <2>2, <2>3, <2>4 DEF AskTypeOK
<1>8. ASSUME NEW r \in CodeRequests, SendSms(r)
      PROVE  AskTypeOK'
  <2>1. asking[r].row \in DOMAIN texts
    BY <1>8, AskingFacts DEF SendSms, OneRowEach, AskTypeOK
  <2>2. texts' \in Seq(Nat) /\ Len(texts') = Len(texts) /\ lost' = lost
    BY <1>0, <1>8, <2>1 DEF SendSms
  <2> QED
    BY <1>0, <1>2, <1>8, <2>2, Moved
<1>9. ASSUME NEW r \in CodeRequests, SmsRefused(r) \/ AskingDies(r)
      PROVE  AskTypeOK'
  <2>1. texts' = texts /\ lost' \subseteq DOMAIN rows
    BY <1>0, <1>9, AskingFacts DEF SmsRefused, AskingDies, OneRowEach
  <2> QED
    BY <1>0, <1>2, <1>9, <2>1, Moved
<1>10. ASSUME NEW i \in DOMAIN rows, Verify(i)
       PROVE  AskTypeOK'
  BY <1>10, Verified DEF Verify, AskTypeOK, sms
<1>11. CASE Tick
  BY <1>11 DEF Tick, AskTypeOK, sms
<1>12. CASE UNCHANGED askVars
  BY <1>12 DEF askVars, AskTypeOK, sms
<1> QED
  BY <1>3, <1>5, <1>6, <1>7, <1>8, <1>9, <1>10, <1>11, <1>12
     DEF AskNext, SmsUnanswered, SmsMisread

LEMMA OneRowStep ==
  ASSUME AskTypeOK, OneRowEach, [AskNext]_askVars
  PROVE  OneRowEach'
<1>1. ASSUME NEW r \in CodeRequests, NEW x \in Asking, Moves(r, x),
             x.pc # "texting" /\ x.row = Null
      PROVE  OneRowEach'
  <2>1. asking'[r] = x /\ \A q \in CodeRequests \ {r} : asking'[q] = asking[q]
    BY <1>1 DEF Moves, AskTypeOK
  <2> QED
    BY <1>1, <2>1 DEF OneRowEach
<1>2. ASSUME NEW r \in CodeRequests, Moves(r, NotAsking)
      PROVE  OneRowEach'
  <2>1. NotAsking \in Asking /\ NotAsking.pc # "texting" /\ NotAsking.row = Null
    BY AskingFacts DEF NotAsking
  <2> QED
    BY <1>1, <1>2, <2>1
<1>3. ASSUME NEW r \in CodeRequests, NEW d \in Details \cup {Null}, Begin(r, d)
      PROVE  OneRowEach'
  BY <1>1, <1>3, Moved, StartedFacts
<1>4. ASSUME NEW r \in CodeRequests, asking[r].pc # "texting",
             NEW pc \in {"counting", "inserting"},
             Moves(r, [asking[r] EXCEPT !.pc = pc])
      PROVE  OneRowEach'
  <2> DEFINE x == [asking[r] EXCEPT !.pc = pc]
  <2>1. x \in Asking /\ x.pc = pc /\ x.row = asking[r].row
    BY AskingFacts DEF Asking
  <2>2. asking[r].row = Null
    BY <1>4 DEF OneRowEach
  <2> HIDE DEF x
  <2> QED
    BY <1>1, <1>4, <2>1, <2>2 DEF x
<1>5. ASSUME NEW r \in CodeRequests, ReadLatest(r)
      PROVE  OneRowEach'
  <2> DEFINE x == [asking[r] EXCEPT !.pc = "signup", !.latest = CreatedAt]
  <2>1. asking[r].pc = "latest"
    BY <1>5 DEF ReadLatest
  <2>2. asking[r].row = Null
    BY <2>1 DEF OneRowEach
  <2>3. CreatedAt \in Nat \cup {Null}
    BY AskingFacts DEF CreatedAt
  <2>4. x \in Asking /\ x.pc = "signup" /\ x.row = Null
    BY <2>2, <2>3, AskingFacts DEF Asking
  <2> HIDE DEF x
  <2>5. Moves(r, NotAsking) \/ Moves(r, x) \/ Moves(r, [asking[r] EXCEPT !.pc = "counting"])
    BY <1>5, Moved DEF x
  <2> QED
    BY <1>1, <1>2, <1>4, <2>1, <2>4, <2>5
<1>6. ASSUME NEW r \in CodeRequests, ReadSignUp(r) \/ Count(r)
      PROVE  OneRowEach'
  <2>1. asking[r].pc # "texting"
    BY <1>6 DEF ReadSignUp, Count
  <2>2. \/ Moves(r, NotAsking)
        \/ \E pc \in {"counting", "inserting"} : Moves(r, [asking[r] EXCEPT !.pc = pc])
    BY <1>6, Moved
  <2> QED
    BY <1>2, <1>4, <2>1, <2>2
<1>7. ASSUME NEW r \in CodeRequests, Insert(r)
      PROVE  OneRowEach'
  <2> DEFINE n == Len(rows) + 1
  <2>1. asking'[r].pc = "texting" /\ asking'[r].row = n /\ n \notin DOMAIN rows /\ n # Null
    BY <1>7, Inserted, AskAssumption
  <2>2. \A q \in CodeRequests \ {r} : asking'[q] = asking[q]
    BY <1>7, Inserted DEF AskTypeOK
  <2>3. \A q \in CodeRequests \ {r} : asking[q].row \in (DOMAIN rows) \cup {Null}
    BY AskingFacts
  <2> HIDE DEF n
  <2> QED
    BY <2>1, <2>2, <2>3 DEF OneRowEach
<1>8. ASSUME NEW r \in CodeRequests, SendSms(r) \/ SmsRefused(r) \/ AskingDies(r)
      PROVE  OneRowEach'
  BY <1>2, <1>8, Moved
<1>9. CASE UNCHANGED asking
  BY <1>9 DEF OneRowEach
<1> QED
  BY <1>3, <1>5, <1>6, <1>7, <1>8, <1>9
     DEF AskNext, SmsUnanswered, SmsMisread, Verify, Tick, askVars

\* The rows that are about to be texted, as TextsMatchCodes has them.
Texting == {asking[r].row : r \in CodeRequests} \ {Null}

LEMMA TextsStep ==
  ASSUME AskTypeOK, OneRowEach, TextsMatchCodes, [AskNext]_askVars
  PROVE  TextsMatchCodes'
<1> DEFINE Match == /\ \A i \in DOMAIN rows :
                         texts[i] = IF i \in Texting \cup lost THEN 0 ELSE 1
                    /\ Texting \cap lost = {}
<1>1. TextsMatchCodes <=> Match
  BY DEF TextsMatchCodes, Texting
<1>2. TextsMatchCodes' <=> Match'
  BY DEF TextsMatchCodes, Texting
<1>3. ASSUME NEW r \in CodeRequests, NEW x \in Asking, Moves(r, x), UNCHANGED sms,
             x.row = Null, asking[r].pc # "texting"
      PROVE  Match'
  <2>1. asking[r].row = Null
    BY <1>3 DEF OneRowEach
  <2>2. Texting' = Texting
    BY <1>3, <2>1 DEF Texting, Moves, AskTypeOK
  <2> QED
    BY <1>1, <1>3, <2>2 DEF Moves, sms
<1>4. NotAsking \in Asking /\ NotAsking.row = Null
  BY DEF NotAsking, Asking
<1>5. ASSUME NEW r \in CodeRequests, asking[r].pc # "texting", UNCHANGED sms,
             \/ Moves(r, NotAsking)
             \/ \E pc \in {"counting", "inserting"} :
                  Moves(r, [asking[r] EXCEPT !.pc = pc])
      PROVE  Match'
  <2>1. asking[r].row = Null
    BY <1>5 DEF OneRowEach
  <2>2. \A pc \in {"counting", "inserting"} :
          /\ [asking[r] EXCEPT !.pc = pc] \in Asking
          /\ [asking[r] EXCEPT !.pc = pc].row = Null
    BY <2>1, AskingFacts DEF Asking
  <2> HIDE DEF Match
  <2> QED
    BY <1>3, <1>4, <1>5, <2>2
<1>6. ASSUME NEW r \in CodeRequests, NEW d \in Details \cup {Null}, Begin(r, d)
      PROVE  Match'
  <2>1. asking[r].pc # "texting" /\ UNCHANGED sms
    BY <1>6 DEF Begin, NotAsking
  <2> HIDE DEF Match
  <2> QED
    BY <1>3, <1>6, <2>1, Moved, StartedFacts
<1>7. ASSUME NEW r \in CodeRequests, ReadLatest(r)
      PROVE  Match'
  <2> DEFINE x == [asking[r] EXCEPT !.pc = "signup", !.latest = CreatedAt]
  <2>1. asking[r].pc = "latest" /\ UNCHANGED sms
    BY <1>7 DEF ReadLatest
  <2>2. asking[r].row = Null
    BY <2>1 DEF OneRowEach
  <2>3. CreatedAt \in Nat \cup {Null}
    BY AskingFacts DEF CreatedAt
  <2>4. x \in Asking /\ x.row = Null
    BY <2>2, <2>3, AskingFacts DEF Asking
  <2> HIDE DEF x, Match
  <2>5. Moves(r, NotAsking) \/ Moves(r, x) \/ Moves(r, [asking[r] EXCEPT !.pc = "counting"])
    BY <1>7, Moved DEF x
  <2> QED
    BY <1>3, <1>5, <2>1, <2>4, <2>5
<1>8. ASSUME NEW r \in CodeRequests, ReadSignUp(r) \/ Count(r)
      PROVE  Match'
  <2>1. asking[r].pc # "texting" /\ UNCHANGED sms
    BY <1>8 DEF ReadSignUp, Count
  <2> HIDE DEF Match
  <2> QED
    BY <1>5, <1>8, <2>1, Moved
<1>9. ASSUME NEW r \in CodeRequests, Insert(r)
      PROVE  Match'
  <2> DEFINE n == Len(rows) + 1
  <2>1. asking[r].row = Null
    BY <1>9 DEF OneRowEach, Insert
  <2>2. /\ asking'[r].row = n /\ n # Null /\ n \notin DOMAIN rows /\ lost' = lost
        /\ DOMAIN rows' = DOMAIN rows \cup {n}
        /\ \A i \in DOMAIN rows : texts'[i] = texts[i]
        /\ texts'[n] = 0
    <3>1. n \in Nat /\ n # Null
      BY <1>9, Inserted, AskAssumption
    <3>2. asking'[r].row = n /\ n \notin DOMAIN rows /\ lost' = lost
      BY <1>9, Inserted
    <3>3. /\ DOMAIN rows' = DOMAIN rows \cup {n}
          /\ \A i \in DOMAIN rows : texts'[i] = texts[i]
          /\ texts'[n] = 0
      BY <1>9, Inserted
    <3> QED
      BY <3>1, <3>2, <3>3
  <2>3. \A q \in CodeRequests \ {r} : asking'[q] = asking[q]
    BY <1>9, Inserted DEF AskTypeOK
  <2> HIDE DEF n
  <2>4. Texting' = Texting \cup {n}
    BY <2>1, <2>2, <2>3 DEF Texting
  <2>5. lost \subseteq DOMAIN rows
    BY DEF AskTypeOK
  <2> QED
    BY <1>1, <2>2, <2>4, <2>5
<1>10. ASSUME NEW r \in CodeRequests, Moves(r, NotAsking)
       PROVE  Texting' = Texting \ {asking[r].row}
  <2>1. asking'[r].row = Null /\ \A q \in CodeRequests \ {r} : asking'[q] = asking[q]
    BY <1>4, <1>10 DEF Moves, AskTypeOK
  <2>2. \A q \in CodeRequests \ {r} :
          asking[q].row # Null => asking[q].row # asking[r].row
    BY DEF OneRowEach
  <2> QED
    BY <2>1, <2>2 DEF Texting
<1>11. ASSUME NEW r \in CodeRequests, SendSms(r)
       PROVE  Match'
  <2> DEFINE n == asking[r].row
  <2>1. n # Null /\ n \in DOMAIN rows
    BY <1>11, AskingFacts DEF SendSms, OneRowEach
  <2>2. DOMAIN texts = DOMAIN rows /\ texts \in [DOMAIN rows -> Nat]
    BY DEF AskTypeOK
  <2>3. /\ texts' = [texts EXCEPT ![n] = texts[n] + 1]
        /\ rows' = rows /\ lost' = lost
    BY <1>11 DEF SendSms
  <2>4. Texting' = Texting \ {n} /\ n \in Texting
    BY <1>10, <1>11, <2>1, Moved DEF Texting
  <2> HIDE DEF n
  <2> QED
    BY <1>1, <2>1, <2>2, <2>3, <2>4
<1>12. ASSUME NEW r \in CodeRequests, SmsRefused(r) \/ AskingDies(r)
       PROVE  Match'
  <2> DEFINE n == asking[r].row
  <2>1. /\ lost' = lost \cup ({n} \ {Null})
        /\ rows' = rows /\ texts' = texts
    BY <1>12 DEF SmsRefused, AskingDies, OneRowEach
  <2>2. Texting' = Texting \ {n} /\ (n # Null => n \in Texting) /\ Null \notin Texting
    BY <1>10, <1>12, Moved DEF Texting
  <2> HIDE DEF n
  <2> QED
    BY <1>1, <2>1, <2>2
<1>13. ASSUME NEW i \in DOMAIN rows, Verify(i)
       PROVE  Match'
  BY <1>1, <1>13, Verified DEF Texting, sms
<1>14. CASE Tick \/ UNCHANGED askVars
  <2>1. UNCHANGED <<rows, asking, texts, lost>>
    BY <1>14 DEF Tick, askVars, sms
  <2>2. Texting' = Texting
    BY <2>1 DEF Texting
  <2>3. Match
    BY <1>1
  <2>4. Match' = Match
    BY <2>1, <2>2
  <2> HIDE DEF Match
  <2> QED
    BY <1>2, <2>3, <2>4
<1> HIDE DEF Match
<1> QED
  BY <1>2, <1>6, <1>7, <1>8, <1>9, <1>11, <1>12, <1>13, <1>14
     DEF AskNext, SmsUnanswered, SmsMisread

LEMMA InOrderStep ==
  ASSUME AskTypeOK, InOrder, [AskNext]_askVars
  PROVE  InOrder'
<1>1. ASSUME NEW r \in CodeRequests, Insert(r)
      PROVE  InOrder'
  <2> DEFINE n == Len(rows) + 1
  <2>1. /\ n \in Nat /\ DOMAIN rows = 1 .. Len(rows) /\ Len(rows) \in Nat
        /\ DOMAIN rows' = DOMAIN rows \cup {n}
        /\ \A i \in DOMAIN rows : rows'[i].createdAt = rows[i].createdAt
        /\ rows'[n].createdAt = clock /\ clock' = clock
    BY <1>1, Inserted
  <2>2. clock \in Nat /\ \A i \in DOMAIN rows : rows[i].createdAt \in Nat /\ i < n
    BY <2>1, AskingFacts, <1>1
  <2> QED
    BY <2>1, <2>2 DEF InOrder
<1>2. ASSUME NEW i \in DOMAIN rows, Verify(i)
      PROVE  InOrder'
  BY <1>2, Verified DEF InOrder
<1>3. CASE UNCHANGED <<rows, clock>>
  BY <1>3 DEF InOrder
<1>4. CASE Tick
  <2>1. \A i \in DOMAIN rows : rows[i] \in Row
    BY DEF AskTypeOK
  <2> QED
    BY <1>4, <2>1 DEF Tick, InOrder, AskTypeOK, Row
<1> QED
  BY <1>1, <1>2, <1>3, <1>4 DEF AskNext, Begin, ReadLatest, ReadSignUp, Count, SendSms,
     SmsUnanswered, SmsRefused, SmsMisread, AskingDies, askVars

\* The rows within d of row i are finitely many.
LEMMA SinceFacts ==
  ASSUME AskTypeOK, NEW i \in DOMAIN rows, NEW d
  PROVE  /\ Since(i, d) \subseteq DOMAIN rows
         /\ IsFiniteSet(DOMAIN rows)
         /\ IsFiniteSet(Since(i, d)) /\ Cardinality(Since(i, d)) \in Nat
<1>1. i \in 1 .. Len(rows) /\ DOMAIN rows = 1 .. Len(rows) /\ Len(rows) \in Nat
  BY DEF AskTypeOK
<1>2. Since(i, d) \subseteq 1 .. Len(rows)
  BY <1>1 DEF Since
<1>3. IsFiniteSet(1 .. Len(rows))
  BY <1>1, FS_Interval
<1> QED
  BY <1>1, <1>2, <1>3, FS_Subset, FS_CardinalityType

LEMMA HandlersAreFinite ==
  ASSUME NEW P \in SUBSET CodeRequests
  PROVE  /\ IsFiniteSet(P) /\ Cardinality(P) \in Nat
         /\ IsFiniteSet(CodeRequests) /\ Cardinality(CodeRequests) \in Nat
         /\ Cardinality(P) <= Cardinality(CodeRequests)
  BY AskAssumption, FS_Subset, FS_CardinalityType

\* A step that inserts nothing keeps the room that row i has, if no handler joins those
\* that may insert within its window.
LEMMA RoomKept ==
  ASSUME AskTypeOK, InOrder, NEW i \in DOMAIN rows, NEW d, NEW limit \in Nat,
         NEW P \in SUBSET CodeRequests, NEW Q \in SUBSET P,
         Len(rows') = Len(rows),
         \A j \in DOMAIN rows : rows'[j].createdAt = rows[j].createdAt,
         Cardinality(Since(i, d)) + Cardinality(P) <= limit
  PROVE  Cardinality(Since(i, d)') + Cardinality(Q) <= limit
<1>1. Since(i, d)' = Since(i, d)
  <2>1. i \in 1 .. Len(rows) /\ DOMAIN rows = 1 .. Len(rows) /\ Len(rows) \in Nat
    BY DEF AskTypeOK
  <2> QED
    BY <2>1 DEF Since
<1>2. /\ Cardinality(Since(i, d)) \in Nat
      /\ Cardinality(P) \in Nat /\ Cardinality(Q) \in Nat
      /\ Cardinality(Q) <= Cardinality(P)
  BY SinceFacts, HandlersAreFinite, FS_Subset
<1> QED
  BY <1>1, <1>2

\* An insertion takes its own room: the handler leaves those that may insert as its row
\* joins those in the window, or it was not one of them and its row is out of it.
LEMMA RoomTaken ==
  ASSUME AskTypeOK, InOrder, NEW i \in DOMAIN rows, NEW d \in Nat, NEW limit \in Nat,
         NEW r \in CodeRequests, Insert(r), NEW P \in SUBSET CodeRequests,
         NEW Q \in SUBSET (P \ {r}),
         r \in P \/ ~ clock < rows[i].createdAt + d,
         Cardinality(Since(i, d)) + Cardinality(P) <= limit
  PROVE  Cardinality(Since(i, d)') + Cardinality(Q) <= limit
<1> DEFINE n == Len(rows) + 1
<1>1. /\ i \in 1 .. Len(rows) /\ DOMAIN rows = 1 .. Len(rows) /\ Len(rows) \in Nat
      /\ Len(rows') = n /\ n \notin DOMAIN rows
      /\ \A j \in DOMAIN rows : rows'[j] = rows[j]
      /\ rows'[n].createdAt = clock
  BY Inserted
<1>2. Since(i, d)' = Since(i, d) \cup
                       (IF clock < rows[i].createdAt + d THEN {n} ELSE {})
  <2>1. Since(i, d)' = {j \in i .. n : rows'[j].createdAt < rows[i].createdAt + d}
    BY <1>1 DEF Since
  <2>2. i .. n = (i .. Len(rows)) \cup {n}
    BY <1>1
  <2> QED
    BY <1>1, <2>1, <2>2 DEF Since
<1>3. n \notin Since(i, d)
  BY <1>1, SinceFacts
<1>4. /\ IsFiniteSet(Since(i, d)) /\ Cardinality(Since(i, d)) \in Nat
      /\ IsFiniteSet(P) /\ Cardinality(P) \in Nat /\ Cardinality(Q) \in Nat
      /\ IsFiniteSet(P \ {r}) /\ Cardinality(P \ {r}) \in Nat
  BY SinceFacts, HandlersAreFinite
<1>5. /\ r \in P => Cardinality(P \ {r}) = Cardinality(P) - 1
      /\ r \notin P => Cardinality(P \ {r}) = Cardinality(P)
  <2>1. r \notin P => P \ {r} = P
    OBVIOUS
  <2> QED
    BY <1>4, <2>1, FS_RemoveElement
<1>6. Cardinality(Q) <= Cardinality(P \ {r})
  BY <1>4, FS_Subset
<1>7. Cardinality(Since(i, d) \cup {n}) = Cardinality(Since(i, d)) + 1
  BY <1>3, <1>4, FS_AddElement
<1> HIDE DEF n
<1>8. CASE clock < rows[i].createdAt + d
  <2>1. Since(i, d)' = Since(i, d) \cup {n} /\ r \in P
    BY <1>2, <1>8
  <2>2. Cardinality(Since(i, d)') = Cardinality(Since(i, d)) + 1
    BY <1>7, <2>1
  <2> QED
    BY <1>4, <1>5, <1>6, <2>1, <2>2
<1>9. CASE ~ clock < rows[i].createdAt + d
  <2>1. Since(i, d)' = Since(i, d)
    BY <1>2, <1>9
  <2>2. Cardinality(Since(i, d)') = Cardinality(Since(i, d))
    BY <2>1
  <2> QED
    BY <1>4, <1>5, <1>6, <2>2
<1> QED
  BY <1>8, <1>9

\* The window of a row that was just inserted has that row alone.
LEMMA RoomStarts ==
  ASSUME AskTypeOK, NEW d \in Nat \ {0}, NEW r \in CodeRequests, Insert(r)
  PROVE  /\ \A i \in DOMAIN rows' : i \notin DOMAIN rows => Cardinality(Since(i, d)') = 1
         /\ \A P \in SUBSET (CodeRequests \ {r}) :
              Cardinality(P) <= Cardinality(CodeRequests) - 1 /\ Cardinality(P) \in Nat
<1> DEFINE n == Len(rows) + 1
<1>1. n \in Nat /\ Len(rows') = n /\ rows'[n].createdAt = clock /\ clock \in Nat
  BY Inserted DEF AskTypeOK
<1>2. ASSUME NEW i \in DOMAIN rows', i \notin DOMAIN rows
      PROVE  Cardinality(Since(i, d)') = 1
  <2>1. i = n
    BY <1>2, Inserted
  <2>2. Since(i, d)' = {j \in n .. n : rows'[j].createdAt < clock + d}
    BY <1>1, <2>1 DEF Since
  <2>3. n .. n = {n} /\ clock < clock + d
    BY <1>1
  <2>4. Since(i, d)' = {n}
    BY <1>1, <2>2, <2>3
  <2> QED
    BY <2>4, FS_Singleton
<1>4. IsFiniteSet(CodeRequests) /\ Cardinality(CodeRequests) \in Nat
  BY HandlersAreFinite
<1>5. /\ IsFiniteSet(CodeRequests \ {r})
      /\ Cardinality(CodeRequests \ {r}) = Cardinality(CodeRequests) - 1
  BY <1>4, FS_RemoveElement
<1>6. \A P \in SUBSET (CodeRequests \ {r}) :
        Cardinality(P) <= Cardinality(CodeRequests \ {r}) /\ Cardinality(P) \in Nat
  BY <1>5, FS_Subset, FS_CardinalityType
<1> QED
  BY <1>2, <1>5, <1>6

\* The latest row is not older than row i: a handler that passes its cooldown is past
\* that of row i.
LEMMA LatestIsLast ==
  ASSUME AskTypeOK, InOrder, NEW i \in DOMAIN rows, NEW now \in Nat,
         ~ Throttled(CreatedAt, now)
  PROVE  ~ now < rows[i].createdAt + COOLDOWN
<1>1. DOMAIN rows = 1 .. Len(rows) /\ Len(rows) \in Nat /\ rows # << >>
  BY DEF AskTypeOK
<1>2. Len(rows) \in DOMAIN rows /\ i <= Len(rows)
  BY <1>1
<1>3. rows[i].createdAt <= rows[Len(rows)].createdAt
  BY <1>2 DEF InOrder
<1>4. rows[i].createdAt \in Nat /\ rows[Len(rows)].createdAt \in Nat
  <2>1. rows[i] \in Row /\ rows[Len(rows)] \in Row
    BY <1>2 DEF AskTypeOK
  <2> QED
    BY <2>1 DEF Row
<1> QED
  BY <1>1, <1>3, <1>4, AskAssumption DEF Throttled, CreatedAt, Cooling

LEMMA UnthrottledShrinks ==
  ASSUME AskTypeOK, InOrder, [AskNext]_askVars, NEW i \in DOMAIN rows,
         \A r \in CodeRequests : ~ Insert(r),
         rows'[i].createdAt = rows[i].createdAt
  PROVE  Unthrottled(i)' \subseteq Unthrottled(i)
<1> SUFFICES ASSUME NEW q \in CodeRequests, q \in Unthrottled(i)'
             PROVE  q \in Unthrottled(i)
  BY DEF Unthrottled
<1>1. /\ asking'[q].now < rows[i].createdAt + COOLDOWN
      /\ \/ asking'[q].pc \in {"counting", "inserting"}
         \/ asking'[q].pc = "signup" /\ ~ Throttled(asking'[q].latest, asking'[q].now)
  BY DEF Unthrottled, Throttled, Cooling
<1>2. CASE asking'[q] = asking[q]
  BY <1>1, <1>2 DEF Unthrottled
<1>3. ASSUME NEW r \in CodeRequests, NEW x, Moves(r, x)
      PROVE  (q = r /\ asking'[q] = x) \/ asking'[q] = asking[q]
  BY <1>3 DEF Moves, AskTypeOK
<1>4. asking[q] \in Asking /\ asking[q].now \in Nat
  BY AskingFacts DEF Asking
<1>5. asking'[q] # NotAsking /\ \A d \in Details \cup {Null} : asking'[q] # Started(d)
  BY <1>1, StartedFacts DEF NotAsking
<1>6. ASSUME NEW r \in CodeRequests, ReadLatest(r)
      PROVE  q \in Unthrottled(i)
  <2> DEFINE x == [asking[r] EXCEPT !.pc = "signup", !.latest = CreatedAt]
             y == [asking[r] EXCEPT !.pc = "counting"]
  <2>1. CASE q # r
    BY <1>2, <1>3, <1>6, <2>1, Moved
  <2>2. CASE q = r
    <3>1. CASE asking[q].details # Null
      <4>1. asking'[q] = x
        BY <1>6, <2>2, <3>1 DEF ReadLatest, AskTypeOK
      <4>2. x.now = asking[q].now /\ x.latest = CreatedAt /\ x.pc = "signup"
        BY <1>4, <2>2 DEF Asking
      <4> HIDE DEF x
      <4> QED
        BY <1>1, <1>4, <4>1, <4>2, LatestIsLast
    <3>2. CASE asking[q].details = Null
      <4>1. asking'[q] = y /\ ~ Throttled(CreatedAt, asking[q].now)
        BY <1>5, <1>6, <2>2, <3>2 DEF ReadLatest, Reply, GoOn, AskTypeOK
      <4>2. y.now = asking[q].now
        BY <1>4, <2>2 DEF Asking
      <4> HIDE DEF y
      <4> QED
        BY <1>1, <1>4, <4>1, <4>2, LatestIsLast
    <3> QED
      BY <3>1, <3>2
  <2> QED
    BY <2>1, <2>2
<1>7. ASSUME NEW r \in CodeRequests, ReadSignUp(r) \/ Count(r)
      PROVE  q \in Unthrottled(i)
  <2>1. CASE q # r
    BY <1>2, <1>3, <1>7, <2>1, Moved
  <2>2. CASE q = r
    <3>1. /\ \E pc \in {"counting", "inserting"} : asking'[q] = [asking[q] EXCEPT !.pc = pc]
          /\ \/ asking[q].pc = "signup" /\ ~ Throttled(asking[q].latest, asking[q].now)
             \/ asking[q].pc = "counting"
      BY <1>5, <1>7, <2>2 DEF ReadSignUp, Count, Reply, GoOn, AskTypeOK
    <3>2. asking'[q].now = asking[q].now
      BY <1>4, <3>1 DEF Asking
    <3> QED
      BY <1>1, <3>1, <3>2 DEF Unthrottled
  <2> QED
    BY <2>1, <2>2
<1>8. ASSUME NEW r \in CodeRequests, NEW d \in Details \cup {Null},
             Begin(r, d) \/ SendSms(r) \/ SmsRefused(r) \/ AskingDies(r)
      PROVE  q \in Unthrottled(i)
  BY <1>2, <1>3, <1>5, <1>8, Moved
<1> QED
  BY <1>2, <1>6, <1>7, <1>8 DEF AskNext, SmsUnanswered, SmsMisread, Verify, Tick, askVars

\* A step inserts a row, or it keeps the rows and their times.
LEMMA RowsStep ==
  ASSUME AskTypeOK, [AskNext]_askVars
  PROVE  \/ \E r \in CodeRequests : Insert(r)
         \/ /\ \A r \in CodeRequests : ~ Insert(r)
            /\ Len(rows') = Len(rows) /\ DOMAIN rows' = DOMAIN rows
            /\ \A j \in DOMAIN rows : rows'[j].createdAt = rows[j].createdAt
<1> SUFFICES ASSUME \A r \in CodeRequests : ~ Insert(r)
             PROVE  /\ Len(rows') = Len(rows) /\ DOMAIN rows' = DOMAIN rows
                    /\ \A j \in DOMAIN rows : rows'[j].createdAt = rows[j].createdAt
  OBVIOUS
<1>1. ASSUME NEW i \in DOMAIN rows, Verify(i)
      PROVE  /\ Len(rows') = Len(rows) /\ DOMAIN rows' = DOMAIN rows
             /\ \A j \in DOMAIN rows : rows'[j].createdAt = rows[j].createdAt
  BY <1>1, Verified
<1> QED
  BY <1>1 DEF AskNext, Begin, ReadLatest, ReadSignUp, Count, SendSms, SmsUnanswered,
     SmsRefused, SmsMisread, AskingDies, Tick, askVars

LEMMA BurstStep ==
  ASSUME AskTypeOK, InOrder, BurstRoom, [AskNext]_askVars
  PROVE  BurstRoom'
<1> SUFFICES ASSUME NEW i \in DOMAIN rows'
             PROVE  Cardinality(Since(i, COOLDOWN)') + Cardinality(Unthrottled(i)')
                      <= Cardinality(CodeRequests)
  BY DEF BurstRoom
<1>1. /\ Unthrottled(i) \subseteq CodeRequests /\ Unthrottled(i)' \subseteq CodeRequests
      /\ Cardinality(CodeRequests) \in Nat /\ COOLDOWN \in Nat \ {0}
  BY HandlersAreFinite, AskAssumption DEF Unthrottled
<1>2. ASSUME NEW r \in CodeRequests, Insert(r)
      PROVE  Cardinality(Since(i, COOLDOWN)') + Cardinality(Unthrottled(i)')
               <= Cardinality(CodeRequests)
  <2>1. asking'[r].pc = "texting" /\ \A q \in CodeRequests \ {r} : asking'[q] = asking[q]
    BY <1>2, Inserted DEF AskTypeOK
  <2>2. r \notin Unthrottled(i)'
    BY <2>1 DEF Unthrottled
  <2>3. CASE i \in DOMAIN rows
    <3>1. rows'[i] = rows[i]
      BY <1>2, <2>3, Inserted
    <3>2. Unthrottled(i)' \subseteq Unthrottled(i) \ {r}
      BY <1>1, <2>1, <2>2, <3>1 DEF Unthrottled, Throttled, Cooling
    <3>3. r \in Unthrottled(i) \/ ~ clock < rows[i].createdAt + COOLDOWN
      <4>1. /\ asking[r].now <= clock /\ asking[r].now \in Nat /\ clock \in Nat
            /\ asking[r].pc = "inserting" /\ rows[i].createdAt \in Nat
        BY <1>2, <2>3, AskingFacts DEF Insert
      <4> QED
        BY <1>1, <4>1 DEF Unthrottled
    <3>4. Cardinality(Since(i, COOLDOWN)) + Cardinality(Unthrottled(i))
            <= Cardinality(CodeRequests)
      BY <2>3 DEF BurstRoom
    <3> QED
      BY <1>1, <1>2, <2>3, <3>2, <3>3, <3>4, RoomTaken
  <2>4. CASE i \notin DOMAIN rows
    <3>1. Unthrottled(i)' \subseteq CodeRequests \ {r}
      BY <1>1, <2>2
    <3>2. /\ Cardinality(Since(i, COOLDOWN)') = 1
          /\ Cardinality(Unthrottled(i)') <= Cardinality(CodeRequests) - 1
          /\ Cardinality(Unthrottled(i)') \in Nat
      BY <1>1, <1>2, <2>4, <3>1, RoomStarts
    <3> QED
      BY <1>1, <3>2
  <2> QED
    BY <2>3, <2>4
<1>3. CASE /\ \A r \in CodeRequests : ~ Insert(r)
           /\ Len(rows') = Len(rows) /\ DOMAIN rows' = DOMAIN rows
           /\ \A j \in DOMAIN rows : rows'[j].createdAt = rows[j].createdAt
  <2>1. Unthrottled(i)' \subseteq Unthrottled(i)
    BY <1>3, UnthrottledShrinks
  <2>2. Cardinality(Since(i, COOLDOWN)) + Cardinality(Unthrottled(i))
          <= Cardinality(CodeRequests)
    BY <1>3 DEF BurstRoom
  <2> QED
    BY <1>1, <1>3, <2>1, <2>2, RoomKept
<1> QED
  BY <1>2, <1>3, RowsStep

\* A handler joins those that will insert a code within a day of row i only by the count
\* of the rows, and the count had that row and those after it.
LEMMA CountedStep ==
  ASSUME AskTypeOK, InOrder, [AskNext]_askVars, NEW i \in DOMAIN rows,
         \A r \in CodeRequests : ~ Insert(r),
         rows'[i].createdAt = rows[i].createdAt
  PROVE  \/ Counted(i)' \subseteq Counted(i)
         \/ Cardinality(Since(i, DAY + 1)) <= DAILY_LIMIT - 1
<1> SUFFICES ASSUME NEW q \in CodeRequests, q \in Counted(i)', q \notin Counted(i)
             PROVE  Cardinality(Since(i, DAY + 1)) <= DAILY_LIMIT - 1
  BY DEF Counted
<1>1. asking'[q].pc = "inserting" /\ asking'[q].now < rows[i].createdAt + (DAY + 1)
  BY DEF Counted
<1>2. asking[q] \in Asking /\ asking[q].now \in Nat
  BY AskingFacts DEF Asking
<1>3. asking'[q] # NotAsking /\ \A d \in Details \cup {Null} : asking'[q] # Started(d)
  BY <1>1, StartedFacts DEF NotAsking
<1>4. asking'[q] # asking[q]
  BY <1>1 DEF Counted
<1>5. ASSUME NEW r \in CodeRequests, NEW x, Moves(r, x)
      PROVE  q = r /\ asking'[q] = x
  BY <1>4, <1>5 DEF Moves, AskTypeOK
<1>6. \A pc \in {"signup", "counting"} :
        /\ asking'[q] # [asking[q] EXCEPT !.pc = pc]
        /\ asking'[q] # [asking[q] EXCEPT !.pc = pc, !.latest = CreatedAt]
  BY <1>1, <1>2 DEF Asking
<1>7. \A r \in CodeRequests : ~ ReadLatest(r) /\ ~ ReadSignUp(r)
  BY <1>3, <1>5, <1>6, Moved
<1>8. \A r \in CodeRequests, d \in Details \cup {Null} :
        ~ Begin(r, d) /\ ~ SendSms(r) /\ ~ SmsRefused(r) /\ ~ AskingDies(r)
  BY <1>3, <1>5, Moved
<1>9. PICK r \in CodeRequests : Count(r)
  BY <1>4, <1>7, <1>8 DEF AskNext, SmsUnanswered, SmsMisread, Verify, Tick, askVars
<1>10. q = r /\ asking'[q].now = asking[q].now
  <2>1. Moves(r, NotAsking) \/ Moves(r, [asking[r] EXCEPT !.pc = "inserting"])
    BY <1>9, Moved
  <2>2. q = r /\ asking'[q] = [asking[q] EXCEPT !.pc = "inserting"]
    BY <1>3, <1>5, <2>1
  <2> QED
    BY <1>2, <2>2 DEF Asking
<1>11. ~ CountSince(DayAgo(asking[q].now)) >= DAILY_LIMIT
  BY <1>3, <1>9, <1>10 DEF Count, Reply, AskTypeOK
<1> DEFINE counted == {j \in DOMAIN rows : rows[j].createdAt >= DayAgo(asking[q].now)}
<1>12. Since(i, DAY + 1) \subseteq counted
  <2>1. rows[i].createdAt >= DayAgo(asking[q].now)
    BY <1>1, <1>2, <1>10, AskingFacts, AskAssumption DEF DayAgo
  <2>2. DayAgo(asking[q].now) \in Nat
    BY <1>2, AskAssumption DEF DayAgo
  <2>3. Since(i, DAY + 1) \subseteq DOMAIN rows /\ \A j \in Since(i, DAY + 1) : i <= j
    BY SinceFacts DEF Since, AskTypeOK
  <2>4. \A j \in Since(i, DAY + 1) :
          /\ rows[i].createdAt <= rows[j].createdAt
          /\ rows[i].createdAt \in Nat /\ rows[j].createdAt \in Nat
    BY <1>2, <2>3, AskingFacts DEF InOrder
  <2> QED
    BY <2>1, <2>2, <2>3, <2>4
<1>13. IsFiniteSet(counted) /\ Cardinality(counted) \in Nat
  BY SinceFacts, FS_Subset, FS_CardinalityType
<1>14. ~ Cardinality(counted) >= DAILY_LIMIT
  BY <1>11 DEF CountSince
<1>15. Cardinality(Since(i, DAY + 1)) <= Cardinality(counted)
  BY <1>12, <1>13, FS_Subset
<1>16. Cardinality(Since(i, DAY + 1)) \in Nat
  BY SinceFacts
<1> HIDE DEF counted
<1> QED
  BY <1>13, <1>14, <1>15, <1>16, AskAssumption

LEMMA DayStep ==
  ASSUME AskTypeOK, InOrder, DayRoom, [AskNext]_askVars
  PROVE  DayRoom'
<1> DEFINE limit == DAILY_LIMIT - 1 + Cardinality(CodeRequests)
<1> SUFFICES ASSUME NEW i \in DOMAIN rows'
             PROVE  Cardinality(Since(i, DAY + 1)') + Cardinality(Counted(i)') <= limit
  BY DEF DayRoom
<1>1. /\ Counted(i) \subseteq CodeRequests /\ Counted(i)' \subseteq CodeRequests
      /\ Cardinality(CodeRequests) \in Nat /\ limit \in Nat
      /\ DAY + 1 \in Nat \ {0} /\ DAILY_LIMIT \in Nat \ {0}
  BY HandlersAreFinite, AskAssumption DEF Counted
<1>2. ASSUME NEW r \in CodeRequests, Insert(r)
      PROVE  Cardinality(Since(i, DAY + 1)') + Cardinality(Counted(i)') <= limit
  <2>1. asking'[r].pc = "texting" /\ \A q \in CodeRequests \ {r} : asking'[q] = asking[q]
    BY <1>2, Inserted DEF AskTypeOK
  <2>2. r \notin Counted(i)'
    BY <2>1 DEF Counted
  <2>3. CASE i \in DOMAIN rows
    <3>1. rows'[i] = rows[i]
      BY <1>2, <2>3, Inserted
    <3>2. Counted(i)' \subseteq Counted(i) \ {r}
      BY <1>1, <2>1, <2>2, <3>1 DEF Counted
    <3>3. r \in Counted(i) \/ ~ clock < rows[i].createdAt + (DAY + 1)
      <4>1. /\ asking[r].now <= clock /\ asking[r].now \in Nat /\ clock \in Nat
            /\ asking[r].pc = "inserting" /\ rows[i].createdAt \in Nat
        BY <1>2, <2>3, AskingFacts DEF Insert
      <4> QED
        BY <1>1, <4>1 DEF Counted
    <3>4. Cardinality(Since(i, DAY + 1)) + Cardinality(Counted(i)) <= limit
      BY <2>3 DEF DayRoom
    <3> HIDE DEF limit
    <3> QED
      BY <1>1, <1>2, <2>3, <3>2, <3>3, <3>4, RoomTaken
  <2>4. CASE i \notin DOMAIN rows
    <3>1. Counted(i)' \subseteq CodeRequests \ {r}
      BY <1>1, <2>2
    <3>2. /\ Cardinality(Since(i, DAY + 1)') = 1
          /\ Cardinality(Counted(i)') <= Cardinality(CodeRequests) - 1
          /\ Cardinality(Counted(i)') \in Nat
      BY <1>1, <1>2, <2>4, <3>1, RoomStarts
    <3> QED
      BY <1>1, <3>2
  <2> QED
    BY <2>3, <2>4
<1>3. CASE /\ \A r \in CodeRequests : ~ Insert(r)
           /\ Len(rows') = Len(rows) /\ DOMAIN rows' = DOMAIN rows
           /\ \A j \in DOMAIN rows : rows'[j].createdAt = rows[j].createdAt
  <2>1. CASE Counted(i)' \subseteq Counted(i)
    <3>1. Cardinality(Since(i, DAY + 1)) + Cardinality(Counted(i)) <= limit
      BY <1>3 DEF DayRoom
    <3> HIDE DEF limit
    <3> QED
      BY <1>1, <1>3, <2>1, <3>1, RoomKept
  <2>2. CASE Cardinality(Since(i, DAY + 1)) <= DAILY_LIMIT - 1
    <3>1. Cardinality({}) = 0 /\ {} \in SUBSET CodeRequests
      BY FS_EmptySet
    <3>2. DAILY_LIMIT - 1 \in Nat /\ Cardinality(Since(i, DAY + 1)) \in Nat
      BY <1>1, <1>3, SinceFacts
    <3>3. Cardinality(Since(i, DAY + 1)) + Cardinality({}) <= DAILY_LIMIT - 1
      BY <2>2, <3>1, <3>2
    <3>4. Cardinality(Since(i, DAY + 1)') + Cardinality({}) <= DAILY_LIMIT - 1
      BY <1>3, <3>1, <3>2, <3>3, RoomKept
    <3>5. /\ Cardinality(Counted(i)') \in Nat
          /\ Cardinality(Counted(i)') <= Cardinality(CodeRequests)
      BY <1>1, HandlersAreFinite
    <3>6. Cardinality(Since(i, DAY + 1)') \in Nat
      <4>1. Since(i, DAY + 1)' = Since(i, DAY + 1)
        BY <1>3 DEF Since, AskTypeOK
      <4> QED
        BY <3>2, <4>1
    <3> QED
      BY <1>1, <3>1, <3>2, <3>4, <3>5, <3>6
  <2> HIDE DEF limit
  <2> QED
    BY <1>3, <2>1, <2>2, CountedStep
<1> HIDE DEF limit
<1> QED
  BY <1>2, <1>3, RowsStep

\* The room of a row is at least the codes in its window.
LEMMA RoomBounds ==
  ASSUME AskTypeOK, BurstRoom, DayRoom
  PROVE  BurstBounded /\ DayBounded
<1>1. ASSUME NEW i \in DOMAIN rows
      PROVE  /\ Cardinality(Since(i, COOLDOWN)) <= Cardinality(CodeRequests)
             /\ Cardinality(Since(i, DAY + 1))
                  <= DAILY_LIMIT - 1 + Cardinality(CodeRequests)
  <2>1. /\ Unthrottled(i) \in SUBSET CodeRequests /\ Counted(i) \in SUBSET CodeRequests
        /\ DAILY_LIMIT \in Nat
    BY AskAssumption DEF Unthrottled, Counted
  <2>2. /\ Cardinality(Unthrottled(i)) \in Nat /\ Cardinality(Counted(i)) \in Nat
        /\ Cardinality(CodeRequests) \in Nat
    BY <2>1, HandlersAreFinite
  <2>3. /\ Cardinality(Since(i, COOLDOWN)) \in Nat
        /\ Cardinality(Since(i, DAY + 1)) \in Nat
    BY SinceFacts
  <2> QED
    BY <2>1, <2>2, <2>3 DEF BurstRoom, DayRoom
<1> QED
  BY <1>1 DEF BurstBounded, DayBounded

LEMMA AskIInvInit == AskInit => AskIInv
<1> SUFFICES ASSUME AskInit
             PROVE  AskIInv
  OBVIOUS
<1>1. rows = << >> /\ DOMAIN rows = {} /\ \A r \in CodeRequests : asking[r] = NotAsking
  BY DEF AskInit
<1>2. AskTypeOK
  <2>1. /\ asking \in [CodeRequests -> Asking] /\ rows \in Seq(Row) /\ texts \in Seq(Nat)
        /\ Len(texts) = Len(rows) /\ lost = {} /\ clock = 0 /\ hasAccount = FALSE
    BY DEF AskInit, NotAsking, Asking
  <2>2. \A r \in CodeRequests : asking[r].pc = "idle" /\ asking[r].now = 0
    BY <1>1 DEF NotAsking
  <2>3. \A r \in CodeRequests :
          /\ asking[r].pc = "signup" => asking[r].details # Null
          /\ asking[r].now <= clock
    BY <2>1, <2>2
  <2>4. clock \in Nat /\ hasAccount \in BOOLEAN /\ lost \subseteq DOMAIN rows
    BY <2>1
  <2> QED
    BY <2>1, <2>3, <2>4 DEF AskTypeOK, Asking
<1>3. OneRowEach /\ TextsMatchCodes
  BY <1>1 DEF AskInit, OneRowEach, TextsMatchCodes, NotAsking
<1>4. InOrder /\ BurstRoom /\ DayRoom
  BY <1>1 DEF InOrder, BurstRoom, DayRoom
<1> QED
  BY <1>2, <1>3, <1>4 DEF AskIInv

LEMMA AskIInvStep == AskIInv /\ [AskNext]_askVars => AskIInv'
BY AskTypeStep, OneRowStep, InOrderStep, BurstStep, DayStep, TextsStep DEF AskIInv

\* Every reachable state of OtpRequest satisfies the inductive invariant.
THEOREM AskingInvariant == AskSpec => []AskIInv
BY AskIInvInit, AskIInvStep, PTL DEF AskSpec

\* With n requests in flight together, a cooldown period sees at most n codes and a day
\* at most n - 1 more than the daily limit, however their reads and inserts interleave
\* (request-otp.service.ts:57-103).
THEOREM CodesAreBounded == AskSpec => []SendsBounded
<1>1. AskIInv => SendsBounded
  BY RoomBounds DEF AskIInv, SendsBounded
<1> QED
  BY <1>1, AskingInvariant, PTL

\* The codes that are counted are those that were texted or are about to be, once each,
\* but for those that the gateway or a crash lost (request-otp.service.ts:104-134).
THEOREM CountedCodesAreTexted == AskSpec => []TextsMatchCodes
<1>1. AskIInv => TextsMatchCodes
  BY DEF AskIInv
<1> QED
  BY <1>1, AskingInvariant, PTL
=============================================================================
