----------------------------- MODULE OtpRequest -----------------------------
(***************************************************************************)
(* Requests to send a one-time code to one phone number: the sign-up       *)
(* checks, the resend cooldown, the daily limit, the insertion of the code *)
(* and the text message.                                                   *)
(*                                                                         *)
(* Each check is a SELECT and an await of its own, and the INSERT is one   *)
(* more: requests interleave between any two of them.  A handler reads the *)
(* clock once, when it starts, and compares every row with that reading;   *)
(* created_at is the clock of the INSERT.                                  *)
(***************************************************************************)
EXTENDS Naturals, Sequences, FiniteSets

CONSTANTS
  CodeRequests, \* HTTP requests in flight at the same time
  Details,      \* first name and account type given with a sign-up
  COOLDOWN,     \* OTP_RESEND_COOLDOWN_MS, in ticks
  TTL,          \* OTP_TTL_MS, in ticks
  DAY,          \* the window of the daily limit, in ticks
  DAILY_LIMIT,  \* OTP_DAILY_LIMIT_PER_PHONE
  MaxTime,      \* bound: the clock stops here
  Null          \* no row, no details

ASSUME AskAssumption ==
  /\ COOLDOWN \in Nat \ {0} /\ TTL \in Nat \ {0} /\ DAY \in Nat \ {0}
  /\ DAILY_LIMIT \in Nat \ {0} /\ MaxTime \in Nat
  /\ IsFiniteSet(CodeRequests)
  /\ Null \notin Details \cup Nat

VARIABLES
  clock,      \* the time
  rows,       \* otp_verifications of this phone, in order of created_at
  hasAccount, \* whether the phone has a row of users
  asking,     \* what a handler remembers across its awaits
  texts,      \* for each row, the messages on the phone with its code
  lost        \* rows whose message never got to the phone;
              \* history, read by properties only

sms == <<texts, lost>>
askVars == <<clock, rows, hasAccount, asking, sms>>

\* details is Null for the purpose SIGN_IN.
Row == [details : Details \cup {Null}, createdAt : Nat, expiresAt : Nat,
        verified : BOOLEAN]

NotAsking == [pc |-> "idle", details |-> Null, now |-> 0, latest |-> Null,
              row |-> Null]

AskInit ==
  /\ clock = 0
  /\ rows = << >>
  /\ hasAccount = FALSE
  /\ asking = [r \in CodeRequests |-> NotAsking]
  /\ texts = << >> /\ lost = {}

GoOn(r, pc) == asking' = [asking EXCEPT ![r].pc = pc]
Reply(r) == asking' = [asking EXCEPT ![r] = NotAsking]

-----------------------------------------------------------------------------
(* The handler.                                                            *)

\* A sign-up is refused when findByPhone returns an account.
Begin(r, d) ==
  /\ asking[r] = NotAsking
  /\ d # Null => ~ hasAccount
  /\ asking' = [asking EXCEPT ![r] =
       [NotAsking EXCEPT !.pc = "latest", !.details = d, !.now = clock]]
  /\ UNCHANGED <<clock, rows, hasAccount, sms>>

\* resendCooldownSeconds is positive; a row may be younger than the reading.
Cooling_NoPeriod(at, now) == now <= at
Cooling(at, now) == now < at + COOLDOWN

CreatedAt == IF rows = << >> THEN Null ELSE rows[Len(rows)].createdAt

Throttled(at, now) == at # Null /\ Cooling(at, now)

\* findLatestAny(phone).  A sign-in goes on to the cooldown with no await.
ReadLatest(r) ==
  /\ asking[r].pc = "latest"
  /\ \/ /\ asking[r].details # Null
        /\ asking' = [asking EXCEPT ![r].pc = "signup", ![r].latest = CreatedAt]
     \/ /\ asking[r].details = Null
        /\ IF Throttled(CreatedAt, asking[r].now) THEN Reply(r) ELSE GoOn(r, "counting")
  /\ UNCHANGED <<clock, rows, hasAccount, sms>>

SignUps == {i \in DOMAIN rows : rows[i].details # Null}

\* The latest sign-up code is pending and was asked for with other details.
Mismatch(d, now) ==
  \E i \in SignUps :
    /\ \A j \in SignUps : j <= i
    /\ ~ rows[i].verified
    /\ now < rows[i].expiresAt
    /\ rows[i].details # d

\* findLatestAny(phone, SIGN_UP), then the cooldown of the earlier reading.
ReadSignUp(r) ==
  /\ asking[r].pc = "signup"
  /\ IF \/ Mismatch(asking[r].details, asking[r].now)
        \/ Throttled(asking[r].latest, asking[r].now)
       THEN Reply(r)
       ELSE GoOn(r, "counting")
  /\ UNCHANGED <<clock, rows, hasAccount, sms>>

CountSince(t) == Cardinality({i \in DOMAIN rows : rows[i].createdAt >= t})

DayAgo(now) == IF now < DAY THEN 0 ELSE now - DAY

Count_OffByOne(r) ==
  /\ asking[r].pc = "counting"
  /\ IF CountSince(DayAgo(asking[r].now)) > DAILY_LIMIT
       THEN Reply(r)
       ELSE GoOn(r, "inserting")
  /\ UNCHANGED <<clock, rows, hasAccount, sms>>

Count(r) ==
  /\ asking[r].pc = "counting"
  /\ IF CountSince(DayAgo(asking[r].now)) >= DAILY_LIMIT
       THEN Reply(r)
       ELSE GoOn(r, "inserting")
  /\ UNCHANGED <<clock, rows, hasAccount, sms>>

\* The row is there from now on, whether or not its message is ever sent.
Insert(r) ==
  /\ asking[r].pc = "inserting"
  /\ rows' = Append(rows,
       [details |-> asking[r].details, createdAt |-> clock,
        expiresAt |-> asking[r].now + TTL, verified |-> FALSE])
  /\ asking' = [asking EXCEPT ![r] =
       [NotAsking EXCEPT !.pc = "texting", !.row = Len(rows) + 1]]
  /\ texts' = Append(texts, 0)
  /\ UNCHANGED <<clock, hasAccount, lost>>

-----------------------------------------------------------------------------
(* The text message.  A call of the gateway has no timeout of its own, and is *)
(* made once.                                                              *)

SendSms(r) ==
  /\ asking[r].pc = "texting"
  /\ texts' = [texts EXCEPT ![asking[r].row] = @ + 1]
  /\ Reply(r)
  /\ UNCHANGED <<clock, rows, hasAccount, lost>>

SmsUnanswered_Retries(r) ==
  /\ asking[r].pc = "texting"
  /\ texts' = [texts EXCEPT ![asking[r].row] = @ + 1]
  /\ UNCHANGED <<clock, rows, hasAccount, asking, lost>>

\* The gateway takes the message, and the answer is lost: the caller is told that the
\* code could not be sent.
SmsUnanswered(r) == SendSms(r)

\* The gateway cannot be reached or refuses: the caller is told, and the row stays.
SmsRefused(r) ==
  /\ asking[r].pc = "texting"
  /\ lost' = lost \cup {asking[r].row}
  /\ Reply(r)
  /\ UNCHANGED <<clock, rows, hasAccount, texts>>

\* An answer that is no JSON, or names no recipient, passes for a success.
SmsMisread(r) == SmsRefused(r)

-----------------------------------------------------------------------------
(* The environment.                                                        *)

\* The code is entered: completeSignIn consumes it, and the account exists.
Verify(i) ==
  /\ i \in DOMAIN rows
  /\ ~ rows[i].verified /\ clock < rows[i].expiresAt
  /\ \A j \in DOMAIN rows : ~ rows[j].verified => j <= i
  /\ rows[i].details # Null => ~ hasAccount
  /\ rows' = [rows EXCEPT ![i].verified = TRUE]
  /\ hasAccount' = TRUE
  /\ UNCHANGED <<clock, asking, sms>>

Tick ==
  /\ clock < MaxTime
  /\ clock' = clock + 1
  /\ UNCHANGED <<rows, hasAccount, asking, sms>>

AskingDies(r) ==
  /\ asking[r] # NotAsking
  /\ lost' = lost \cup ({asking[r].row} \ {Null})
  /\ Reply(r)
  /\ UNCHANGED <<clock, rows, hasAccount, texts>>

-----------------------------------------------------------------------------
AskNext ==
  \/ \E r \in CodeRequests :
       \/ \E d \in Details \cup {Null} : Begin(r, d)
       \/ ReadLatest(r)
       \/ ReadSignUp(r)
       \/ Count(r)
       \/ Insert(r)
       \/ SendSms(r) \/ SmsUnanswered(r) \/ SmsRefused(r) \/ SmsMisread(r)
       \/ AskingDies(r)
  \/ \E i \in DOMAIN rows : Verify(i)
  \/ Tick

AskSpec == AskInit /\ [][AskNext]_askVars

-----------------------------------------------------------------------------
(* Properties.                                                             *)

AskTypeOK ==
  /\ clock \in Nat
  /\ rows \in Seq(Row)
  /\ hasAccount \in BOOLEAN
  /\ asking \in [CodeRequests ->
       [pc : {"idle", "latest", "signup", "counting", "inserting", "texting"},
        details : Details \cup {Null}, now : Nat, latest : Nat \cup {Null},
        row : (DOMAIN rows) \cup {Null}]]
  /\ texts \in Seq(Nat) /\ Len(texts) = Len(rows) /\ lost \subseteq DOMAIN rows
  /\ \A r \in CodeRequests :
       /\ asking[r].pc = "signup" => asking[r].details # Null
       /\ asking[r].now <= clock

\* The codes inserted at row i or after it, less than d after it.
Since(i, d) == {j \in i..Len(rows) : rows[j].createdAt < rows[i].createdAt + d}

\* The cooldown is overrun only by requests that were in flight together: with n
\* at a time, no cooldown period sees more than n codes, whatever the requests'
\* stale clocks and reads (request-otp.service.ts:57, 65, 87-98).
BurstBounded ==
  \A i \in DOMAIN rows : Cardinality(Since(i, COOLDOWN)) <= Cardinality(CodeRequests)

\* No day sees more codes than the daily limit less one and one for each request
\* in flight, for every window of a day and not for calendar days only
\* (request-otp.service.ts:99-103).
DayBounded ==
  \A i \in DOMAIN rows :
    Cardinality(Since(i, DAY + 1)) <= DAILY_LIMIT - 1 + Cardinality(CodeRequests)

\* Both limits on codes, whatever the order of the requests' reads and inserts
\* (request-otp.service.ts:57-103).
SendsBounded == AskTypeOK /\ BurstBounded /\ DayBounded

\* The codes that the cooldown and the daily limit count are those that were texted or
\* are about to be, each once, but for those that the gateway or a crash lost: none is
\* texted twice though an answer of the gateway is lost, and no two handlers text the
\* same one (request-otp.service.ts:104-134).
TextsMatchCodes ==
  LET Texting == {asking[r].row : r \in CodeRequests} \ {Null} IN
  /\ \A i \in DOMAIN rows : texts[i] = IF i \in Texting \cup lost THEN 0 ELSE 1
  /\ Texting \cap lost = {}
=============================================================================
