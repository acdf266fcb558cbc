# Eventis API in TLA+

A specification of the concurrent behaviour of the Eventis API, kept beside the
code: what its request handlers promise when they overlap, fail halfway, or run
late. TLC checks every module on small instances; TLAPS proves the theorems of
the `*Proofs` modules for every value of the constants.

Paths below are relative to the repository root. `PROJECT.json` maps every
definition to the lines it stands for, and lists the runs, the mutants that each
property catches, the hazards and the theorems.

## 1. The system

The API is one NestJS process (`src/main.ts`) over PostgreSQL (through Prisma)
and an S3-compatible object store. There is no queue and no scheduled job:
`src/worker.ts` has nothing to run, and no code uses the tables `Outbox`,
`IdempotencyKey` and `AuditLog`. All concurrency is between HTTP requests (and
socket connections): a handler runs until its next `await`, then others run. A
SQL statement is atomic; a handler is not, and most handlers read a row, decide,
and write in a later statement. Whatever is not a column is lost when the process
stops.

| Component | State | Operations | What must be right |
|---|---|---|---|
| Refresh sessions (`identity`) | `refresh_sessions`, `users.status` | login, refresh with rotation and reuse detection, logout, suspend, activate | one live session per family; what has ended stays ended; a suspended account gets nothing |
| OTP request (`identity`) | `otp_verifications` | request a code | cooldown and daily limit |
| OTP verification (`identity`) | `otp_verifications`, `users`, `refresh_sessions` | verify a code: sign in, sign up, reset the PIN | a code works once; wrong guesses are limited; a sign-up code never overwrites an account |
| Profiles (`identity`) | `users`, avatar file | update profile, upload avatar | the row names a file that exists |
| FindLove messaging (`chat`) | `conversations`, `connection_requests`, `messages`, `user_blocks` | start, accept, reject, cancel, send, attach, edit, delete, block | one message each until accepted; client ids make retries idempotent; blocks and rejections end it |
| Eventis messaging policy (`chat`) | none | decide start and send | the two services' rules |
| Calls (`chat`) | `calls` | create, accept, reject, miss, end, cancel | each call is decided once; its stamps tell the truth |
| Invitations (`chat`) | `chat_invitations`, `conversations` | create, list (expires), accept | one pending invitation of a phone; used once |
| Receipts (`chat`) | `message_receipts`, `last_read_at` | mark read, mark delivered | receipts only advance; unread counts agree |
| Attachments (`chat`) | `messages`, `attachments`, files | upload, download | no message without its file, no file without its row |
| Rate limiter (`chat`) | in-memory windows of stamps | consume | at most `max` in every window |
| Realtime (`chat`) | in-memory maps of sockets | connect, disconnect, emit | who is told what, in which order; who reconnects misses nothing |
| Events (`events`) | `events`, cover file | create, update, delete, get, list | the status lifecycle; the cover exists; views are counted |
| Statuses (`events`) | `statuses`, media file, views | create, delete, view, list | media files, expiry |
| Access tokens, guards and roles (`common`, `identity`) | signed claims held by clients | issue, verify, expire; change of status and of account type | what a token says comes from an active account; a suspension ends what came before it, but for open sockets |
| Object storage client (`infrastructure`) | the store | put, delete, get | what is stored after an error or a timeout |
| Platform, configuration, worker | none | start-up | |

How they interact: every chat handler asks a messaging policy on facts that
`loadMessagingFacts` reads with parallel queries, and then writes; calls,
attachments, edits and deletions go through the same `assertCanSend`. OTP
verification opens the first session of a family, which the refresh handlers
continue; suspension writes `users.status` and revokes sessions, against all of
them. Events, statuses, avatars and attachments keep a row and a file in two
stores with no transaction around both. After each write the chat handlers
publish to sockets in memory.

What is hard here: check-then-act across awaits (reuse detection, limits,
policy), READ COMMITTED transactions whose statements see different states,
rows written from stale reads, row locks, the unique indexes that decide races,
failures between the two stores, and stamps taken before the write they
belong to. `PROJECT.json` lists each hazard at its line with the properties that
watch it.

## 2. Modules

| Module | Models | Composes, implements |
|---|---|---|
| `RefreshSessions` | login, refresh, logout, suspension | |
| `OtpSignIn` | `verify-otp` and the `completeSignIn` transaction, one phone | |
| `OtpRequest` | sending codes to one phone, with the clock and the SMS gateway | |
| `FindLoveChat` | one FindLove direct conversation | |
| `Calls` | calls of direct conversations, with the clock | implements `CallLifecycle` |
| `CallNews` | `Calls` with the events published to the participants | extends `Calls`, implements `CallLifecycle` |
| `Invitations` | links sent to one phone: create, expire, accept, with the conversation an acceptance opens | |
| `EventLifecycle` | one event: status, cover, views | |
| `Receipts` | one reader's receipts and `lastReadAt` | |
| `ChatSync` | publication of messages, sockets, and the pages of the history | |
| `Media` | files of statuses, avatar and attachments in one object store | |
| `Access` | access tokens, guards, the handshake of sockets, changes of accounts | |
| `RateLimiter` | the sliding window of one process | |
| `EventisChat` | the Eventis policy and the writes it allows | extends `RateLimiter` |
| `MC...` | instances for TLC: symmetry sets, and who posts and blocks | |
| `...Proofs` (eight) | theorems: section 4 | |

Conventions. A handler in flight is a record in `req`: its `pc`, and what it
remembers across awaits. `Idle` is no handler; `Answer` ends one. A step is the
code between two awaits together with one SQL statement. Where a transaction's
statements cannot be told apart from outside (an INSERT followed by an UPDATE of
the same row's predecessor by key) it is one step; where they can, it is cut. A
definition `X_Something` just before `X` is a mutated `X`: a plausible bug, which
some property must catch. Two actions have no code: `RequestDies` (the process
stops, or a statement fails: the handler's memory is gone and an open
transaction rolls back) and `Tick` / `Expire` (time).

Four modules name these things in their own way, because each is proved about in one
module with another component (section 4): in `OtpRequest` the handlers are
`CodeRequests` with their memory in `asking` (`Reply`, `AskingDies`, `AskSpec`), in
`EventLifecycle` `Handlers` and `edit` (`EndEdit`, `HandlerDies`, `EventSpec`); `Access` and
`ChatSync` have `AccessSpec` and `SyncSpec`.

### RefreshSessions

A session row is named by its token, a family by its first token. `SignInCheck`
and `OpenSession` are the two halves of login; `LookupReused`, `LookupUsable`,
`CheckUser` and `Rotate` are `RefreshTokenService.execute` with
`RefreshSessionRepository.rotate`; `LookupLogout` and `RevokeFamily` are logout.
`setStatus` is `SuspendSweep` (the rows its second statement sees) and
`SuspendCommit`: sessions inserted in between escape it. Expired rows form a set.

`rotate` updates the exchanged row by id alone, so two overlapping refreshes with
one token both succeed and the family forks. The properties say what is still
true then:

- `ChainSound`: replaced rows are revoked, and chains stay inside one family
  and user and never merge.
- `LiveSessionsBoundedByForks`: live sessions of a family exceed one by at most
  the number of links lost to such overlaps, so refreshes that do not overlap
  keep one holder.
- `EndedFamilyStaysEnded`: a family without live sessions and without refreshes
  in flight stays so for ever, reactivation included.
- `SuspensionHolds`: the same for an account, until an admin activates it.

### OtpSignIn

One phone: its codes in order of creation, its account, and per code the sessions
it opened and the holder of its row lock. A verification looks up the latest
active code (`LookupMatch`, `LookupMismatch`); a wrong guess is counted in a later
statement (`CountAttempt`); a right one claims the row (`Claim`: the conditional
update, which waits for the lock and then tests again), reads the account
(`ReadUser`) and creates it or writes its PIN (`CreateUser`, `UpdateUser`), where
everything becomes visible at commit. A second insert of the phone fails on the
unique index, and `Rollback` frees the lock.

- `ConsumedIffSignedIn`: a code is consumed exactly when it opened one session.
- `SignUpNeverOverwrites`: a PIN written with a sign-up code is that of the
  account the same code created. It rests on the purpose test inside the
  transaction, on the unique phone and on the lock together.
- `AttemptsBounded`: the limit on guesses is overrun by at most the requests in
  flight.
- `SuspendedAccountIsFrozen`: no code, old or new, changes a suspended account.
- `EveryVerifyAnswered` (liveness).

Fairness: a handler that can run does run (`WF`); the event loop does not drop
continuations. A claim waits for a row lock, and between two waits the lock may be
free and taken again, so weak fairness would not do; PostgreSQL queues waiters of
a row lock in order, which `SF` on `Claim` stands for. Nothing is assumed of
clients, admins or time.

### OtpRequest

Sends to one phone: the handler reads the clock once (`Begin`), then the latest row, the
latest sign-up, the count of a day, and inserts, each after an await. `Verify` stands for a
sign-in with the latest code that is not used: it creates the account that ends sign-ups.
`SendSms`, `SmsUnanswered`, `SmsRefused` and `SmsMisread` are the outcomes of the one
request to the gateway after the row is there: sent, sent though its answer is lost (the
caller is told of a failure), refused, and an answer that passes for a success though
nothing was sent. The real constants are 60 s, 5 min, one day and 10 codes; the run uses 2,
2, 3 ticks and 2 codes, with a clock to 4, so that cooldown and day both run out within a
run.

- `SendsBounded`: `BurstBounded`, no cooldown period sees more codes than requests in
  flight, and `DayBounded`, no window of a day, wherever it starts, sees more codes
  than limit − 1 + requests in flight.
- `TextsMatchCodes`: each code is texted once, is about to be, or was lost by the
  gateway or with the process; no code is texted twice.

### FindLoveChat

Two people and one conversation: the requester, the status of the connection
request, whether the pair is blocked, the messages in order, and the lock on the
connection's row. `ReadBlocked`, `ReadStatus`, `ReadSent` are the queries of
`loadMessagingFacts`, in any order but that the count follows the connection;
`Denies` is `evaluateSend`. `CheckKey`, `LockConnection`, `CountSent` and `Insert`
are `sendMessage` after the policy, with `createMessage`'s transaction; `Upload` is
the rest of `addAttachment`; `Edit` and `Delete` update by id. `Decide` is the
conditional update of `updateConnectionStatus` and waits for the lock.
`StartConversation` to `CreateConversation` race on the unique pair key.

- `PendingQuota`: until acceptance nobody has more than one message, deleted ones
  counted.
- `KeysUnique`: a client message id of a sender names one message.
- `DecidedOnce`: a decision and the requester never change.
- `OverIsQuiet`: after a block, rejection or cancellation, once the requests that
  read the facts before it have answered, no message is written, edited or deleted again.
- `SendersMayEdit` is what the documentation says and the code does not do: see Runs.

### Calls and CallLifecycle

`ReadCall` reads the row, `CheckCall` tests ring period and transition after
another await and takes the stamp, `UpdateCall` is `updateMany` where the status
is the one read. `CallLifecycle` is the promise: a call rings, is picked up,
declined, cancelled or (after the ring period) missed, and only an answered call
ends. `Calls` implements it: `state` is `calls.status`, and `due` the calls whose
ring period has passed. `StampsAgree` adds that `answered_at` and `ended_at` are
set exactly in the states that have them, and in order.

### CallNews

`Calls` with what its handlers publish. `Dial` and `EmitIncoming` are `createCall`;
`Ask`, `Check`, `Transition`, `ReadAgain` and `EmitUpdated` are `transitionCall`, which
reads the row once more after its update and publishes what it then finds. A crash,
or a failure of that reading (`ReadAgainFails`), loses the event. `heard` is the last
status a participant was told of a call, `told` all that were published;
`overtaken` and `lost` are history.

- `EndIsTold`: once the events of a call that is over are out, its end has been
  published, unless an event was lost: the last transition reads after its update.
- `LastWordIsTrue`: the last event a participant has tells the status, unless the call
  moved while another event was owed. Events carry nothing to order them by, so the
  exception is real.
- `KeepsPromise`: still an implementation of `CallLifecycle`.
- `RingingEnds` (liveness): a call that has rung its period stops ringing.

Fairness: time passes, handlers go on (`WF`), and the callee's client asks for `MISSED`
again and again. That last one is an assumption about clients: the code gives the
transition to the callee alone and has no timer, so with the callee away a
call does ring for ever. `SF` stands for a client that tries again until its request gets
through: the process may stop between any two steps of a request, but not for ever
at that point.

### Invitations

The links sent to one phone: per link the status, the inviter, whether its expiry has
passed (`due`) and how often it was accepted (history); per inviter the conversations
under the pair key (`direct`); and whether the phone has an ACTIVE account. `Invite`,
`FindPending` and `InsertInvitation` are `createInvitation`, `ExpireInvitations` the
update with which a listing begins. `Accept`, `FindByToken`, `FindDirect`,
`CreateDirect`, `Present` and `AcceptInvitation` are `acceptInvitation`: the
conversation first, the claim of the link last. The lookups take the clock with their
query. The claim's stamp is taken before its statement runs, so `Present` notes
whether the link was then in time. `StartDirect` creates the same conversation on the
ground of an event.

- `SingleUse`: a link is accepted once, however many requests present it.
- `AcceptedHasConversation`: every accepted link has its conversation, and a pair has
  one (a theorem). The converse does not hold: an acceptance that comes too late leaves the
  conversation behind. It gives no right to send: a message asks the policy again.
- `LiveLinksBounded`: an inviter has at most as many usable links as requests run at
  the same time; "already pending" is a check apart from the insert.
- `DeadLinksStayDead`: a used, expired or overdue link is never accepted any more.

### EventLifecycle

One event, its cover key, its view counter and the object store. Update reads the
row, may upload, and writes every column but the counter by id; create writes the
row first and the cover after; failed writes clean up (`Clean`), replaced covers
are removed after the row is written (`DeleteCover`). `calm` is history: no two
writing handlers have overlapped and no failure has happened that the code does
not handle.

- `FilesMatchWhenCalm`: while calm, the row's cover is stored, and between
  handlers nothing else is: every handled failure cleans up.
- `LegalWhenCalm`: while calm, the status follows the lifecycle.

### Receipts

One reader. `StampMessage` takes the stamp of a message and `CreateMessage` commits
it later, with the receipt. A marking (`Begin`) names one message or all up to now, and
takes its time when it starts; `FindReceipts` and `MarkReceipts` are its
transaction: the rows its UPDATE finds, and the commit, where each row is tested
again. READ writes both stamps and `lastReadAt`, whatever they were. `raced` is
history: the markings that overlapped the sending of a message.

- `UnreadMatchesReceipts`: the receipts and the unread count, which is made from
  `lastReadAt` alone, agree on every message whose sending overlapped no reading.
- `ReceiptsOnlyAdvance`: whichever marking commits last, no receipt goes back.
- `StampsAgree` (a theorem): the stamps of a receipt say what its status says.

### ChatSync

The devices of one participant. A message is followed through its versions: absent,
as first committed, edited at a time or with its attachment, deleted. `BeginChange` is the
reading of the row with which `editMessage` and `deleteMessage` begin; any number of them may
have read a message, and `Edit` and `Delete` then write by id, each edit with the clock it
read before its statement, which may be earlier than the one it writes over. Each handler
commits (`SendText`, `StoreAttachment`, `Edit`, `Delete`, ...) and then owes a publication
(`Tell`), which goes to the sockets registered at that time; `AnswerLost` is a handler that
fails in between, `Crash` the end of the process with all sockets. `SendAttachment` publishes
nothing until the file is there. `FetchPage` is `listMessages`: rows before the cursor by
stamp and id, newest first, one more than the page to see whether there are others.
Devices are outside the repository, and modelled from what the documentation
tells clients to do: when they connect they walk the history to its end, and of what they
see keep the version with the latest `editedAt`, and a deletion before all. Events reach them
in any order. `untold` and `overtaken` are histories: the versions that no event tells a
device of, and the texts that an edit wrote over one with a clock no earlier than its own.

- `RecoveryComplete`: a connected device that has walked the history shows every
  message as it is, unless an event is still coming. There are two exceptions, and the code
  has both: a message whose handler failed after its statement, while nothing was told of it
  since (`Withheld`: the retry of a stored message publishes nothing), and a text whose
  edits overtook each other, where the row keeps the text written last and a device the
  one with the latest clock. A deleted message never comes back, even if an edit lands on it.
- `EventuallyUpToDate` (liveness): and a device that stays connected gets there.

Fairness (all `WF`): handlers go on after their statements, sockets deliver or break,
and a connected device goes on with its walk.

### Media

Three kinds of rows name files of one store: statuses (by URL, which any client may
give to another status), the avatar of a user, and attachments. `Put`, `PutUnanswered`
and `PutRefused` are an upload that is answered, one that times out after it was
carried out, and one that failed; `DeleteFile` and `DeleteFileFails` the removals;
`Write`, `WriteFails`, `WriteUnanswered` and `DeleteRow` the statements;
`EraseMessage` the clean-up of a message whose upload failed. `POST /statuses/media` stores
the file while it goes through the parts of its request: `ReturnUrl` is the end of the parts,
`RefusePart` a second file among them, or an end that does not come. `doubtful`, `excused` and
`abandoned` are histories of the failures that the code does not handle.

- `NamedFilesAreStored`: what a status or the avatar names is stored, unless a URL was
  given to a second status or a statement was not answered.
- `SentMessagesHaveFiles`: a message that stands has its file, unless its handler died or
  could not delete it.
- `LeaksHaveCauses`: no order of steps leaves a file that nobody names, without one of
  the named failures, but for two first avatars of one user at the same time and an upload
  that is refused for a second file when the first is stored.

### Access

There are three ways to a token. `StartGrant` reads the account, tests its status and writes a
session: `LoginService`, `RefreshTokenService`, and `VerifyOtpService` with no PIN. With a PIN,
`BeginCodeSignIn` tests the status of the row that `completeSignIn` reads, and `WritePin` takes
the row that its UPDATE returns, whose status and account type may be others by then. `Issue`
signs the token with the roles of that row, `GrantFails` is a request that ends without one,
`ExpireToken` is time. `SuspendAccount`, `ActivateAccount` and `PatchMe` change
accounts under a token that its guards accept. `BeginHandshake` to `OnConnection` is the
handshake: the token is verified in a middleware that awaits, and the client can leave
meanwhile (`broken`). The sessions behind a refresh are in `RefreshSessions`.

- `OutStaysOut`: a suspended account whose tokens have expired and which has no request past its
  status test gets neither a token nor a socket until it is reactivated. A request past
  the test may still bring it a token, and a code sign-in even one with the roles of
  an account type that was set after the suspension.
- `AccessEnds` (liveness): a suspension that lasts ends tokens, requests and handshakes, although
  no guard asks for the status. It does not end open sockets: the gateway verifies a token once,
  and serves whoever came with it for as long as the connection lasts.
- `SocketsAreForgotten`: the maps of gateway and publisher hold the open sockets
  and no others, except those whose client left during the handshake: an entry of the
  gateway's map that no handler removes.

Fairness (`WF`): requests and handshakes in flight end, with a token or without, and tokens
expire.

### RateLimiter and EventisChat

The limiter keeps the stamps of accepted calls per key; the model keeps their ages. `Fresh`
drops those out of the window (oldest first, so they are in front), `Full` is the test,
`RetryAfter` the answer.

`EventisChat` has conversations (sets of members), the event each was started for, who
is registered, and who blocks whom. `BeginStart` and `BeginSend` begin a handler, the
second behind the rate limit; `ReadBlock`, `ReadEvent` and `ReadRegistrations` are the
queries of `loadMessagingFacts`, `Decide` is `EvaluateStart` or `EvaluateSend` with the
constants of `eventis.policy.ts`, and `CreateConversation` and `Write` the statement that
follows. Events, registrations and blocks change at any time. Three things that a
reader of the policy would not expect: in a group the block of one other member only is asked
for, the first that the query returns; a pair has one conversation, tied for ever
to the first event it was started for; one that came from an invitation has no
event, so only a block stops it.

- `WritersWereEntitled`: whoever writes met each demand of the policy at some time
  since the request began. Not all at one time: the queries are separate.
- `BlocksSilence`: a request begun behind a block writes nothing, whoever blocked.
- `EventTalksIncludeTheOrganizer`: although an existing conversation is given out
  without asking the policy, and blocks, events and registrations change, every
  conversation about an event has its organizer in it.
- `WindowIsExact`: no window sees more than `Max` calls, and Retry-After is neither too short
  nor a second too long.

## 3. Runs

| Run | Instance | Shows |
|---|---|---|
| `refresh_sessions` | 1 user, 4 tokens, 2 requests | the refresh properties |
| `otp_sign_in` | 2 codes, 3 attempts, 2 requests, `FairSpec` | the OTP safety properties and `EveryVerifyAnswered` |
| `otp_request` | 2 requests, 2 details, clock to 4 | `SendsBounded`, `TextsMatchCodes` |
| `findlove_chat` | 2 people, 2 requests, 1 client id, 2 messages | the FindLove properties |
| `findlove_edit` | the same | that `SendersMayEdit` is violated |
| `invitations` | 2 inviters, 3 links, 2 requests | `SingleUse`, `LiveLinksBounded`, `DeadLinksStayDead` |
| `calls` | `CallNews`: 1 call, 2 people, 2 requests, ring period 1, clock to 1 | the properties of `CallNews`, and `StampsAgree` of `Calls` |
| `messages` | `Receipts`: 2 messages, 2 requests, clock to 1; `ChatSync`: 2 messages, one an attachment, stamps to 2, 2 events on their way, 2 sockets of which 1 device, pages of 1 | `UnreadMatchesReceipts`, `ReceiptsOnlyAdvance`, `RecoveryComplete` |
| `chat_sync` | the same `ChatSync` with the socket of the device alone | `EventuallyUpToDate` |
| `files` | `Media`: 2 requests, 3 files, 2 statuses, 1 message; `EventLifecycle`: 2 requests, 3 files, 2 views | the file properties, the event properties |
| `access` | 2 users, one an admin, 2 requests, 2 tokens, 1 socket | the access properties |
| `eventis_chat` | 3 people, 1 event, 3 conversations, 1 request; window 2, 2 calls, seconds of 2 ticks | the policy properties and `WindowIsExact` |

`messages` and `files` hold two components each, which share no variable: an interleaving of the
two shows no more than each by itself, so one moves while the other has not begun.
Type invariants are theorems and not checked again, or part of an invariant of their run
(`SendsBounded`, `FilesMatchWhenCalm`, `RecoveryComplete`, `NamedFilesAreStored`,
`SocketsAreForgotten`; `WindowIsExact` for the limiter). Runs with a liveness property use
no symmetry.

Why these bounds. Every race in the code is between two handlers: each decides on
one row, and two in flight already give every order of their steps. Four
tokens give a first session, a fork of two and an exchange after it; several users
share no row, and the proofs of `ChainSound` and `SuspensionHolds` cover them. Two
codes give an old and a new one, three attempts the last allowed guess and one beyond
it. Three links are one more than the two that overlapping requests leave usable. Two
messages are one over the quota. Three object keys are the first cover, its
replacement, and one more. Two views are a counted one and another.

One call is enough for its events: calls share no row, and `CallNewsProofs` covers many. Two
messages with receipts give one marked alone and one left over, and equal and different
stamps. Two messages and pages of one make a walk of several pages with a tie of stamps; the
second socket is the one whose departure must not take the first along (`chat_sync`
asks of one device only and leaves it out); stamps to 2 and two events on their way let two edits
overtake each other in statement, clock and event. Three files are one
for each of two handlers and one replaced; two statuses can share a URL. Two tokens are an
old one and its successor with other roles; the admin acts on the user. In `eventis_chat`
the conversations are the organizer with a guest, two guests who may not start one, and the
group of all three; one request is enough, for the other party of each race is the world it
reads (event, registrations, blocks), which changes in actions of their own; two requests
meet only on the unique pair key, which the proofs cover for any number. `MCBlocks` bounds
who may block whom, and `Keys` who is rate-limited. A second of two ticks makes the rounding
of Retry-After visible.

Bounds are in guards (`MaxMessages`, `MaxEvents`, `MaxViews`, `MaxTime`, `MaxOtps`, `MaxStamp`, the size
of `Tokens`, `AccessTokens`, `CoverKeys`, `Files`); a handler that reaches one waits, and may die.

`CHECK_DEADLOCK FALSE` is set where nothing may be left to do: calls (all over, the clock
at its bound), events (deleted, no object key left), receipts (the clock at its bound, all
messages read) and media (no key left).

What the documents say and the code does not do. "Senders may edit or soft-delete their own
messages" (docs/api-reference.md:83-84) is violated: `findlove_edit` shows a person who has
sent the opening message of a conversation and is refused when they ask to edit or delete it.
`editMessage` and `deleteMessage` ask the policy for a new message
(`chat.service.ts:393, 425`), and its count takes in the very message that is to change. It is
the only run that is meant to fail, and the one finding of `PROJECT.json`.

Five more statements of ADRs, documentation and tests hold less strictly than they read; the
properties in brackets are what does hold:

- ADR 0006, a refresh token presented twice is detected: two overlapping refreshes both
  exchange it and the family forks (`LiveSessionsBoundedByForks`).
- Logout revokes the family: a refresh in flight adds a live session after it; only a family
  with no refresh in flight has ended for good (`EndedFamilyStaysEnded`).
- Attempt limits are enforced: parallel guesses pass the test together
  (`AttemptsBounded`).
- `clientMessageId` makes retries idempotent: it does in that it adds no second message
  (`KeysUnique`), but the policy is asked first and refuses the retry of an opening message.
- Illegal status transitions are rejected: a stale update can publish a cancelled event
  again, so the lifecycle holds while handlers do not overlap (`LegalWhenCalm`).

And of two more: resends are throttled only up to the requests in flight (`SendsBounded`), and a
block prevents messaging once the requests that read the facts before it have answered
(`OverIsQuiet`, `BlocksSilence`), not at once.

## 4. Proofs

Every invariant and every action property that a passing run checks is a theorem, for all values
of the constants; so are the type invariants. What only TLC checks is liveness
(`EveryVerifyAnswered`, `RingingEnds`, `EventuallyUpToDate`, `AccessEnds`): fairness and
ENABLED are outside the prover.

Assumptions: those named in each module (`NoneAssumption`, `ConstantsAssumption`,
`AskAssumption` and the like): NULL and the other marks are no values, bounds are numbers,
limits and periods are positive, and, where requests are counted, finitely many are in
flight. TLC evaluates each of them in the runs.

A proof module extends the components it is about. Four hold two components that share no
variable; each theorem names the specification it is about.

`RefreshSessionsProofs`, any users, tokens and requests:
`TypeCorrect`, `ChainCorrect`, `ForksBoundLiveSessions`, `EndedIsStable`,
`SuspensionIsStable`. `TypeOK` and `ChainSound` are inductive together; the lemma
`IssuedGrows` (rows are only added, and keep owner and family) carries the rest.
`LiveSessionsBoundedByForks` follows from `ChainSound` in each state, by counting
(`ForkBound`): a row of a family is its first, or a successor, or one that no link leads to,
and there are no more successors than exchanged rows; that the table is finite is the
induction. The two action properties: an ended family has no request that may still
rotate, and none of its rows is live, so no lookup can start one.

In the same module `Access`, any accounts, admins, sign-ins, access tokens and sockets:
`SocketsForgotten` and `SuspendedStaysOut`. `SocketsAreForgotten` is inductive once it is
known that a socket whose client left during its handshake is in `broken`: its verification
is still running and will note a user for it (`SocketsSound`). `OutStaysOut` needs only the
types: who is out has no token to shake hands with and no request to issue one, and a new
request fails the status test (`OutStep`).

`OtpSignInProofs`, any codes, limit and finite set of requests: `TypeCorrect`,
`SingleUse` (`ConsumedIffSignedIn` is inductive with `TypeOK`: it says who holds
which lock), `SignUpIsCreateOnly` (strengthened by `SignUpInv`: a
transaction that will write an account it has read holds a sign-in code),
`AttemptsOverrunIsBounded` (inductive as it stands, by counting finite sets: a guess let
through is counted as in flight), `SuspensionIsFrozen`.

In the same module `OtpRequest`, any cooldown, daily limit, time to live and finite set of
requests: `CodesAreBounded` and `CountedCodesAreTexted`. The bounds are not inductive: what
is still to come must count like what is there. `Unthrottled(i)` are the handlers that have
passed, or are bound to pass, the cooldown test and whose clock is inside the cooldown of
row i; `BurstRoom` says that they and the rows in that window are no more than the requests.
An insertion moves a handler from the one to the other (`RoomTaken`), nobody joins
(`UnthrottledShrinks`: whoever reads the latest row now sees one not older than row i), and a
new row starts with itself and the other requests (`RoomStarts`). `DayRoom` is the same with
`Counted(i)`: there a handler does join, but only by a count below the limit that had all
the rows of the window (`CountedStep`). `InOrder` and `OneRowEach` (no two handlers text the
same code) complete the invariant `AskIInv`.

`CallNewsProofs`, any calls, people, requests and ring period. About `Calls`: `TypeCorrect`,
`StampsCorrect` and the refinement `CallsImplementLifecycle`. The inductive
invariant is `TypeOK`, `StampsAgree` and `Sound`, which says what stays true of a
request's memory: no call is `INITIATED`, what it read of an answered call is still
so, and its stamp lies between the last stamp of its call and the clock. Without it
neither the order of stamps nor the guard of `Miss` follows. `InitKept` and
`StepKept` map initial states and steps. About `CallNews`, events lost at any time:
`NewsTypeCorrect`, `EndIsAlwaysTold`, `LastWordIsAlwaysTrue`, `NewsStampsCorrect` and
`NewsImplementLifecycle`. The invariant of `Calls` is taken over: each step is one of
`Calls` or leaves its variables alone. To it come `Telling` (the end of a call has been
published, is owed by a transition that has read it or has yet to read, or was lost),
`Unborn` (of a call that was not made nobody has heard) and `OneOwed` (a
call that nothing overtook owes one event at a time).

`FindLoveChatProofs`, any people, requests, client ids and messages: every property
that `findlove_chat` checks. The inductive invariant adds to `TypeOK` and `KeysUnique`:
`OpeningIsFinal` (before the acceptance nobody edits or deletes: the divergence above, on which
the rest depends), `Shape` (the message that a request edits, deletes or uploads for
exists and is its sender's), `Learnt` (facts that did not deny are still true of an
acceptance; who may edit before it has only a deleted message), `Locked` (who counts or
inserts on pending facts holds the lock; who inserts before the acceptance has no
message) and `OneEach` (the quota without cardinalities). A sender whose facts said
PENDING may insert after the acceptance, without harm: hence the conditions on
`status`. `SilenceAfterTheEnd` follows step by step (`QuietStep`).

`ReceiptsProofs`, any messages and requests: `TypeCorrect`, `StampsCorrect`,
`UnreadIsRight` and `ReceiptsAdvance`. The inductive invariant is `TypeOK`, `StampsAgree`,
`Past` (nothing carries a time to come), `Settled`, `Complete` and `Agree`: what a
marking has found and what the raced ones have missed, so that a message outside
`raced` was seen by every reading later than it.

In the same module `ChatSync`, any number of messages, devices and sockets, any size of a
page: `RecoveryIsComplete`. A device in the middle of its walk is what makes it hard.
`PassedIsDue` says, of every message whose place the walk has passed and not only when it
has ended, that the copy is no older than the row, or an event of such a version is due, or the
change was withheld; with `EventsAreOld` (no event tells of a later version than the row has,
unless it was overtaken) and `Books` (a walk
stands at a row that exists; the publisher has every socket) it is inductive. That a page
leaves no row out between two cursors is `PageIsComplete`, from the linear order of stamps
and ids (`OrderFacts`) and the ends of finite sets in it (`EndsOfHistory`).

`MediaProofs`. About `Media`, any files, statuses, messages and requests:
`NamedFilesStayStored`, `SentMessagesCanBeRead`, `EveryLeakHasACause`. The heart of the
invariant is `OneRole`: a file whose URL was not given twice and of which no statement was
left unanswered has one role at a time (it waits for a status, one handler holds it, the
user has it, or one status has it), is stored while it has one, and is removed only by the
handler that took the role away. `RowsAreNew` gives that writing the row of a new status or
attachment overwrites no name, `AttachmentsApart` that the doubts about other files do not
touch attachments, `Traced` that a stored file is named or excused or some handler still has
to do with it. About `EventLifecycle`, any handlers and keys: `CalmFilesMatch` and
`CalmMovesAreLegal`. `CalmSound` says how, while calm, the one writing handler's memory
stands to the row and the store at each of its program counters (`StoreOf`); the status
steps follow, as the row it writes over is the row it has read.

`EventisChatProofs`, any people, events, conversations and requests: `TypeCorrect`,
`WritersAreEntitled`, `BlocksAlwaysSilence`, `OrganizersTakePart`. `Asked` says who asks about
whom, `Told` that each fact a request holds was true since it began and `Allowed` that
who is past the policy has all that `held` asks. That the organizer takes part is
inductive with them: a conversation is created with the event whose organizer
asked. `LimitsAreExact`, any limit, width and second: a bucket is sorted and never over the
limit, and while a Retry-After runs its oldest stamp leaves the window no later than it ends
(`KeySound`). `BelowFacts` is what the filter does to a sorted sequence; `RoundedUp` the
division with its remainder.

`InvitationsProofs`, any inviters, links and finite set of requests: `TypeCorrect`,
`LinksAreSingleUse`, `ConversationComesFirst`, `LinksAreBounded`, `DeadIsStable`: every
property of the module. `ConversationComesFirst` needs `Opened` (a request past the
creation has its conversation). `LinksAreBounded` counts finite sets; that the usable
links are finite is part of the induction, since there may be infinitely many links.

The filter of the rate limiter is written by where the split is and not with `SelectSeq`,
whose definition is recursive and hidden from the provers; on stamps in order of time
the two are the same.

## 5. Plan

Written in this order, the most important behaviour first: `RefreshSessions`,
`OtpSignIn`, `OtpRequest`, `FindLoveChat`, `CallLifecycle` and `Calls`,
`EventLifecycle`, `Invitations` with their proofs; then `CallNews`, `Receipts`, `ChatSync`,
`Media`, `Access`, `RateLimiter` and `EventisChat`, the proofs of `CallNews`, `Receipts`
and `EventisChat`, and at last those of `OtpRequest`, `EventLifecycle`, `ChatSync`, `Media`,
`Access` and `RateLimiter`. To come:

1. More abstract specifications that the modules implement, as `CallLifecycle` is of
   `Calls`: the life of an invitation link, of a one-time code, of a refresh family.
2. Identity composed: codes, sessions and suspension of one account together.
3. The feed of statuses: expiry and counted views.
4. Group conversations of FindLove.

## 6. Not modelled

- Call signals: they are handed from one participant to the other and kept nowhere.
- The rooms of conversations: sockets join them and nothing publishes to them.
- Listing, other than the history of messages; the feed, views and expiry of statuses;
  contacts; settings of conversations; reports; replies.
- Cryptography, hashing, formatting, validation of input.
- The object storage client's URLs, signatures and choice of a provider.
- Start-up, the environment and the worker, which has no jobs.
- FindLove conversations of groups and with oneself: the same handlers without the
  connection request.

