----------------------------- MODULE RateLimiter -----------------------------
(***************************************************************************)
(* ChatRateLimiter: a sliding window of the last accepted calls of a key,  *)
(* kept in the memory of the process.                                      *)
(*                                                                         *)
(* The code keeps the times of the calls and drops the old ones when the   *)
(* key comes back.  A stamp is here its age, so that no clock is needed,   *)
(* and goes when it is out of the window, which is before the key can tell.*)
(***************************************************************************)
EXTENDS Naturals, Sequences, FiniteSets

CONSTANTS
  Keys,   \* message:<user> and the like
  Max,    \* calls accepted in a window
  Window, \* width of the window, in ticks
  Second  \* ticks in a second, the unit of Retry-After

ASSUME LimiterAssumption ==
  Max \in Nat \ {0} /\ Window \in Nat \ {0} /\ Second \in Nat \ {0}

VARIABLES
  bucket,   \* buckets: the ages of the stamps of each key, oldest first
  accepted, \* ages below Window of the calls that went through; history
  wait      \* ticks until the end of the last Retry-After of a key, and one more;
            \* 0 if a call went through since; history

limiter == <<bucket, accepted, wait>>

LimiterInit ==
  /\ bucket = [k \in Keys |-> << >>]
  /\ accepted = [k \in Keys |-> << >>]
  /\ wait = [k \in Keys |-> 0]

\* The ages below a width.  Stamps are oldest first: those that go are in front.
Below(ages, width) ==
  LET n == CHOOSE n \in 0..Len(ages) :
             \A i \in DOMAIN ages : ages[i] < width <=> n < i
  IN  SubSeq(ages, n + 1, Len(ages))

\* timestamps.filter: a stamp as old as the window is out of it.
Fresh(ages) == Below(ages, Window)

Full_OneMore(k) == Len(bucket[k]) > Max

Full(k) == Len(bucket[k]) >= Max

RetryAfter_Floor(k) == (Window - bucket[k][1]) \div Second

\* retryAfterSeconds: until the oldest stamp is out of the window, rounded up.
RetryAfter(k) == (Window - bucket[k][1] + Second - 1) \div Second

Refuse(k) ==
  /\ wait' = [wait EXCEPT ![k] = RetryAfter(k) * Second + 1]
  /\ UNCHANGED <<bucket, accepted>>

Accept(k) ==
  /\ bucket' = [bucket EXCEPT ![k] = Append(@, 0)]
  /\ accepted' = [accepted EXCEPT ![k] = Append(@, 0)]
  /\ wait' = [wait EXCEPT ![k] = 0]

Older(ages) == [i \in DOMAIN ages |-> ages[i] + 1]

\* Time passes.
Tick ==
  /\ bucket' = [k \in Keys |-> Fresh(Older(bucket[k]))]
  /\ accepted' = [k \in Keys |-> Below(Older(accepted[k]), Window)]
  /\ wait' = [k \in Keys |-> IF wait[k] > 1 THEN wait[k] - 1 ELSE wait[k]]

\* The process stops, and its buckets with it.
Forget ==
  /\ bucket' = [k \in Keys |-> << >>]
  /\ accepted' = [k \in Keys |-> << >>]
  /\ wait' = [k \in Keys |-> 0]

-----------------------------------------------------------------------------
LimiterTypeOK ==
  \A k \in Keys :
    /\ bucket[k] \in Seq(0..(Window - 1))
    /\ accepted[k] \in Seq(0..(Window - 1))
    /\ wait[k] \in 0..(Window + Second)

\* However calls and refusals fall, no window of Window ticks sees more than Max calls
\* of a key go through in the life of a process, and Retry-After is true to the second:
\* when it is over the key has room again, unless a call went through meanwhile, and a
\* second earlier it has none; refusals push nothing back (chat.ts:48-69).
WindowIsExact ==
  /\ LimiterTypeOK
  /\ \A k \in Keys :
       /\ Len(accepted[k]) <= Max
       /\ wait[k] = 1 => ~Full(k)
       /\ Full(k) => Max <= Cardinality({i \in DOMAIN bucket[k] :
                       bucket[k][i] + (RetryAfter(k) - 1) * Second < Window})
=============================================================================
