---------------------------- MODULE TokenBucket ----------------------------
(***************************************************************************)
(* gateway.TokenBucketLimiter, shared by every request of the process.      *)
(*                                                                         *)
(* One tick is a millisecond and a token is Period units of credit, so that *)
(* credit grows by one unit per tick.  A caller that finds less than a      *)
(* token sleeps with the lock released, and sets the credit to zero when it *)
(* wakes; `last` keeps the time before the sleep.                           *)
(***************************************************************************)
EXTENDS Integers

CONSTANTS
  Calls,     \* goroutines that call Wait
  Period,    \* ticks per token: 1000 / rate
  Burst      \* tokens the bucket can hold

\* NewTokenBucketLimiter replaces a rate or a burst that is not positive by one.
ASSUME BucketAssumption == Period \in Nat \ {0} /\ Burst \in Nat \ {0}

VARIABLES
  now,      \* the clock
  last,     \* l.last
  credit,   \* l.tokens, in units
  wake,     \* when a caller that sleeps in Wait will wake, 0 for a caller that does not
  passed    \* how many times Wait has returned to each caller

bucket == <<last, credit, wake, passed>>
limiterVars == <<now, bucket>>

Capacity == Burst * Period

\* The credit Wait finds, after the refill.
Refilled == IF credit + (now - last) > Capacity THEN Capacity ELSE credit + (now - last)

\* Wait with a token left.
TakeToken(c) ==
  /\ wake[c] = 0
  /\ Refilled >= Period
  /\ last' = now
  /\ credit' = Refilled - Period
  /\ passed' = [passed EXCEPT ![c] = passed[c] + 1]
  /\ UNCHANGED <<now, wake>>

\* Wait without one: the sleep covers what is missing, and a millisecond more.
FallAsleep(c) ==
  /\ wake[c] = 0
  /\ Refilled < Period
  /\ last' = now
  /\ credit' = Refilled
  /\ wake' = [wake EXCEPT ![c] = now + (Period - Refilled) + 1]
  /\ UNCHANGED <<now, passed>>

WakeUp(c) ==
  /\ wake[c] # 0
  /\ now >= wake[c]
  /\ credit' = 0
  /\ wake' = [wake EXCEPT ![c] = 0]
  /\ passed' = [passed EXCEPT ![c] = passed[c] + 1]
  /\ UNCHANGED <<now, last>>

Tick == now' = now + 1 /\ UNCHANGED bucket

LimiterInit ==
  /\ now = 0 /\ last = 0
  /\ credit = Capacity
  /\ wake = [c \in Calls |-> 0]
  /\ passed = [c \in Calls |-> 0]

LimiterNext == Tick \/ \E c \in Calls : TakeToken(c) \/ FallAsleep(c) \/ WakeUp(c)

LimiterSpec == LimiterInit /\ [][LimiterNext]_limiterVars

-----------------------------------------------------------------------------
LimiterTypeOK ==
  /\ now \in Nat /\ last \in 0..now
  /\ credit \in 0..Capacity
  /\ wake \in [Calls -> Nat]
  /\ passed \in [Calls -> Nat]

\* What the limiter promises a single caller, whatever the others do: at most the burst
\* and twice the rate. Twice, because the time slept is refilled again: `last` is from
\* before the sleep. The bound is per caller: each sleeps off its own missing credit,
\* so N callers together reach 2 * N times the rate.
EachCallerBounded == \A c \in Calls : passed[c] * Period <= Capacity + 2 * now
=============================================================================
