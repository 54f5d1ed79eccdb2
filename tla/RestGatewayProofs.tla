------------------------- MODULE RestGatewayProofs -------------------------
(***************************************************************************)
(* For any number of calls, and any limits, windows and delays: the rate    *)
(* bound of the limiter, that the gateway uses its limiter as TokenBucket   *)
(* describes it, and what the gateway promises of its retries.              *)
(*                                                                         *)
(* Why the invariant of the limiter has its form: a caller that is awake    *)
(* has paid for its passes with credit, which grew with `last`, and with    *)
(* time slept, which is at most `now`.  A caller asleep has locked in the   *)
(* credit it found and owes the rest as sleep; together they are one token. *)
(***************************************************************************)
EXTENDS RestGateway, TLAPS

-----------------------------------------------------------------------------
(* TokenBucket by itself *)

Awake(c) == wake[c] = 0 => passed[c] * Period + credit <= Capacity + last + now

Asleep(c) ==
  wake[c] # 0 =>
    /\ passed[c] * Period + Period <= Capacity + last + wake[c] - 1
    /\ wake[c] <= last + Period + 1

Paid == LimiterTypeOK /\ \A c \in Calls : Awake(c) /\ Asleep(c)

\* One more pass costs one more token.
LEMMA OneMore == \A n \in Nat : (n + 1) * Period = n * Period + Period /\ n * Period \in Nat
  BY BucketAssumption

LEMMA CapacityNat == Capacity \in Nat /\ Period \in Nat /\ Period > 0
<1>1. \A m, n \in Nat : m * n \in Nat
  OBVIOUS
<1> QED
  BY <1>1, BucketAssumption DEF Capacity

\* The refill never exceeds the capacity, nor the credit and the time passed.
LEMMA RefilledBounds ==
  ASSUME LimiterTypeOK
  PROVE  Refilled \in 0..Capacity /\ Refilled <= credit + (now - last)
  BY CapacityNat DEF LimiterTypeOK, Refilled

LEMMA PaidInit == LimiterInit => Paid
  BY CapacityNat DEF LimiterInit, Paid, LimiterTypeOK, Awake, Asleep

LEMMA PaidTick == Paid /\ Tick => Paid'
<1> SUFFICES ASSUME Paid, Tick PROVE Paid'
  OBVIOUS
<1>1. LimiterTypeOK'
  BY DEF Paid, LimiterTypeOK, Tick, bucket, Capacity
<1>2. ASSUME NEW c \in Calls PROVE Awake(c)' /\ Asleep(c)'
  <2>1. passed[c] * Period \in Nat
    BY OneMore DEF Paid, LimiterTypeOK
  <2> QED
    BY <2>1, CapacityNat DEF Paid, LimiterTypeOK, Tick, bucket, Awake, Asleep, Capacity
<1> QED
  BY <1>1, <1>2 DEF Paid

LEMMA PaidTake == \A d \in Calls : Paid /\ TakeToken(d) => Paid'
<1> SUFFICES ASSUME NEW d \in Calls, Paid, TakeToken(d) PROVE Paid'
  OBVIOUS
<1>0. LimiterTypeOK /\ Refilled \in 0..Capacity /\ Refilled <= credit + (now - last)
  BY RefilledBounds DEF Paid
<1>1. LimiterTypeOK'
  BY <1>0, CapacityNat DEF LimiterTypeOK, TakeToken, Capacity
<1>2. ASSUME NEW c \in Calls PROVE Awake(c)' /\ Asleep(c)'
  <2>1. passed[c] * Period \in Nat /\ (passed[c] + 1) * Period = passed[c] * Period + Period
    BY <1>0, OneMore DEF LimiterTypeOK
  <2>2. CASE c = d
    BY <1>0, <2>1, <2>2, CapacityNat DEF Paid, LimiterTypeOK, TakeToken, Awake, Asleep, Capacity
  <2>3. CASE c # d
    BY <1>0, <2>1, <2>3, CapacityNat DEF Paid, LimiterTypeOK, TakeToken, Awake, Asleep, Capacity
  <2> QED
    BY <2>2, <2>3
<1> QED
  BY <1>1, <1>2 DEF Paid

LEMMA PaidSleep == \A d \in Calls : Paid /\ FallAsleep(d) => Paid'
<1> SUFFICES ASSUME NEW d \in Calls, Paid, FallAsleep(d) PROVE Paid'
  OBVIOUS
<1>0. LimiterTypeOK /\ Refilled \in 0..Capacity /\ Refilled <= credit + (now - last)
  BY RefilledBounds DEF Paid
<1>1. LimiterTypeOK'
  BY <1>0, CapacityNat DEF LimiterTypeOK, FallAsleep, Capacity
<1>2. ASSUME NEW c \in Calls PROVE Awake(c)' /\ Asleep(c)'
  <2>1. passed[c] * Period \in Nat
    BY <1>0, OneMore DEF LimiterTypeOK
  <2>2. CASE c = d
    BY <1>0, <2>1, <2>2, CapacityNat DEF Paid, LimiterTypeOK, FallAsleep, Awake, Asleep, Capacity
  <2>3. CASE c # d
    BY <1>0, <2>1, <2>3, CapacityNat DEF Paid, LimiterTypeOK, FallAsleep, Awake, Asleep, Capacity
  <2> QED
    BY <2>2, <2>3
<1> QED
  BY <1>1, <1>2 DEF Paid

LEMMA PaidWake == \A d \in Calls : Paid /\ WakeUp(d) => Paid'
<1> SUFFICES ASSUME NEW d \in Calls, Paid, WakeUp(d) PROVE Paid'
  OBVIOUS
<1>1. LimiterTypeOK'
  BY CapacityNat DEF Paid, LimiterTypeOK, WakeUp, Capacity
<1>2. ASSUME NEW c \in Calls PROVE Awake(c)' /\ Asleep(c)'
  <2>1. passed[c] * Period \in Nat /\ (passed[c] + 1) * Period = passed[c] * Period + Period
    BY OneMore DEF Paid, LimiterTypeOK
  <2>2. CASE c = d
    BY <2>1, <2>2, CapacityNat DEF Paid, LimiterTypeOK, WakeUp, Awake, Asleep, Capacity
  <2>3. CASE c # d
    BY <2>1, <2>3, CapacityNat DEF Paid, LimiterTypeOK, WakeUp, Awake, Asleep, Capacity
  <2> QED
    BY <2>2, <2>3
<1> QED
  BY <1>1, <1>2 DEF Paid

LEMMA PaidStutter == Paid /\ UNCHANGED limiterVars => Paid'
<1> SUFFICES ASSUME Paid, UNCHANGED limiterVars PROVE Paid'
  OBVIOUS
<1> QED
  BY DEF Paid, LimiterTypeOK, limiterVars, bucket, Awake, Asleep, Capacity

THEOREM PaidAlways == LimiterSpec => []Paid
<1>1. Paid /\ [LimiterNext]_limiterVars => Paid'
  BY PaidTick, PaidTake, PaidSleep, PaidWake, PaidStutter DEF LimiterNext
<1> QED
  BY PaidInit, <1>1, PTL DEF LimiterSpec

\* The clock, the credit, the sleepers and the counts of the limiter stay in their ranges:
\* the credit, above all, never exceeds the burst and is never negative.
THEOREM LimiterTypes == LimiterSpec => []LimiterTypeOK
<1>1. Paid => LimiterTypeOK
  BY DEF Paid
<1> QED
  BY PaidAlways, <1>1, PTL

\* No caller gets more than the burst and twice the rate, however many callers share the
\* limiter and however their sleeps overlap.
THEOREM RateBound == LimiterSpec => []EachCallerBounded
<1>1. Paid => EachCallerBounded
  <2> SUFFICES ASSUME Paid, NEW c \in Calls
               PROVE  passed[c] * Period <= Capacity + 2 * now
    BY DEF EachCallerBounded
  <2>1. passed[c] * Period \in Nat
    BY OneMore DEF Paid, LimiterTypeOK
  <2> QED
    BY <2>1, CapacityNat DEF Paid, LimiterTypeOK, Awake, Asleep
<1> QED
  BY PaidAlways, <1>1, PTL

-----------------------------------------------------------------------------
(* The limiter *)

LEMMA CallStepLimits == ASSUME NEW c \in Calls, CallStep(c) PROVE [LimiterNext]_limiterVars
<1>1. CASE Begin(c)
  BY <1>1 DEF Begin, limiterVars
<1>2. CASE Passes(c)
  BY <1>2 DEF Passes, LimiterNext
<1>3. CASE Queues(c)
  BY <1>3 DEF Queues, LimiterNext
<1>4. CASE Fails(c)
  BY <1>4 DEF Fails, limiterVars
<1>5. CASE Answered(c)
  BY <1>5 DEF Answered, limiterVars
<1>6. CASE BackoffEnds(c)
  BY <1>6 DEF BackoffEnds, limiterVars
<1> QED
  BY <1>1, <1>2, <1>3, <1>4, <1>5, <1>6 DEF CallStep

LEMMA StepLimits == [Next]_vars => [LimiterNext]_limiterVars
<1> SUFFICES ASSUME [Next]_vars PROVE [LimiterNext]_limiterVars
  OBVIOUS
<1>1. ASSUME NEW c \in Calls, CallStep(c) \/ Fills(c) PROVE [LimiterNext]_limiterVars
  BY <1>1, CallStepLimits DEF Fills, limiterVars
<1>2. ASSUME NEW r \in requests, Executes(r) \/ Refuses(r) PROVE [LimiterNext]_limiterVars
  BY <1>2 DEF Executes, Refuses, limiterVars
<1>3. CASE Passing
  BY <1>3 DEF Passing, LimiterNext
<1>4. CASE UNCHANGED vars
  BY <1>4 DEF vars
<1> QED
  BY <1>1, <1>2, <1>3, <1>4 DEF Next

\* Whatever the requests do, they use the limiter the way TokenBucket says: the detailed
\* specification implements that of its limiter.
THEOREM UsesLimiter == Spec => LimiterSpec
<1>1. Init => LimiterInit
  BY DEF Init
<1> QED
  BY <1>1, StepLimits, PTL DEF Spec, LimiterSpec

\* No call of the client gets more than the burst and twice the rate of attempts past
\* the limiter, retries included.
THEOREM AttemptsAreBounded == Spec => []EachCallerBounded
  BY UsesLimiter, RateBound, PTL

-----------------------------------------------------------------------------
(* Types *)

Pending == {"limit", "inflight", "backoff"}

\* The types, and what is known of a call that has another attempt to make.
Sound ==
  /\ calls \in [Calls -> Call]
  /\ requests \subseteq Request
  /\ answer \in [Calls -> {"none", "ok", "garbled", "refused", "throttled", "server"}]
  /\ made \in [Calls -> Nat] /\ live \subseteq Calls
  /\ \A c \in Calls : calls[c].pc \in {"limit", "inflight"} => calls[c].attempt < MaxAttempts

\* Every request of a call carries the time at which it began.
Stamped ==
  /\ \A c \in Calls : calls[c].pc \in Pending => calls[c].stamp = calls[c].begun
  /\ \A r \in requests : calls[r.call].pc # "idle" /\ r.stamp = calls[r.call].begun

LEMMA Times ==
  /\ RecvWindow \in Nat \ {0} /\ Timeout \in Nat \ {0} /\ MaxAttempts \in Nat \ {0}
  /\ RetryDelay \in Nat \ {0} /\ MaxBackoff \in Nat \ {0}
  /\ \A k \in Nat : RetryDelay * k \in Nat
<1>1. \A m, n \in Nat : m * n \in Nat
  OBVIOUS
<1> QED
  BY <1>1, TimesAssumption

LEMMA EndpointsAreOK == GetBestBidAsk \in Endpoints
  BY DEF Endpoints

\* An idle or a finished call is one.
LEMMA IdleIsCall == Idle \in Call
<1>1. 0 \in 0..MaxAttempts
  BY Times
<1> QED
  BY <1>1, EndpointsAreOK DEF Idle, Call

LEMMA DoneIsCall ==
  ASSUME NEW call \in Call, NEW result \in {"ok", "error"}
  PROVE  Done(call, result) \in Call /\ Done(call, result).pc = "done"
         /\ Done(call, result).begun = call.begun
  BY IdleIsCall DEF Done, Idle, Call

\* Replacing a call by another of the right kind keeps the invariants.
LEMMA Replace ==
  ASSUME Sound, NEW c \in Calls, NEW call \in Call,
         calls' = [calls EXCEPT ![c] = call],
         call.pc \in {"limit", "inflight"} => call.attempt < MaxAttempts
  PROVE  /\ calls' \in [Calls -> Call]
         /\ calls'[c] = call
         /\ \A d \in Calls : d # c => calls'[d] = calls[d]
         /\ \A d \in Calls : calls'[d].pc \in {"limit", "inflight"} => calls'[d].attempt < MaxAttempts
<1>1. calls' \in [Calls -> Call] /\ calls'[c] = call /\ \A d \in Calls : d # c => calls'[d] = calls[d]
  BY DEF Sound
<1> QED
  BY <1>1 DEF Sound

\* The stamps are right after a replacement that keeps the time the call began.
LEMMA ReplaceStamped ==
  ASSUME Sound, Stamped, NEW c \in Calls, NEW call,
         calls'[c] = call, \A d \in Calls : d # c => calls'[d] = calls[d],
         call.pc # "idle", call.begun = calls[c].begun,
         call.pc \in Pending => call.stamp = call.begun,
         \A r \in requests' : r \in requests \/ (r.call = c /\ r.stamp = call.begun),
         requests \subseteq Request
  PROVE  Stamped'
<1>1. ASSUME NEW d \in Calls, calls'[d].pc \in Pending PROVE calls'[d].stamp = calls'[d].begun
  BY <1>1 DEF Stamped
<1>2. ASSUME NEW r \in requests' PROVE calls'[r.call].pc # "idle" /\ r.stamp = calls'[r.call].begun
  <2>1. CASE r \in requests
    <3>1. r.call \in Calls
      BY <2>1 DEF Request
    <3> QED
      BY <2>1, <3>1 DEF Stamped
  <2>2. CASE r.call = c /\ r.stamp = call.begun
    BY <2>2
  <2> QED
    BY <1>2, <2>1, <2>2
<1> QED
  BY <1>1, <1>2 DEF Stamped

Kept == Sound /\ Stamped /\ LimiterTypeOK

LEMMA NextAttemptIsCall ==
  ASSUME Kept, NEW c \in Calls, calls[c].pc = "inflight",
         NEW delay \in Nat, NEW lost \in BOOLEAN, NextAttempt(c, delay, lost)
  PROVE  \E call \in Call : /\ calls' = [calls EXCEPT ![c] = call]
                            /\ call.pc \in {"backoff", "done"}
                            /\ call.begun = calls[c].begun
                            /\ call.pc = "backoff" => call.stamp = call.begun
<1>0. calls[c] \in Call /\ calls[c].attempt < MaxAttempts /\ calls[c].stamp = calls[c].begun /\ now \in Nat
  BY DEF Kept, Sound, Stamped, Pending, LimiterTypeOK
<1> DEFINE k == calls[c].attempt + 1
           call == [calls[c] EXCEPT !.attempt = k, !.lost = calls[c].lost \/ lost]
<1>1. k \in 0..MaxAttempts /\ RetryDelay * k \in Nat
  BY <1>0, Times DEF Call
<1>2. call \in Call /\ call.begun = calls[c].begun /\ call.stamp = calls[c].stamp
  <2>1. (calls[c].lost \/ lost) \in BOOLEAN
    BY Zenon
  <2> QED
    BY <1>0, <1>1, <2>1 DEF Call
<1> HIDE DEF call
<1>3. CASE calls[c].policy = "client"
  <2>1. calls' = [calls EXCEPT ![c] = [call EXCEPT !.pc = "backoff", !.due = now + RetryDelay * k]]
    BY <1>3 DEF NextAttempt, call
  <2>2. now + RetryDelay * k \in Nat
    BY <1>0, <1>1
  <2>3. [call EXCEPT !.pc = "backoff", !.due = now + RetryDelay * k] \in Call
    BY <1>2, <2>2 DEF Call
  <2> QED
    BY <1>0, <1>2, <2>1, <2>3 DEF Call
<1>4. CASE calls[c].policy # "client" /\ k < MaxAttempts
  <2> DEFINE next == IF 2 * delay > MaxBackoff THEN MaxBackoff ELSE 2 * delay
  <2>1. calls' = [calls EXCEPT ![c] = [call EXCEPT !.pc = "backoff", !.due = now + delay, !.delay = next]]
    BY <1>4 DEF NextAttempt, call
  <2>2. now + delay \in Nat /\ next \in Nat
    BY <1>0, Times
  <2> HIDE DEF next
  <2>3. [call EXCEPT !.pc = "backoff", !.due = now + delay, !.delay = next] \in Call
    BY <1>2, <2>2 DEF Call
  <2> QED
    BY <1>0, <1>2, <2>1, <2>3 DEF Call
<1>5. CASE calls[c].policy # "client" /\ ~(k < MaxAttempts)
  <2>1. calls' = [calls EXCEPT ![c] = Done(call, "error")]
    BY <1>5 DEF NextAttempt, call
  <2> DEFINE done == Done(call, "error")
  <2>2. done \in Call /\ done.pc = "done" /\ done.begun = call.begun
    BY <1>2, DoneIsCall
  <2> HIDE DEF done
  <2> QED
    BY <1>2, <2>1, <2>2 DEF done
<1> QED
  BY <1>3, <1>4, <1>5

LEMMA KeptBegin == ASSUME Kept, NEW c \in Calls, Begin(c) PROVE Sound' /\ Stamped'
<1>1. PICK e \in Endpoints, p \in PolicyOf :
        calls' = [calls EXCEPT ![c] = [Idle EXCEPT !.pc = "limit", !.to = e, !.policy = p,
                                         !.begun = now, !.stamp = now, !.delay = RetryDelay]]
  BY DEF Begin
<1> DEFINE call == [Idle EXCEPT !.pc = "limit", !.to = e, !.policy = p,
                                !.begun = now, !.stamp = now, !.delay = RetryDelay]
<1>2. p \in {"client", "middleware"}
  BY <1>1, PoliciesAssumption DEF PolicyOf, Kept, Sound, Call
<1>3. call \in Call /\ call.pc = "limit" /\ call.attempt = 0 /\ call.stamp = call.begun
  BY <1>2, IdleIsCall, Times DEF Idle, Call, Kept, LimiterTypeOK
<1> HIDE DEF call
<1>4. calls' = [calls EXCEPT ![c] = call]
  BY <1>1 DEF call
<1>5. call.attempt < MaxAttempts
  BY <1>3, Times
<1>6. /\ calls' \in [Calls -> Call] /\ calls'[c] = call
      /\ \A d \in Calls : d # c => calls'[d] = calls[d]
      /\ \A d \in Calls : calls'[d].pc \in {"limit", "inflight"} => calls'[d].attempt < MaxAttempts
  BY <1>3, <1>4, <1>5, Replace DEF Kept
<1>7. Sound'
  BY <1>6 DEF Begin, exchange, Kept, Sound
<1>8. ASSUME NEW d \in Calls, calls'[d].pc \in Pending PROVE calls'[d].stamp = calls'[d].begun
  BY <1>3, <1>6, <1>8 DEF Kept, Stamped
<1>9. ASSUME NEW r \in requests' PROVE calls'[r.call].pc # "idle" /\ r.stamp = calls'[r.call].begun
  <2>1. r \in requests /\ r.call \in Calls /\ calls[r.call].pc # "idle"
    BY <1>9 DEF Begin, exchange, Kept, Sound, Stamped, Request
  <2>2. r.call # c
    BY <2>1 DEF Begin
  <2> QED
    BY <1>6, <2>1, <2>2 DEF Kept, Stamped
<1> QED
  BY <1>7, <1>8, <1>9 DEF Stamped

LEMMA KeptPasses == ASSUME Kept, NEW c \in Calls, Passes(c) PROVE Sound' /\ Stamped'
<1> DEFINE call == [calls[c] EXCEPT !.pc = "inflight", !.due = now + Timeout]
           r == [call |-> c, attempt |-> calls[c].attempt, stamp |-> calls[c].stamp]
<1>0. calls[c] \in Call /\ calls[c].pc = "limit" /\ calls[c].attempt < MaxAttempts
      /\ calls[c].stamp = calls[c].begun /\ now \in Nat
  BY DEF Passes, Kept, Sound, Stamped, Pending, LimiterTypeOK
<1>1. now + Timeout \in Nat
  BY <1>0, Times
<1>2. call \in Call /\ call.pc = "inflight" /\ call.begun = calls[c].begun
      /\ call.stamp = calls[c].stamp /\ call.attempt = calls[c].attempt
  BY <1>0, <1>1 DEF Call
<1>3. r \in Request
  <2>1. calls[c].attempt \in 0..MaxAttempts - 1
    BY <1>0, Times DEF Call
  <2> QED
    BY <1>0, <2>1 DEF Request, Call
<1>4. requests' = requests \union {r} /\ UNCHANGED <<answer, made, live>>
  BY DEF Passes, Send
<1>5. calls' = [calls EXCEPT ![c] = call]
  BY DEF Passes, Send, Kept, Sound
<1> HIDE DEF call
<1>6. /\ calls' \in [Calls -> Call] /\ calls'[c] = call
      /\ \A d \in Calls : d # c => calls'[d] = calls[d]
      /\ \A d \in Calls : calls'[d].pc \in {"limit", "inflight"} => calls'[d].attempt < MaxAttempts
  BY <1>0, <1>2, <1>5, Replace DEF Kept
<1>7. Sound'
  BY <1>3, <1>4, <1>6 DEF Kept, Sound
<1>8. \A q \in requests' : q \in requests \/ (q.call = c /\ q.stamp = call.begun)
  BY <1>0, <1>2, <1>4
<1>9. Stamped'
  BY <1>0, <1>2, <1>6, <1>8, ReplaceStamped DEF Kept, Sound
<1> QED
  BY <1>7, <1>9

LEMMA KeptFails == ASSUME Kept, NEW c \in Calls, Fails(c) PROVE Sound' /\ Stamped'
<1>1. calls[c].delay \in Nat
  BY DEF Kept, Sound, Call
<1>2. PICK call \in Call : /\ calls' = [calls EXCEPT ![c] = call]
                           /\ call.pc \in {"backoff", "done"}
                           /\ call.begun = calls[c].begun
                           /\ call.pc = "backoff" => call.stamp = call.begun
  BY <1>1, NextAttemptIsCall DEF Fails
<1>3. /\ calls' \in [Calls -> Call] /\ calls'[c] = call
      /\ \A d \in Calls : d # c => calls'[d] = calls[d]
      /\ \A d \in Calls : calls'[d].pc \in {"limit", "inflight"} => calls'[d].attempt < MaxAttempts
  BY <1>2, Replace DEF Kept
<1>4. Sound'
  BY <1>3 DEF Fails, Kept, Sound
<1>5. Stamped'
  BY <1>2, <1>3, ReplaceStamped DEF Fails, Kept, Sound, Pending
<1> QED
  BY <1>4, <1>5

LEMMA KeptAnswered == ASSUME Kept, NEW c \in Calls, Answered(c) PROVE Sound' /\ Stamped'
<1>1. \E call \in Call : /\ calls' = [calls EXCEPT ![c] = call]
                         /\ call.pc \in {"backoff", "done"}
                         /\ call.begun = calls[c].begun
                         /\ call.pc = "backoff" => call.stamp = call.begun
  <2>1. CASE answer[c] \in retries(calls[c].policy)
    <3>1. PICK wait \in {calls[c].delay, MaxBackoff} : NextAttempt(c, wait, FALSE)
      BY <2>1 DEF Answered
    <3>2. wait \in Nat
      BY Times DEF Kept, Sound, Call
    <3> QED
      BY <3>1, <3>2, NextAttemptIsCall DEF Answered
  <2>2. CASE answer[c] \notin retries(calls[c].policy)
    <3> DEFINE result == Result(calls[c].to, answer[c])
    <3>1. calls' = [calls EXCEPT ![c] = Done(calls[c], result)] /\ result \in {"ok", "error"}
      BY <2>2 DEF Answered, Returns, Result
    <3> HIDE DEF result
    <3> QED
      BY <3>1, DoneIsCall DEF Kept, Sound
  <2> QED
    BY <2>1, <2>2
<1>2. PICK call \in Call : /\ calls' = [calls EXCEPT ![c] = call]
                           /\ call.pc \in {"backoff", "done"}
                           /\ call.begun = calls[c].begun
                           /\ call.pc = "backoff" => call.stamp = call.begun
  BY <1>1
<1>3. /\ calls' \in [Calls -> Call] /\ calls'[c] = call
      /\ \A d \in Calls : d # c => calls'[d] = calls[d]
      /\ \A d \in Calls : calls'[d].pc \in {"limit", "inflight"} => calls'[d].attempt < MaxAttempts
  BY <1>2, Replace DEF Kept
<1>4. Sound'
  BY <1>3 DEF Answered, Kept, Sound
<1>5. Stamped'
  BY <1>2, <1>3, ReplaceStamped DEF Answered, Kept, Sound, Pending
<1> QED
  BY <1>4, <1>5

LEMMA KeptBackoff == ASSUME Kept, NEW c \in Calls, BackoffEnds(c) PROVE Sound' /\ Stamped'
<1>1. \E call \in Call : /\ calls' = [calls EXCEPT ![c] = call]
                         /\ call.pc \in {"limit", "done"}
                         /\ call.begun = calls[c].begun
                         /\ call.pc = "limit" => call.stamp = call.begun /\ call.attempt < MaxAttempts
  <2>1. CASE calls[c].attempt < MaxAttempts
    <3> DEFINE call == [calls[c] EXCEPT !.pc = "limit"]
    <3>1. calls' = [calls EXCEPT ![c] = call]
      BY <2>1 DEF BackoffEnds, Kept, Sound
    <3>2. call \in Call /\ call.begun = calls[c].begun /\ call.attempt = calls[c].attempt
          /\ call.stamp = calls[c].stamp
      BY DEF Kept, Sound, Call
    <3>3. calls[c].stamp = calls[c].begun
      BY DEF BackoffEnds, Kept, Stamped, Pending
    <3> HIDE DEF call
    <3>4. call.pc = "limit"
      BY DEF call, Kept, Sound, Call
    <3> QED
      BY <2>1, <3>1, <3>2, <3>3, <3>4
  <2>2. CASE ~(calls[c].attempt < MaxAttempts)
    BY <2>2, DoneIsCall DEF BackoffEnds, Returns, Kept, Sound
  <2> QED
    BY <2>1, <2>2
<1>2. PICK call \in Call : /\ calls' = [calls EXCEPT ![c] = call]
                           /\ call.pc \in {"limit", "done"}
                           /\ call.begun = calls[c].begun
                           /\ call.pc = "limit" => call.stamp = call.begun /\ call.attempt < MaxAttempts
  BY <1>1
<1>3. /\ calls' \in [Calls -> Call] /\ calls'[c] = call
      /\ \A d \in Calls : d # c => calls'[d] = calls[d]
      /\ \A d \in Calls : calls'[d].pc \in {"limit", "inflight"} => calls'[d].attempt < MaxAttempts
  BY <1>2, Replace DEF Kept
<1>4. Sound'
  BY <1>3 DEF BackoffEnds, exchange, Kept, Sound
<1>5. Stamped'
  BY <1>2, <1>3, ReplaceStamped DEF BackoffEnds, exchange, Kept, Sound, Pending
<1> QED
  BY <1>4, <1>5

-----------------------------------------------------------------------------
(* The exchange *)

LEMMA ReplyTypes ==
  ASSUME Sound, NEW r \in requests, NEW status, Reply(r, status),
         status \in {"ok", "garbled", "refused", "throttled", "server"}
  PROVE  answer' \in [Calls -> {"none", "ok", "garbled", "refused", "throttled", "server"}]
  BY DEF Sound, Reply

LEMMA EffectTypes ==
  ASSUME Sound, NEW c \in Calls, Effects(c)
  PROVE  made' \in [Calls -> Nat] /\ live' \subseteq Calls
<1>1. CASE calls[c].to.effect = "limit"
  <2>1. made' = [made EXCEPT ![c] = made[c] + 1] /\ live' = live \union {c}
    BY <1>1 DEF Effects
  <2> QED
    BY <2>1 DEF Sound
<1>2. CASE calls[c].to.effect = "market"
  <2>1. made' = [made EXCEPT ![c] = made[c] + 1] /\ live' = live
    BY <1>2 DEF Effects
  <2> QED
    BY <2>1 DEF Sound
<1>3. CASE calls[c].to.effect = "cancel"
  BY <1>3 DEF Effects, Sound
<1>4. CASE calls[c].to.effect = "cancelAll"
  BY <1>4 DEF Effects, Sound
<1>5. CASE calls[c].to.effect \notin {"limit", "market", "cancel", "cancelAll"}
  BY <1>5 DEF Effects, Sound
<1> QED
  BY <1>1, <1>2, <1>3, <1>4, <1>5

\* Requests only disappear at the exchange.
LEMMA StampedStays ==
  ASSUME Stamped, calls' = calls, requests' \subseteq requests
  PROVE  Stamped'
  BY DEF Stamped

LEMMA KeptExecutes == ASSUME Kept, NEW r \in requests, Executes(r) PROVE Sound' /\ Stamped'
<1>1. r.call \in Calls
  BY DEF Kept, Sound, Request
<1>2. made' \in [Calls -> Nat] /\ live' \subseteq Calls
  BY <1>1, EffectTypes DEF Executes, Kept
<1>3. answer' \in [Calls -> {"none", "ok", "garbled", "refused", "throttled", "server"}]
  BY ReplyTypes DEF Executes, Kept
<1>4. calls' = calls /\ requests' \subseteq requests
  BY DEF Executes
<1> QED
  BY <1>2, <1>3, <1>4, StampedStays DEF Kept, Sound

LEMMA KeptRefuses == ASSUME Kept, NEW r \in requests, Refuses(r) PROVE Sound' /\ Stamped'
<1>1. answer' \in [Calls -> {"none", "ok", "garbled", "refused", "throttled", "server"}]
  BY ReplyTypes DEF Refuses, Kept
<1>2. calls' = calls /\ requests' \subseteq requests
  BY DEF Refuses
<1> QED
  BY <1>1, <1>2, StampedStays DEF Refuses, Kept, Sound

LEMMA KeptStep == Kept /\ [Next]_vars => Sound' /\ Stamped'
<1> SUFFICES ASSUME Kept, [Next]_vars PROVE Sound' /\ Stamped'
  OBVIOUS
<1>1. ASSUME NEW c \in Calls, CallStep(c) PROVE Sound' /\ Stamped'
  <2>1. CASE Queues(c)
    BY <2>1 DEF Queues, exchange, Kept, Sound, Stamped
  <2> QED
    BY <1>1, <2>1, KeptBegin, KeptPasses, KeptFails, KeptAnswered, KeptBackoff DEF CallStep
<1>2. ASSUME NEW c \in Calls, Fills(c) PROVE Sound' /\ Stamped'
  BY <1>2 DEF Fills, Kept, Sound, Stamped
<1>3. ASSUME NEW r \in requests, Executes(r) \/ Refuses(r) PROVE Sound' /\ Stamped'
  BY <1>3, KeptExecutes, KeptRefuses
<1>4. CASE Passing
  <2>1. calls' = calls /\ requests' \subseteq requests /\ UNCHANGED <<answer, made, live>>
    BY <1>4 DEF Passing
  <2> QED
    BY <2>1, StampedStays DEF Kept, Sound
<1>5. CASE UNCHANGED vars
  BY <1>5 DEF vars, exchange, Kept, Sound, Stamped
<1> QED
  BY <1>1, <1>2, <1>3, <1>4, <1>5 DEF Next

THEOREM KeptAlways == Spec => []Kept
<1>1. Init => Sound /\ Stamped
  <2> SUFFICES ASSUME Init PROVE Sound /\ Stamped
    OBVIOUS
  <2>1. \A c \in Calls : calls[c].pc = "idle"
    BY DEF Init, Idle
  <2>2. calls \in [Calls -> Call]
    BY IdleIsCall DEF Init
  <2> QED
    BY <2>1, <2>2 DEF Init, Sound, Stamped, Pending
<1>2. Spec => []LimiterTypeOK
  BY UsesLimiter, LimiterTypes, PTL
<1>3. Sound /\ Stamped /\ LimiterTypeOK /\ [Next]_vars => Sound' /\ Stamped'
  BY KeptStep DEF Kept
<1>4. Sound /\ Stamped /\ LimiterTypeOK => Kept
  BY DEF Kept
<1> QED
  BY <1>1, <1>2, <1>3, <1>4, PTL DEF Spec

\* The state of the gateway is well typed: above all no call makes more than MaxAttempts
\* attempts, whichever of the two ways it is sent.
THEOREM GatewayTypes == Spec => []TypeOK
<1>1. Kept => TypeOK
  BY DEF Kept, Sound, TypeOK
<1> QED
  BY KeptAlways, <1>1, PTL

\* However often a placement is retried, and however late its requests arrive, the
\* exchange creates no order for it once RecvWindow has passed since the call began.
THEOREM NoLateOrder == Spec => NoOrderAfterWindow
<1>1. ASSUME Kept, [Next]_vars, NEW c \in Calls, made'[c] > made[c]
      PROVE  now <= calls[c].begun + RecvWindow
  <2>1. made' # made
    BY <1>1 DEF Kept, Sound
  <2>2. PICK r \in requests : Executes(r)
    BY <1>1, <2>1 DEF Next, CallStep, Begin, Passes, Send, Queues, Fails, Answered, BackoffEnds,
                      Fills, Refuses, Passing, vars, exchange
  <2>3. r.call \in Calls /\ r.stamp = calls[r.call].begun
    BY <1>1 DEF Kept, Sound, Stamped, Request
  <2>4. calls[r.call].to \in Endpoints /\ calls[r.call].begun \in Nat /\ now \in Nat
    BY <1>1, <2>3 DEF Kept, Sound, Call, LimiterTypeOK
  <2>5. r.call = c /\ calls[r.call].to.effect \in {"limit", "market"}
    <3>1. Effects(r.call)
      BY <2>2 DEF Executes
    <3> QED
      BY <1>1, <2>1, <2>3, <3>1 DEF Effects, Kept, Sound
  <2>6. calls[r.call].to.signed
    BY <2>4, <2>5 DEF Endpoints, Endpoint, PlaceLimit, PlaceMarket, CancelOrder, CancelAll,
                      SetDualPosition, SetMarginType, SetLeverage, GetDualPosition, GetBestBidAsk,
                      AccountBalances, AccountInfo, PositionRisk, LeverageBrackets, ExchangeInfo
  <2>7. ~(now > r.stamp + RecvWindow)
    BY <2>2, <2>6 DEF Executes, Expired
  <2> QED
    BY <2>3, <2>4, <2>5, <2>7, Times
<1>2. Kept /\ [Next]_vars => [\A c \in Calls : made'[c] > made[c] => now <= calls[c].begun + RecvWindow]_vars
  BY <1>1
<1> QED
  BY KeptAlways, <1>2, PTL DEF Spec, NoOrderAfterWindow

-----------------------------------------------------------------------------
(* What a step of a call leaves of it *)

\* Only calls that wait for an answer have one.
AnswersAwaited == \A c \in Calls : answer[c] # "none" => calls[c].pc = "inflight"

LEMMA NextAttemptMoves ==
  ASSUME Kept, NEW c \in Calls, NEW delay, NEW lost, NextAttempt(c, delay, lost)
  PROVE  /\ \A d \in Calls : d # c => calls'[d] = calls[d]
         /\ calls'[c].to = calls[c].to /\ calls'[c].begun = calls[c].begun
         /\ calls'[c].policy = calls[c].policy
         /\ calls'[c].result \in {calls[c].result, "error"}
         /\ calls[c].lost \/ lost => calls'[c].lost
         /\ calls'[c].pc \in {"backoff", "done"}
         /\ calls[c].policy = "client" =>
              /\ calls'[c].pc = "backoff" /\ calls'[c].attempt = calls[c].attempt + 1
              /\ calls'[c].due = now + RetryDelay * (calls[c].attempt + 1)
<1>0. calls \in [Calls -> Call] /\ calls[c] \in Call
  BY DEF Kept, Sound
<1> DEFINE k == calls[c].attempt + 1
           call == [calls[c] EXCEPT !.attempt = k, !.lost = calls[c].lost \/ lost]
<1>1. /\ DOMAIN call = DOMAIN calls[c] /\ call.to = calls[c].to /\ call.begun = calls[c].begun
      /\ call.policy = calls[c].policy /\ call.result = calls[c].result /\ call.attempt = k
      /\ calls[c].lost \/ lost => call.lost
  BY <1>0 DEF Call
<1>2. DOMAIN calls[c] = {"pc", "to", "policy", "attempt", "begun", "stamp", "due", "delay", "lost", "result"}
  BY <1>0 DEF Call
<1> HIDE DEF call
<1>3. CASE calls[c].policy = "client"
  <2> DEFINE next == [call EXCEPT !.pc = "backoff", !.due = now + RetryDelay * k]
  <2>1. calls' = [calls EXCEPT ![c] = next]
    BY <1>3 DEF NextAttempt, call
  <2>2. /\ next.to = call.to /\ next.begun = call.begun /\ next.policy = call.policy
        /\ next.result = call.result /\ next.lost = call.lost /\ next.attempt = call.attempt
        /\ next.pc = "backoff" /\ next.due = now + RetryDelay * k
    BY <1>1, <1>2
  <2> HIDE DEF next
  <2> QED
    BY <1>0, <1>1, <2>1, <2>2
<1>4. CASE calls[c].policy # "client" /\ k < MaxAttempts
  <2> DEFINE wait == IF 2 * delay > MaxBackoff THEN MaxBackoff ELSE 2 * delay
             next == [call EXCEPT !.pc = "backoff", !.due = now + delay, !.delay = wait]
  <2>1. calls' = [calls EXCEPT ![c] = next]
    BY <1>4 DEF NextAttempt, call
  <2> HIDE DEF wait
  <2>2. /\ next.to = call.to /\ next.begun = call.begun /\ next.policy = call.policy
        /\ next.result = call.result /\ next.lost = call.lost /\ next.pc = "backoff"
    BY <1>1, <1>2
  <2> HIDE DEF next
  <2> QED
    BY <1>0, <1>1, <1>4, <2>1, <2>2
<1>5. CASE calls[c].policy # "client" /\ ~(k < MaxAttempts)
  <2>1. calls' = [calls EXCEPT ![c] = Done(call, "error")]
    BY <1>5 DEF NextAttempt, call
  <2>2. LET done == Done(call, "error")
        IN /\ done.to = call.to /\ done.begun = call.begun /\ done.policy = call.policy
           /\ done.result = "error" /\ done.lost = call.lost /\ done.pc = "done"
    BY DEF Done, Idle
  <2> QED
    BY <1>0, <1>1, <1>5, <2>1, <2>2
<1> QED
  BY <1>3, <1>4, <1>5

LEMMA ReturnsMoves ==
  ASSUME Kept, NEW c \in Calls, NEW result, Returns(c, result)
  PROVE  /\ \A d \in Calls : d # c => calls'[d] = calls[d]
         /\ calls'[c].to = calls[c].to /\ calls'[c].begun = calls[c].begun
         /\ calls'[c].policy = calls[c].policy
         /\ calls'[c].result = result /\ calls'[c].lost = calls[c].lost
         /\ calls'[c].pc = "done"
<1>1. calls' = [calls EXCEPT ![c] = Done(calls[c], result)] /\ calls \in [Calls -> Call]
  BY DEF Returns, Kept, Sound
<1>2. LET done == Done(calls[c], result)
      IN /\ done.to = calls[c].to /\ done.begun = calls[c].begun /\ done.policy = calls[c].policy
         /\ done.result = result /\ done.lost = calls[c].lost /\ done.pc = "done"
  BY DEF Done, Idle
<1> QED
  BY <1>1, <1>2

\* A step that goes on with a call keeps what it is and when it began.
LEMMA CallMoves ==
  ASSUME Kept, NEW c \in Calls, CallStep(c), ~Begin(c)
  PROVE  /\ \A d \in Calls : d # c => calls'[d] = calls[d]
         /\ calls'[c].to = calls[c].to /\ calls'[c].begun = calls[c].begun
         /\ calls'[c].policy = calls[c].policy
         /\ calls[c].lost => calls'[c].lost
         /\ calls[c].pc # "idle" /\ calls'[c].pc # "idle"
         /\ calls'[c].result = "ok" =>
              calls[c].result = "ok" \/ Result(calls[c].to, answer[c]) = "ok"
<1>0. calls \in [Calls -> Call] /\ calls[c] \in Call
  BY DEF Kept, Sound
<1>1. CASE Passes(c)
  BY <1>0, <1>1 DEF Passes, Send, Call
<1>2. CASE Queues(c)
  BY <1>2 DEF Queues
<1>3. CASE Fails(c)
  BY <1>3, NextAttemptMoves DEF Fails
<1>4. CASE Answered(c)
  <2>1. CASE answer[c] \in retries(calls[c].policy)
    <3>1. PICK wait : NextAttempt(c, wait, FALSE)
      BY <1>4, <2>1 DEF Answered
    <3> QED
      BY <1>4, <3>1, NextAttemptMoves DEF Answered
  <2>2. CASE answer[c] \notin retries(calls[c].policy)
    BY <1>4, <2>2, ReturnsMoves DEF Answered
  <2> QED
    BY <2>1, <2>2
<1>5. CASE BackoffEnds(c)
  <2>1. CASE calls[c].attempt < MaxAttempts
    BY <1>0, <1>5, <2>1 DEF BackoffEnds, Call
  <2>2. CASE ~(calls[c].attempt < MaxAttempts)
    BY <1>5, <2>2, ReturnsMoves DEF BackoffEnds
  <2> QED
    BY <2>1, <2>2
<1> QED
  BY <1>1, <1>2, <1>3, <1>4, <1>5 DEF CallStep

LEMMA BeginMoves ==
  ASSUME Kept, NEW c \in Calls, Begin(c)
  PROVE  /\ \A d \in Calls : d # c => calls'[d] = calls[d]
         /\ calls[c].pc = "idle" /\ calls'[c].pc = "limit" /\ calls'[c].begun = now
         /\ calls'[c].result = "none" /\ calls'[c].attempt = 0 /\ ~calls'[c].lost
<1>1. PICK e \in Endpoints, p \in PolicyOf :
        calls' = [calls EXCEPT ![c] = [Idle EXCEPT !.pc = "limit", !.to = e, !.policy = p,
                                         !.begun = now, !.stamp = now, !.delay = RetryDelay]]
  BY DEF Begin
<1> QED
  BY <1>1 DEF Begin, Kept, Sound, Idle

\* A step of a call gives no answer, and takes none but its own.
LEMMA AnswersMove ==
  ASSUME Kept, AnswersAwaited, NEW c \in Calls, CallStep(c)
  PROVE  /\ \A d \in Calls : d # c => answer'[d] = answer[d]
         /\ answer'[c] = "none"
         /\ UNCHANGED <<made, live>> /\ now' = now
<1>1. CASE Begin(c) \/ Passes(c) \/ Queues(c) \/ BackoffEnds(c)
  <2>1. calls[c].pc # "inflight" \/ answer[c] = "none"
    BY <1>1 DEF Begin, Passes, Queues, BackoffEnds
  <2> QED
    BY <1>1, <2>1 DEF Begin, Passes, Queues, BackoffEnds, Send, TakeToken, WakeUp, FallAsleep, exchange,
                      AnswersAwaited
<1>2. CASE Fails(c) \/ Answered(c)
  BY <1>2 DEF Fails, Answered, Kept, Sound
<1> QED
  BY <1>1, <1>2 DEF CallStep

\* What the exchange does with a request, seen from its call.
LEMMA ReplyMoves ==
  ASSUME Kept, NEW r \in requests, NEW status, Reply(r, status)
  PROVE  /\ r.call \in Calls
         /\ \A d \in Calls : answer'[d] = answer[d] \/ (d = r.call /\ Awaited(r) /\ answer'[d] = status)
  BY DEF Kept, Sound, Request, Reply

LEMMA AnswersStep == Kept /\ AnswersAwaited /\ [Next]_vars => AnswersAwaited'
<1> SUFFICES ASSUME Kept, AnswersAwaited, [Next]_vars PROVE AnswersAwaited'
  OBVIOUS
<1>1. ASSUME NEW c \in Calls, CallStep(c) PROVE AnswersAwaited'
  BY <1>1, AnswersMove, CallMoves, BeginMoves DEF AnswersAwaited
<1>2. ASSUME NEW c \in Calls, Fills(c) PROVE AnswersAwaited'
  BY <1>2 DEF Fills, AnswersAwaited
<1>3. ASSUME NEW r \in requests, Executes(r) \/ Refuses(r) PROVE AnswersAwaited'
  <2>1. PICK status : Reply(r, status)
    BY <1>3 DEF Executes, Refuses
  <2>2. calls' = calls
    BY <1>3 DEF Executes, Refuses
  <2> QED
    BY <2>1, <2>2, ReplyMoves DEF AnswersAwaited, Awaited
<1>4. CASE Passing
  BY <1>4 DEF Passing, AnswersAwaited
<1>5. CASE UNCHANGED vars
  BY <1>5 DEF vars, exchange, AnswersAwaited
<1> QED
  BY <1>1, <1>2, <1>3, <1>4, <1>5 DEF Next

-----------------------------------------------------------------------------
(* CancelAll *)

\* No call began in the future; and since the answer of the exchange, not only since the
\* return of the call, no older placement is open.
Cleared ==
  /\ \A c \in Calls : calls[c].begun <= now
  /\ \A a, c \in Calls :
       /\ calls[a].to = CancelAll
       /\ calls[a].result = "ok" \/ answer[a] \in {"ok", "garbled"}
       /\ calls[c].pc # "idle" /\ calls[c].begun + RecvWindow < calls[a].begun
       => c \notin live

LEMMA ClearedStep == Kept /\ AnswersAwaited /\ Cleared /\ [Next]_vars => Cleared'
<1> SUFFICES ASSUME Kept, AnswersAwaited, Cleared, [Next]_vars PROVE Cleared'
  OBVIOUS
<1>0. /\ now \in Nat /\ RecvWindow \in Nat /\ \A c \in Calls : calls[c].begun \in Nat
  BY Times DEF Kept, Sound, Call, LimiterTypeOK
<1>1. ASSUME NEW c \in Calls, Begin(c) PROVE Cleared'
  <2>1. \A d \in Calls : calls'[d].begun <= now /\ now' = now /\ live' = live /\ answer' = answer
    <3>1. now' = now /\ live' = live /\ answer' = answer
      BY <1>1 DEF Begin, exchange
    <3> QED
      BY <1>0, <1>1, <3>1, BeginMoves DEF Cleared
  <2>2. ASSUME NEW a \in Calls, NEW d \in Calls,
               calls'[a].to = CancelAll, calls'[a].result = "ok" \/ answer'[a] \in {"ok", "garbled"},
               calls'[d].pc # "idle", calls'[d].begun + RecvWindow < calls'[a].begun
        PROVE  d \notin live'
    <3>1. d # c
      BY <1>0, <1>1, <2>1, <2>2, BeginMoves
    <3>2. a # c
      BY <1>1, <2>1, <2>2, BeginMoves DEF AnswersAwaited
    <3> QED
      BY <1>1, <2>1, <2>2, <3>1, <3>2, BeginMoves DEF Cleared
  <2> QED
    BY <2>1, <2>2 DEF Cleared
<1>2. ASSUME NEW c \in Calls, CallStep(c), ~Begin(c) PROVE Cleared'
  <2>1. Result(CancelAll, answer[c]) = "ok" => answer[c] \in {"ok", "garbled"}
    BY DEF Result, CancelAll, Endpoint
  <2> QED
    BY <1>0, <1>2, <2>1, CallMoves, AnswersMove DEF Cleared
<1>3. ASSUME NEW c \in Calls, Fills(c) PROVE Cleared'
  BY <1>3 DEF Fills, Cleared, bucket
<1>4. ASSUME NEW r \in requests, Executes(r) PROVE Cleared'
  <2>0. r.call \in Calls /\ r.stamp = calls[r.call].begun /\ now' = now /\ calls' = calls
    BY <1>4 DEF Executes, Kept, Sound, Stamped, Request
  <2>1. CASE calls[r.call].to = CancelAll
    <3>1. live' = {}
      BY <1>4, <2>1 DEF Executes, Effects, CancelAll, Endpoint
    <3> QED
      BY <2>0, <3>1 DEF Cleared
  <2>2. CASE calls[r.call].to # CancelAll
    <3>1. \A a \in Calls : calls[a].to = CancelAll => answer'[a] = answer[a]
      BY <1>4, <2>2, ReplyMoves DEF Executes
    <3>2. CASE live' \subseteq live
      BY <2>0, <3>1, <3>2 DEF Cleared
    <3>3. CASE ~(live' \subseteq live)
      <4>1. calls[r.call].to.effect = "limit" /\ live' = live \union {r.call}
        BY <1>4, <3>3 DEF Executes, Effects
      <4>2. calls[r.call].to.signed
        BY <2>0, <4>1 DEF Kept, Sound, Call, Endpoints, Endpoint, PlaceLimit, PlaceMarket, CancelOrder,
                          CancelAll, SetDualPosition, SetMarginType, SetLeverage, GetDualPosition,
                          GetBestBidAsk, AccountBalances, AccountInfo, PositionRisk, LeverageBrackets,
                          ExchangeInfo
      <4>3. ~(now > calls[r.call].begun + RecvWindow)
        BY <1>4, <2>0, <4>2 DEF Executes, Expired
      <4>4. \A a \in Calls : ~(calls[r.call].begun + RecvWindow < calls[a].begun)
        BY <1>0, <2>0, <4>3 DEF Cleared
      <4> QED
        BY <2>0, <3>1, <4>1, <4>4 DEF Cleared
    <3> QED
      BY <3>2, <3>3
  <2> QED
    BY <2>1, <2>2
<1>5. ASSUME NEW r \in requests, Refuses(r) PROVE Cleared'
  <2>1. PICK status \in {"refused", "throttled", "server"} : Reply(r, status)
    BY <1>5 DEF Refuses
  <2>2. UNCHANGED <<now, calls, live>>
    BY <1>5 DEF Refuses
  <2> QED
    BY <2>1, <2>2, ReplyMoves DEF Cleared
<1>6. CASE Passing
  BY <1>0, <1>6 DEF Passing, Tick, Cleared
<1>7. CASE UNCHANGED vars
  BY <1>7 DEF vars, exchange, limiterVars, Cleared
<1> QED
  BY <1>1, <1>2, <1>3, <1>4, <1>5, <1>6, <1>7 DEF Next

LEMMA ExchangeInit == Init => AnswersAwaited /\ Cleared
<1> SUFFICES ASSUME Init PROVE AnswersAwaited /\ Cleared
  OBVIOUS
<1>1. \A c \in Calls : calls[c] = Idle /\ answer[c] = "none"
  BY DEF Init
<1>2. now = 0 /\ live = {}
  BY DEF Init, LimiterInit
<1> QED
  BY <1>1, <1>2 DEF Idle, AnswersAwaited, Cleared

THEOREM AnswersAlwaysAwaited == Spec => []AnswersAwaited
  BY KeptAlways, ExchangeInit, AnswersStep, PTL DEF Spec

\* A CancelAll that succeeded leaves no order of a placement that began more than
\* RecvWindow before it, however its request and theirs were delayed or retried.
THEOREM CancelAllIsThorough == Spec => []CancelAllClears
<1>1. Cleared => CancelAllClears
  BY DEF Cleared, CancelAllClears
<1> QED
  BY KeptAlways, AnswersAlwaysAwaited, ExchangeInit, ClearedStep, <1>1, PTL DEF Spec

-----------------------------------------------------------------------------
(* One order *)

\* As long as no attempt was lost, the only request of a call is the attempt it waits for,
\* not yet answered; and once a call of the client has its order, nothing is left that
\* could bring it to another attempt.
NoLooseRequest(c) ==
  ~calls[c].lost => \A r \in requests : r.call = c => Awaited(r) /\ answer[c] = "none"

Settled(c) ==
  /\ calls[c].pc = "idle" => made[c] = 0
  /\ calls[c].policy = "client" /\ ~calls[c].lost /\ made[c] # 0 =>
       /\ made[c] = 1
       /\ calls[c].pc \in {"inflight", "done"}
       /\ answer[c] # "throttled"
       /\ \A r \in requests : r.call # c

Single == \A c \in Calls : NoLooseRequest(c) /\ Settled(c)

LEMMA SingleCall ==
  ASSUME Kept, AnswersAwaited, Single, NEW c \in Calls, CallStep(c)
  PROVE  Single'
<1>1. /\ \A d \in Calls : d # c => calls'[d] = calls[d] /\ answer'[d] = answer[d]
      /\ answer'[c] = "none" /\ made' = made
  BY CallMoves, BeginMoves, AnswersMove
<1>2. \A r \in requests' : r \in requests \/ r.call = c
  <2>1. CASE Passes(c)
    BY <2>1 DEF Passes, Send
  <2>2. CASE ~Passes(c)
    BY <2>2 DEF CallStep, Begin, Queues, Fails, Answered, BackoffEnds, exchange
  <2> QED
    BY <2>1, <2>2
<1>3. ASSUME NEW d \in Calls, d # c PROVE NoLooseRequest(d)' /\ Settled(d)'
  BY <1>1, <1>2, <1>3 DEF Single, NoLooseRequest, Settled, Awaited
<1>4. CASE Begin(c)
  <2>1. requests' = requests /\ \A r \in requests : r.call # c
    BY <1>4 DEF Begin, exchange, Kept, Stamped
  <2>2. made[c] = 0
    BY <1>4 DEF Begin, Single, Settled
  <2>3. calls'[c].pc = "limit"
    BY <1>4, BeginMoves
  <2> QED
    BY <1>1, <1>3, <2>1, <2>2, <2>3 DEF Single, NoLooseRequest, Settled
<1>5. CASE Passes(c)
  <2>1. /\ calls[c].pc = "limit" /\ calls'[c].pc = "inflight" /\ calls'[c].attempt = calls[c].attempt
        /\ calls'[c].lost = calls[c].lost /\ calls'[c].policy = calls[c].policy
    BY <1>5 DEF Passes, Send, Kept, Sound, Call
  <2>2. \A r \in requests' : r \in requests \/ (r.call = c /\ r.attempt = calls[c].attempt)
    BY <1>5 DEF Passes, Send
  <2>3. ~calls[c].lost => \A r \in requests : r.call # c
    BY <2>1 DEF Single, NoLooseRequest, Awaited
  <2>4. NoLooseRequest(c)'
    BY <1>1, <2>1, <2>2, <2>3 DEF NoLooseRequest, Awaited
  <2>5. calls[c].policy = "client" /\ ~calls[c].lost => made[c] = 0
    BY <2>1 DEF Single, Settled
  <2>6. Settled(c)'
    BY <1>1, <2>1, <2>5 DEF Settled
  <2> QED
    BY <1>3, <2>4, <2>6 DEF Single
<1>6. CASE Queues(c)
  BY <1>1, <1>3, <1>6 DEF Queues, exchange, Single, NoLooseRequest, Settled, Awaited
<1>7. CASE Fails(c)
  <2>1. calls'[c].lost /\ calls'[c].pc # "idle"
    BY <1>7, NextAttemptMoves DEF Fails
  <2> QED
    BY <1>3, <2>1 DEF Single, NoLooseRequest, Settled
<1>8. CASE Answered(c) \/ BackoffEnds(c)
  <2>1. requests' = requests /\ calls[c].pc # "idle" /\ calls'[c].pc # "idle"
        /\ calls'[c].policy = calls[c].policy /\ (calls[c].lost => calls'[c].lost)
    BY <1>8, CallMoves DEF Answered, BackoffEnds, Begin, CallStep, exchange
  <2>2. ~calls[c].lost => \A r \in requests : r.call # c
    BY <1>8 DEF Answered, BackoffEnds, Single, NoLooseRequest, Awaited
  <2>3. NoLooseRequest(c)'
    BY <2>1, <2>2 DEF NoLooseRequest
  <2>4. ASSUME calls[c].policy = "client", ~calls[c].lost, made[c] # 0 PROVE calls'[c].pc = "done"
    <3>1. Answered(c) /\ answer[c] \notin retries(calls[c].policy)
      BY <1>8, <2>4 DEF BackoffEnds, Single, Settled, retries
    <3> QED
      BY <3>1, ReturnsMoves DEF Answered
  <2>5. Settled(c)'
    BY <1>1, <2>1, <2>2, <2>4 DEF Single, Settled
  <2> QED
    BY <1>3, <2>3, <2>5 DEF Single
<1> QED
  BY <1>4, <1>5, <1>6, <1>7, <1>8 DEF CallStep

\* As long as no attempt was lost, a call has at most one request.
LEMMA OneRequest ==
  ASSUME Kept, Single, NEW r \in requests, ~calls[r.call].lost, NEW q \in requests, q.call = r.call
  PROVE  q = r
<1>1. Awaited(q) /\ Awaited(r)
  BY DEF Single, NoLooseRequest, Kept, Sound, Request
<1>2. q.stamp = r.stamp /\ q.attempt = r.attempt /\ q \in Request /\ r \in Request
  BY <1>1 DEF Awaited, Kept, Sound, Stamped
<1> QED
  BY <1>2 DEF Request

\* Requests that reach the exchange, or are lost.
LEMMA SingleRequest ==
  ASSUME Kept, Single, NEW r \in requests, Executes(r) \/ Refuses(r)
  PROVE  Single'
<1>0. r.call \in Calls /\ calls' = calls /\ requests' = requests \ {r}
  BY DEF Executes, Refuses, Kept, Sound, Request
<1>1. PICK status : Reply(r, status) /\ (Executes(r) => status # "throttled")
  BY DEF Executes, Refuses
<1>2. \A d \in Calls : d # r.call => answer'[d] = answer[d]
  BY <1>1, ReplyMoves
<1>3. \A d \in Calls : made'[d] # made[d] => d = r.call /\ made'[d] = made[d] + 1 /\ Executes(r)
  <2>1. CASE Refuses(r)
    BY <2>1 DEF Refuses
  <2>2. CASE Executes(r)
    BY <1>0, <2>2 DEF Executes, Effects, Kept, Sound
  <2> QED
    BY <2>1, <2>2
<1>4. ASSUME NEW d \in Calls PROVE NoLooseRequest(d)'
  <2>1. CASE d # r.call
    BY <1>0, <1>2, <2>1 DEF Single, NoLooseRequest, Awaited
  <2>2. CASE d = r.call
    BY <1>0, <2>2, OneRequest DEF NoLooseRequest
  <2> QED
    BY <2>1, <2>2
<1>5. ASSUME NEW d \in Calls PROVE Settled(d)'
  <2>1. CASE d # r.call
    BY <1>0, <1>2, <1>3, <2>1 DEF Single, Settled
  <2>2. CASE d = r.call
    <3>0. calls[d].pc # "idle" /\ made[d] \in Nat
      BY <2>2 DEF Kept, Sound, Stamped
    <3>1. CASE calls[d].policy = "client" /\ ~calls[d].lost
      <4>1. made[d] = 0 /\ Awaited(r)
        BY <1>0, <2>2, <3>1 DEF Single, Settled, NoLooseRequest
      <4>2. \A q \in requests' : q.call # d
        BY <1>0, <2>2, <3>1, OneRequest
      <4>3. made'[d] # 0 => made'[d] = 1 /\ Executes(r)
        BY <1>3, <4>1
      <4>4. Executes(r) => answer'[d] # "throttled"
        <5>1. answer[d] = "none"
          BY <2>2, <3>1, <4>1 DEF Single, NoLooseRequest
        <5> QED
          BY <1>1, <5>1, ReplyMoves
      <4> QED
        BY <1>0, <2>2, <3>0, <4>1, <4>2, <4>3, <4>4 DEF Settled, Awaited
    <3>2. CASE ~(calls[d].policy = "client" /\ ~calls[d].lost)
      BY <1>0, <3>0, <3>2 DEF Settled
    <3> QED
      BY <3>1, <3>2
  <2> QED
    BY <2>1, <2>2
<1> QED
  BY <1>4, <1>5 DEF Single

LEMMA SingleStep == Kept /\ AnswersAwaited /\ Single /\ [Next]_vars => Single'
<1> SUFFICES ASSUME Kept, AnswersAwaited, Single, [Next]_vars PROVE Single'
  OBVIOUS
<1>1. ASSUME NEW c \in Calls, Fills(c) PROVE Single'
  BY <1>1 DEF Fills, Single, NoLooseRequest, Settled, Awaited
<1>2. CASE Passing
  BY <1>2 DEF Passing, Single, NoLooseRequest, Settled, Awaited
<1>3. CASE UNCHANGED vars
  BY <1>3 DEF vars, exchange, Single, NoLooseRequest, Settled, Awaited
<1> QED
  BY <1>1, <1>2, <1>3, SingleCall, SingleRequest DEF Next

\* The retries of the client create a second order only when an attempt was lost.
THEOREM ClientPlacesOnce == Spec => []OneOrderUnlessLost
<1>1. Init => Single
  <2> SUFFICES ASSUME Init PROVE Single
    OBVIOUS
  <2> QED
    BY DEF Init, Single, NoLooseRequest, Settled
<1>2. Single => OneOrderUnlessLost
  BY DEF Single, Settled, OneOrderUnlessLost
<1> QED
  BY KeptAlways, AnswersAlwaysAwaited, <1>1, SingleStep, <1>2, PTL DEF Spec

-----------------------------------------------------------------------------
(* How long a call takes *)

\* One attempt: a token, the request, its answer. And k of them, with the sleeps after each.
OneAttempt == Period + 1 + Timeout
Triangle(k) == (k * (k + 1)) \div 2
Cost(k) == k * OneAttempt + RetryDelay * Triangle(k)

LEMMA TriangleStep == \A k \in Nat : Triangle(k) \in Nat /\ Triangle(k + 1) = Triangle(k) + (k + 1)
<1> SUFFICES ASSUME NEW k \in Nat
             PROVE  Triangle(k) \in Nat /\ Triangle(k + 1) = Triangle(k) + (k + 1)
  OBVIOUS
<1> DEFINE x == k * (k + 1)
<1>1. x \in Nat /\ (k + 1) * ((k + 1) + 1) = x + 2 * (k + 1)
  OBVIOUS
<1> HIDE DEF x
<1>2. x \div 2 \in Nat /\ (x + 2 * (k + 1)) \div 2 = (x \div 2) + (k + 1)
  BY <1>1
<1> QED
  BY <1>1, <1>2 DEF Triangle, x

LEMMA TriangleGrows == \A j, k \in Nat : j <= k => Triangle(j) <= Triangle(k)
<1> SUFFICES ASSUME NEW j \in Nat, NEW k \in Nat, j <= k PROVE Triangle(j) <= Triangle(k)
  OBVIOUS
<1>1. j * (j + 1) \in Nat /\ k * (k + 1) \in Nat /\ j * (j + 1) <= k * (k + 1)
  OBVIOUS
<1>2. \A x, y \in Nat : x <= y => x \div 2 <= y \div 2
  OBVIOUS
<1> QED
  BY <1>1, <1>2 DEF Triangle

LEMMA CostNat == OneAttempt \in Nat /\ \A k \in Nat : Cost(k) \in Nat
<1>1. OneAttempt \in Nat
  BY Times, CapacityNat DEF OneAttempt
<1>2. \A m, n \in Nat : m * n \in Nat
  OBVIOUS
<1> QED
  BY <1>1, <1>2, TriangleStep, Times DEF Cost

LEMMA CostStep == \A k \in Nat : Cost(k + 1) = Cost(k) + OneAttempt + RetryDelay * (k + 1)
<1> SUFFICES ASSUME NEW k \in Nat PROVE Cost(k + 1) = Cost(k) + OneAttempt + RetryDelay * (k + 1)
  OBVIOUS
<1>1. \A a, b, c \in Nat : (a + 1) * b = a * b + b /\ c * (a + b) = c * a + c * b
  OBVIOUS
<1>2. (k + 1) * OneAttempt = k * OneAttempt + OneAttempt
  BY <1>1, CostNat
<1>3. Triangle(k) \in Nat /\ Triangle(k + 1) = Triangle(k) + (k + 1)
  BY TriangleStep
<1>4. RetryDelay * (Triangle(k) + (k + 1)) = RetryDelay * Triangle(k) + RetryDelay * (k + 1)
  BY <1>1, <1>3, Times
<1>5. \A m, n \in Nat : m * n \in Nat
  OBVIOUS
<1>6. k * OneAttempt \in Nat /\ RetryDelay * Triangle(k) \in Nat /\ RetryDelay * (k + 1) \in Nat
  BY <1>3, <1>5, CostNat, Times
<1> QED
  BY <1>2, <1>3, <1>4, <1>6, CostNat DEF Cost

LEMMA CostGrows == \A j, k \in Nat : j <= k => Cost(j) <= Cost(k)
<1> SUFFICES ASSUME NEW j \in Nat, NEW k \in Nat, j <= k PROVE Cost(j) <= Cost(k)
  OBVIOUS
<1>1. \A a, b, c \in Nat : a <= b => a * c <= b * c /\ c * a <= c * b
  OBVIOUS
<1>2. j * OneAttempt <= k * OneAttempt
  BY <1>1, CostNat
<1>3. Triangle(j) \in Nat /\ Triangle(k) \in Nat /\ Triangle(j) <= Triangle(k)
  BY TriangleStep, TriangleGrows
<1>4. RetryDelay * Triangle(j) <= RetryDelay * Triangle(k)
  BY <1>1, <1>3, Times
<1>5. \A m, n \in Nat : m * n \in Nat
  OBVIOUS
<1>6. {j * OneAttempt, k * OneAttempt, RetryDelay * Triangle(j), RetryDelay * Triangle(k)} \subseteq Nat
  BY <1>3, <1>5, CostNat, Times
<1> QED
  BY <1>2, <1>4, <1>6 DEF Cost

\* Where a call of the client stands with the time it has: what its earlier attempts cost,
\* and the timer it waits for. Only a call in Wait sleeps in the limiter.
OnTime(c) ==
  /\ calls[c].pc # "limit" => wake[c] = 0
  /\ calls[c].policy = "client" =>
       LET spent == calls[c].begun + Cost(calls[c].attempt)
       IN /\ calls[c].pc = "limit" =>
               IF wake[c] = 0 THEN now <= spent ELSE now <= wake[c] /\ wake[c] <= spent + Period + 1
          /\ calls[c].pc = "inflight" => now <= calls[c].due /\ calls[c].due <= spent + OneAttempt
          /\ calls[c].pc = "backoff" => now <= calls[c].due /\ calls[c].due <= spent

Timely == \A c \in Calls : OnTime(c)

LEMMA TimelyTypes ==
  ASSUME Kept, NEW c \in Calls
  PROVE  /\ calls \in [Calls -> Call] /\ wake \in [Calls -> Nat]
         /\ calls[c].begun \in Nat /\ calls[c].due \in Nat /\ calls[c].attempt \in Nat
         /\ Cost(calls[c].attempt) \in Nat /\ OneAttempt \in Nat
         /\ wake[c] \in Nat /\ now \in Nat
  BY CostNat, Times DEF Kept, Sound, Call, LimiterTypeOK

LEMMA TimelyBegin == ASSUME Kept, Timely, NEW c \in Calls, Begin(c) PROVE Timely'
<1>1. wake[c] = 0 /\ UNCHANGED <<now, wake>>
  BY DEF Begin, Timely, OnTime, bucket
<1>2. now <= now + Cost(0)
  BY TimelyTypes, CostNat
<1> QED
  BY <1>1, <1>2, BeginMoves DEF Timely, OnTime

LEMMA TimelyPasses == ASSUME Kept, Timely, NEW c \in Calls, Passes(c) PROVE Timely'
<1>1. /\ calls'[c].pc = "inflight" /\ calls'[c].due = now + Timeout /\ calls'[c].attempt = calls[c].attempt
      /\ calls'[c].begun = calls[c].begun /\ calls'[c].policy = calls[c].policy
      /\ \A d \in Calls : d # c => calls'[d] = calls[d]
  BY DEF Passes, Send, Kept, Sound, Call
<1>2. /\ calls[c].pc = "limit" /\ now' = now /\ wake'[c] = 0 /\ (wake[c] = 0 \/ now >= wake[c])
      /\ \A d \in Calls : d # c => wake'[d] = wake[d]
  BY DEF Passes, TakeToken, WakeUp, Kept, LimiterTypeOK
<1>3. calls[c].policy = "client" => now <= calls[c].begun + Cost(calls[c].attempt) + Period + 1
  BY <1>2, TimelyTypes, CapacityNat DEF Timely, OnTime
<1>4. OnTime(c)'
  BY <1>1, <1>2, <1>3, TimelyTypes, Times, CapacityNat DEF OnTime, OneAttempt
<1> QED
  BY <1>1, <1>2, <1>4 DEF Timely, OnTime

LEMMA TimelyQueues == ASSUME Kept, Timely, NEW c \in Calls, Queues(c) PROVE Timely'
<1>1. /\ calls' = calls /\ now' = now /\ calls[c].pc = "limit" /\ wake[c] = 0
      /\ wake'[c] = now + (Period - Refilled) + 1
      /\ \A d \in Calls : d # c => wake'[d] = wake[d]
  BY DEF Queues, FallAsleep, Kept, LimiterTypeOK
<1>2. Refilled \in Nat /\ Refilled < Period
  BY CapacityNat, RefilledBounds DEF Queues, FallAsleep, Kept
<1>3. OnTime(c)'
  BY <1>1, <1>2, TimelyTypes, CapacityNat DEF Timely, OnTime
<1> QED
  BY <1>1, <1>3 DEF Timely, OnTime

LEMMA TimelyFails ==
  ASSUME Kept, Timely, NEW c \in Calls, calls[c].pc = "inflight", UNCHANGED <<now, bucket>>,
         NEW delay, NEW lost, NextAttempt(c, delay, lost)
  PROVE  Timely'
<1>1. now' = now /\ wake' = wake /\ wake[c] = 0 /\ now \in Nat
  BY DEF bucket, Timely, OnTime, Kept, LimiterTypeOK
<1>2. \A d \in Calls : d # c => calls'[d] = calls[d]
  BY NextAttemptMoves
<1>3. OnTime(c)'
  <2>1. CASE calls[c].policy = "client"
    <3> DEFINE k == calls[c].attempt
               sleep == RetryDelay * (k + 1)
    <3>1. /\ calls'[c].pc = "backoff" /\ calls'[c].attempt = k + 1
          /\ calls'[c].begun = calls[c].begun /\ calls'[c].due = now + sleep
      BY <2>1, NextAttemptMoves
    <3>2. k \in Nat /\ sleep \in Nat /\ Cost(k + 1) = Cost(k) + OneAttempt + sleep
      BY TimelyTypes, Times, CostStep
    <3>3. now <= calls[c].begun + Cost(k) + OneAttempt
      BY <2>1, TimelyTypes DEF Timely, OnTime
    <3> HIDE DEF sleep
    <3>4. now + sleep <= calls[c].begun + Cost(k + 1)
      BY <3>2, <3>3, TimelyTypes
    <3> QED
      BY <1>1, <3>1, <3>2, <3>4 DEF OnTime
  <2>2. CASE calls[c].policy # "client"
    BY <1>1, <2>2, NextAttemptMoves DEF OnTime
  <2> QED
    BY <2>1, <2>2
<1> QED
  BY <1>1, <1>2, <1>3 DEF Timely, OnTime

LEMMA TimelyReturns ==
  ASSUME Kept, Timely, NEW c \in Calls, calls[c].pc # "limit", UNCHANGED <<now, bucket>>,
         NEW result, Returns(c, result)
  PROVE  Timely'
<1>1. now' = now /\ wake' = wake /\ wake[c] = 0
  BY DEF bucket, Timely, OnTime
<1> QED
  BY <1>1, ReturnsMoves DEF Timely, OnTime

LEMMA TimelyBackoff == ASSUME Kept, Timely, NEW c \in Calls, BackoffEnds(c) PROVE Timely'
<1>1. CASE calls[c].attempt < MaxAttempts
  <2>1. /\ calls[c].pc = "backoff" /\ calls'[c].pc = "limit" /\ calls'[c].attempt = calls[c].attempt
        /\ calls'[c].begun = calls[c].begun /\ calls'[c].policy = calls[c].policy
        /\ now >= calls[c].due /\ \A d \in Calls : d # c => calls'[d] = calls[d]
    BY <1>1 DEF BackoffEnds, Kept, Sound, Call
  <2>2. now' = now /\ wake' = wake /\ wake[c] = 0
    BY <2>1 DEF BackoffEnds, bucket, Timely, OnTime
  <2>3. OnTime(c)'
    BY <2>1, <2>2, TimelyTypes DEF Timely, OnTime
  <2> QED
    BY <2>1, <2>2, <2>3 DEF Timely, OnTime
<1>2. CASE ~(calls[c].attempt < MaxAttempts)
  BY <1>2, TimelyReturns DEF BackoffEnds
<1> QED
  BY <1>1, <1>2

\* Time stops before a timer that is due.
LEMMA TimelyPassing == ASSUME Kept, Timely, Passing PROVE Timely'
<1>1. calls' = calls /\ wake' = wake /\ now' = now + 1 /\ \A c \in Calls : ~Due(c)
  BY DEF Passing, Tick, bucket
<1>2. ASSUME NEW c \in Calls PROVE OnTime(c)'
  <2>1. CASE calls[c].pc = "limit"
    BY <1>1, <2>1, TimelyTypes DEF Timely, OnTime, Due
  <2>2. CASE calls[c].pc \in {"inflight", "backoff"}
    BY <1>1, <2>2, TimelyTypes DEF Timely, OnTime, Due
  <2>3. CASE calls[c].pc \notin {"limit", "inflight", "backoff"}
    BY <1>1, <2>3 DEF Timely, OnTime
  <2> QED
    BY <2>1, <2>2, <2>3
<1> QED
  BY <1>2 DEF Timely

LEMMA TimelyStep == Kept /\ Timely /\ [Next]_vars => Timely'
<1> SUFFICES ASSUME Kept, Timely, [Next]_vars PROVE Timely'
  OBVIOUS
<1>1. ASSUME NEW c \in Calls, CallStep(c) PROVE Timely'
  <2>1. CASE Fails(c)
    BY <2>1, TimelyFails DEF Fails
  <2>2. CASE Answered(c)
    <3>1. CASE answer[c] \in retries(calls[c].policy)
      <4>1. PICK wait : NextAttempt(c, wait, FALSE)
        BY <2>2, <3>1 DEF Answered
      <4> QED
        BY <2>2, <4>1, TimelyFails DEF Answered
    <3>2. CASE answer[c] \notin retries(calls[c].policy)
      BY <2>2, <3>2, TimelyReturns DEF Answered
    <3> QED
      BY <3>1, <3>2
  <2> QED
    BY <1>1, <2>1, <2>2, TimelyBegin, TimelyPasses, TimelyQueues, TimelyBackoff DEF CallStep
<1>2. CASE UNCHANGED <<now, wake, calls>>
  BY <1>2 DEF Timely, OnTime
<1>3. ASSUME NEW c \in Calls, Fills(c) PROVE Timely'
  BY <1>2, <1>3 DEF Fills, bucket
<1>4. ASSUME NEW r \in requests, Executes(r) \/ Refuses(r) PROVE Timely'
  BY <1>2, <1>4 DEF Executes, Refuses, bucket
<1>5. CASE UNCHANGED vars
  BY <1>2, <1>5 DEF vars, limiterVars, bucket
<1> QED
  BY <1>1, <1>3, <1>4, <1>5, TimelyPassing DEF Next

\* No method of the client holds its caller longer than MaxAttempts times the limiter and
\* Timeout, and the sleeps after the attempts, whatever the exchange and the network do.
THEOREM CallsAreBounded == Spec => []CallIsBounded
<1>1. Init => Timely
  <2> SUFFICES ASSUME Init, NEW c \in Calls PROVE OnTime(c)
    BY DEF Timely
  <2>1. calls[c] = Idle /\ wake[c] = 0
    BY DEF Init, LimiterInit
  <2> QED
    BY <2>1 DEF Idle, OnTime
<1>2. Kept /\ Timely => CallIsBounded
  <2> SUFFICES ASSUME Kept, Timely, NEW c \in Calls, calls[c].policy = "client",
                      calls[c].pc \notin {"idle", "done"}
               PROVE  now - calls[c].begun <= Cost(MaxAttempts)
    BY DEF CallIsBounded, Cost, OneAttempt, Triangle
  <2> DEFINE k == calls[c].attempt
  <2>1. k \in 0..MaxAttempts /\ calls[c].pc \in {"limit", "inflight", "backoff"}
        /\ (calls[c].pc \in {"limit", "inflight"} => k < MaxAttempts)
    BY DEF Kept, Sound, Call
  <2>2. MaxAttempts \in Nat /\ Cost(MaxAttempts) \in Nat
    BY Times, CostNat
  <2>3. CASE calls[c].pc \in {"limit", "inflight"}
    <3>1. Cost(k + 1) = Cost(k) + OneAttempt + RetryDelay * (k + 1) /\ RetryDelay * (k + 1) \in Nat
      BY <2>1, CostStep, Times
    <3>2. Cost(k + 1) <= Cost(MaxAttempts)
      BY <2>1, <2>2, <2>3, CostGrows
    <3>3. now <= calls[c].begun + Cost(k) + OneAttempt
      BY <2>3, TimelyTypes, Times, CapacityNat DEF Timely, OnTime, OneAttempt
    <3>4. Cost(k) + OneAttempt <= Cost(k + 1)
      BY <3>1, TimelyTypes
    <3> QED
      BY <2>1, <2>2, <3>2, <3>3, <3>4, TimelyTypes, CostNat
  <2>4. CASE calls[c].pc = "backoff"
    <3>1. Cost(k) <= Cost(MaxAttempts)
      BY <2>1, <2>2, CostGrows
    <3>2. now <= calls[c].begun + Cost(k)
      BY <2>4, TimelyTypes DEF Timely, OnTime
    <3> QED
      BY <2>2, <3>1, <3>2, TimelyTypes
  <2> QED
    BY <2>1, <2>3, <2>4
<1> QED
  BY KeptAlways, <1>1, TimelyStep, <1>2, PTL DEF Spec
=============================================================================
