---------------------------- MODULE RestGateway ----------------------------
(***************************************************************************)
(* gateway.BinanceRESTClient and gateway.RESTMiddleware: signed requests,   *)
(* the limiter in front of every attempt, the retries, and the exchange at  *)
(* the other end of a network that delays and loses requests and answers.   *)
(*                                                                         *)
(* A request is signed once: every attempt carries the time stamp of the    *)
(* first, and the exchange refuses it once RecvWindow has passed. Time      *)
(* passes only when nothing is due: timers fire on time.                    *)
(***************************************************************************)
EXTENDS TokenBucket, FiniteSets

CONSTANTS
  Policies,     \* "client" for sendWithRetry, "middleware" for ExecuteWithRetry
  RecvWindow,   \* ticks a signed request is valid
  Timeout,      \* http.Client.Timeout
  MaxAttempts,  \* MaxRetries of the client, MaxAttempts of the middleware
  RetryDelay,   \* RetryDelay of the client, InitialDelay of the middleware
  MaxBackoff,   \* MaxDelay of the middleware
  LastBegin,    \* bound: when the last call may begin
  MaxTime       \* bound on the clock

ASSUME PoliciesAssumption == Policies \subseteq {"client", "middleware"}
ASSUME TimesAssumption ==
  {RecvWindow, Timeout, MaxAttempts, RetryDelay, MaxBackoff} \subseteq Nat \ {0}

VARIABLES
  calls,     \* the calls
  requests,  \* attempts on their way to the exchange
  answer,    \* what the exchange has answered to the attempt a call waits for
  made,      \* orders the exchange has created for a call
  live       \* calls with an open order

exchange == <<requests, answer, made, live>>
vars == <<limiterVars, calls, exchange>>

-----------------------------------------------------------------------------
(* The methods differ in what their request does, whether it carries a time *)
(* stamp, and whether the body of the answer has to be parsed.              *)

Endpoint(effect, signed, parsed) == [effect |-> effect, signed |-> signed, parsed |-> parsed]

PlaceLimit == Endpoint("limit", TRUE, TRUE)
PlaceMarket == Endpoint("market", TRUE, TRUE)
CancelOrder == Endpoint("cancel", TRUE, FALSE)
CancelAll == Endpoint("cancelAll", TRUE, FALSE)
SetDualPosition == Endpoint("none", TRUE, TRUE)
SetMarginType == Endpoint("none", TRUE, TRUE)
SetLeverage == Endpoint("none", TRUE, FALSE)
GetDualPosition == Endpoint("none", TRUE, TRUE)
GetBestBidAsk == Endpoint("none", FALSE, TRUE)
AccountBalances == Endpoint("none", TRUE, TRUE)
AccountInfo == Endpoint("none", TRUE, TRUE)
PositionRisk == Endpoint("none", TRUE, TRUE)
LeverageBrackets == Endpoint("none", TRUE, TRUE)
ExchangeInfo == Endpoint("none", TRUE, TRUE)

Endpoints ==
  {PlaceLimit, PlaceMarket, CancelOrder, CancelAll, SetDualPosition, SetMarginType, SetLeverage,
   GetDualPosition, GetBestBidAsk, AccountBalances, AccountInfo, PositionRisk, LeverageBrackets,
   ExchangeInfo}

Idle == [pc |-> "idle", to |-> GetBestBidAsk, policy |-> "client", attempt |-> 0, begun |-> 0,
         stamp |-> 0, due |-> 0, delay |-> 0, lost |-> FALSE, result |-> "none"]

\* A call that has returned: what it was, and what it has returned.
Done(call, result) ==
  [Idle EXCEPT !.pc = "done", !.to = call.to, !.policy = call.policy, !.begun = call.begun,
               !.lost = call.lost, !.result = result]

Returns(c, result) == calls' = [calls EXCEPT ![c] = Done(calls[c], result)]

-----------------------------------------------------------------------------
(* A call *)

\* A process sends its requests one way or the other.
PolicyOf == LET used == {calls[d].policy : d \in {d \in Calls : calls[d].pc # "idle"}}
            IN IF used = {} THEN Policies ELSE used

\* Checks, parameters, applyRecvWindow, SignParams. Arguments that fail the checks
\* return before anything happens and are left out.
Begin(c) ==
  /\ calls[c].pc = "idle"
  /\ now <= LastBegin
  /\ \E e \in Endpoints, p \in PolicyOf :
       calls' = [calls EXCEPT ![c] = [Idle EXCEPT !.pc = "limit", !.to = e, !.policy = p,
                                        !.begun = now, !.stamp = now, !.delay = RetryDelay]]
  /\ UNCHANGED <<now, bucket, exchange>>

\* waitLimit, which may put the call to sleep, and HTTPClient.Do.
Send(c) ==
  /\ calls' = [calls EXCEPT ![c].pc = "inflight", ![c].due = now + Timeout]
  /\ requests' = requests \union {[call |-> c, attempt |-> calls[c].attempt, stamp |-> calls[c].stamp]}
  /\ UNCHANGED <<answer, made, live>>

Passes(c) ==
  /\ calls[c].pc = "limit"
  /\ \/ TakeToken(c)
     \/ WakeUp(c)
  /\ Send(c)

Queues(c) ==
  /\ calls[c].pc = "limit"
  /\ FallAsleep(c)
  /\ UNCHANGED <<calls, exchange>>

\* Fault: every attempt is signed anew.
NextAttempt_SignsAgain(c, delay, lost) ==
  LET k == calls[c].attempt + 1
  IN calls' = [calls EXCEPT ![c].attempt = k, ![c].stamp = now, ![c].lost = @ \/ lost,
                            ![c].pc = "backoff", ![c].due = now + delay]

\* What an attempt that failed is followed by. The client sleeps after every attempt,
\* the last one included; the middleware only before another one.
NextAttempt(c, delay, lost) ==
  LET k == calls[c].attempt + 1
      call == [calls[c] EXCEPT !.attempt = k, !.lost = @ \/ lost]
  IN calls' = [calls EXCEPT ![c] =
       IF calls[c].policy = "client"
         THEN [call EXCEPT !.pc = "backoff", !.due = now + RetryDelay * k]
         ELSE IF k < MaxAttempts
           THEN [call EXCEPT !.pc = "backoff", !.due = now + delay,
                             !.delay = IF 2 * delay > MaxBackoff THEN MaxBackoff ELSE 2 * delay]
           ELSE Done(call, "error")]

\* Do returns an error: no connection, the connection was cut, or Timeout has passed.
\* The request may have arrived, or still arrive.
Fails(c) ==
  /\ calls[c].pc = "inflight"
  /\ NextAttempt(c, calls[c].delay, TRUE)
  /\ answer' = [answer EXCEPT ![c] = "none"]
  /\ UNCHANGED <<now, bucket, requests, made, live>>

\* Fault: an error of the server is worth another attempt.
retries_ServerErrors(policy) == {"throttled", "server"}

\* The answers that are worth another attempt: 429 and 418; to the middleware also 408
\* and 5xx.
retries(policy) ==
  IF policy = "client" THEN {"throttled"} ELSE {"throttled", "server"}

\* Fault: nobody looks at the status.
Result_IgnoresStatus(to, status) ==
  IF status = "garbled" /\ to.parsed THEN "error" ELSE "ok"

\* The status is checked; a body that is cut off is an error where it has to be parsed.
Result(to, status) ==
  IF status = "ok" \/ (status = "garbled" /\ ~to.parsed) THEN "ok" ELSE "error"

\* An answer: another attempt (after the Retry-After the exchange asks for, if it goes
\* through the middleware), or the end of the call.
Answered(c) ==
  /\ calls[c].pc = "inflight"
  /\ answer[c] # "none"
  /\ IF answer[c] \in retries(calls[c].policy)
       THEN \E wait \in {calls[c].delay, MaxBackoff} : NextAttempt(c, wait, FALSE)
       ELSE Returns(c, Result(calls[c].to, answer[c]))
  /\ answer' = [answer EXCEPT ![c] = "none"]
  /\ UNCHANGED <<now, bucket, requests, made, live>>

BackoffEnds(c) ==
  /\ calls[c].pc = "backoff"
  /\ now >= calls[c].due
  /\ IF calls[c].attempt < MaxAttempts
       THEN calls' = [calls EXCEPT ![c].pc = "limit"]
       ELSE Returns(c, "error")
  /\ UNCHANGED <<now, bucket, exchange>>

-----------------------------------------------------------------------------
(* The exchange: signatures expire, a client order id is refused while an   *)
(* order with it is open and free again after, and a market order fills at   *)
(* once. It may also refuse, throttle, or fail before or after it has acted. *)

Expired(r) == calls[r.call].to.signed /\ now > r.stamp + RecvWindow

\* The orders a cancel can name: those whose placement has been confirmed.
Known == {d \in Calls : calls[d].result = "ok" /\ calls[d].to.effect \in {"limit", "market"}}

Effects(c) ==
  CASE calls[c].to.effect = "limit" ->
         c \notin live /\ made' = [made EXCEPT ![c] = @ + 1] /\ live' = live \union {c}
    [] calls[c].to.effect = "market" ->
         c \notin live /\ made' = [made EXCEPT ![c] = @ + 1] /\ UNCHANGED live
    [] calls[c].to.effect = "cancel" ->
         \E d \in Known \intersect live : live' = live \ {d} /\ UNCHANGED made
    [] calls[c].to.effect = "cancelAll" -> live' = {} /\ UNCHANGED made
    [] OTHER -> UNCHANGED <<made, live>>

Awaited(r) == calls[r.call].pc = "inflight" /\ calls[r.call].attempt = r.attempt

\* The answer reaches the call, unless it is lost or the call has moved on.
Reply(r, status) ==
  \/ UNCHANGED answer
  \/ Awaited(r) /\ answer' = [answer EXCEPT ![r.call] = status]

Executes(r) ==
  /\ ~Expired(r)
  /\ Effects(r.call)
  /\ \E status \in {"ok", "garbled", "server"} : Reply(r, status)
  /\ requests' = requests \ {r}
  /\ UNCHANGED <<now, bucket, calls>>

Refuses(r) ==
  /\ \E status \in IF Expired(r) THEN {"refused"} ELSE {"refused", "throttled", "server"} :
       Reply(r, status)
  /\ requests' = requests \ {r}
  /\ UNCHANGED <<now, bucket, calls, made, live>>

Fills(c) ==
  /\ c \in live
  /\ live' = live \ {c}
  /\ UNCHANGED <<now, bucket, calls, requests, answer, made>>

\* Fault: a client without Timeout.
Due_NoTimeout(c) ==
  \/ calls[c].pc = "limit" /\ (wake[c] = 0 \/ now >= wake[c])
  \/ calls[c].pc = "backoff" /\ now >= calls[c].due

\* What a timer or a goroutine is about to do happens before time passes. The clock stops
\* when every call has returned: only requests inside their window can still arrive.
Due(c) ==
  \/ calls[c].pc = "limit" /\ (wake[c] = 0 \/ now >= wake[c])
  \/ calls[c].pc \in {"inflight", "backoff"} /\ now >= calls[c].due

Passing ==
  /\ now < MaxTime
  /\ \E c \in Calls : calls[c].pc # "done"
  /\ \A c \in Calls : ~Due(c)
  /\ Tick
  \* What can have no effect any more and is waited for by nobody is forgotten.
  /\ requests' = {r \in requests :
       Awaited(r) \/ (calls[r.call].to.effect # "none" /\ now < r.stamp + RecvWindow)}
  /\ UNCHANGED <<calls, answer, made, live>>

-----------------------------------------------------------------------------
Init ==
  /\ LimiterInit
  /\ calls = [c \in Calls |-> Idle]
  /\ requests = {}
  /\ answer = [c \in Calls |-> "none"]
  /\ made = [c \in Calls |-> 0]
  /\ live = {}

CallStep(c) == Begin(c) \/ Passes(c) \/ Queues(c) \/ Fails(c) \/ Answered(c) \/ BackoffEnds(c)

Next ==
  \/ \E c \in Calls : CallStep(c) \/ Fills(c)
  \/ \E r \in requests : Executes(r) \/ Refuses(r)
  \/ Passing

Spec == Init /\ [][Next]_vars

-----------------------------------------------------------------------------
Call == [pc : {"idle", "limit", "inflight", "backoff", "done"}, to : Endpoints,
         policy : {"client", "middleware"}, attempt : 0..MaxAttempts,
         begun : Nat, stamp : Nat, due : Nat, delay : Nat, lost : BOOLEAN,
         result : {"none", "ok", "error"}]

Request == [call : Calls, attempt : 0..MaxAttempts - 1, stamp : Nat]

TypeOK ==
  /\ LimiterTypeOK
  /\ calls \in [Calls -> Call]
  /\ requests \subseteq Request
  /\ answer \in [Calls -> {"none", "ok", "garbled", "refused", "throttled", "server"}]
  /\ made \in [Calls -> Nat] /\ live \subseteq Calls

\* However often a placement is retried and however late its requests arrive, no order
\* is created once RecvWindow has passed since the call began.
NoOrderAfterWindow ==
  [][\A c \in Calls : made'[c] > made[c] => now <= calls[c].begun + RecvWindow]_vars

\* sendWithRetry creates a second order only when an attempt was lost: an answer, be it
\* an error, never leads to a duplicate. (The middleware also retries 5xx, after which
\* nobody knows whether the order was created.)
OneOrderUnlessLost ==
  \A c \in Calls : calls[c].policy = "client" /\ made[c] > 1 => calls[c].lost

\* A CancelAll that succeeded leaves no order of a placement that began more than
\* RecvWindow before it: neither an open one, nor one whose request was still on its
\* way. (Of a later one it may.)
CancelAllClears ==
  \A a, c \in Calls :
    /\ calls[a].to = CancelAll /\ calls[a].result = "ok"
    /\ calls[c].pc # "idle" /\ calls[c].begun + RecvWindow < calls[a].begun
    => c \notin live

\* How long a method of the client can hold its caller: MaxAttempts times the limiter
\* and Timeout, and the sleeps after each attempt, the last one included.
CallIsBounded ==
  \A c \in Calls : calls[c].policy = "client" /\ calls[c].pc \notin {"idle", "done"} =>
    now - calls[c].begun <=
      MaxAttempts * (Period + 1 + Timeout) + RetryDelay * ((MaxAttempts * (MaxAttempts + 1)) \div 2)
=============================================================================
