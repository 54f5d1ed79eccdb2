---------------------------- MODULE RiskMonitor ----------------------------
(***************************************************************************)
(* risk.Monitor with its PnLMonitor and CircuitBreaker (cb of BreakerState). *)
(*                                                                         *)
(* checkRisk, TriggerEmergencyStop, ResumeTrading and Reset hold m.mu, but *)
(* RecordTrade, RecordFailure, RecordSuccess and UpdateUnrealizedPnL do    *)
(* not: they move the PnL and the breaker, each under its own lock, between *)
(* any two steps of a check.                                               *)
(***************************************************************************)
EXTENDS BreakerState, Integers

CONSTANTS
  Checkers,          \* monitorLoop, and callers of ForceCheckRisk
  Traders,           \* goroutines that call RecordTrade
  NoOne,             \* "m.mu is free"
  InitialEquity,
  DailyLossLimit,    \* 0: none
  MaxDrawdownPct,    \* 0: none
  MinPnLThreshold,   \* 0: none
  TradeResults,      \* results RecordTrade is called with
  UnrealizedValues,  \* values UpdateUnrealizedPnL is called with
  MaxLoss, MaxGain   \* bounds of the realized PnL

ASSUME NoOneAssumption == NoOne \notin Checkers \union {"operator"} /\ "operator" \notin Checkers
ASSUME EquityAssumption == InitialEquity \in Nat \ {0}
ASSUME LimitsAssumption ==
  DailyLossLimit \in Nat /\ MaxDrawdownPct \in Nat /\ MinPnLThreshold \in Int
ASSUME PnLAssumption ==
  /\ TradeResults \subseteq Int /\ UnrealizedValues \subseteq Int
  /\ MaxLoss \in Nat /\ MaxGain \in Nat

VARIABLES
  pnl,       \* PnLMonitor
  risk,      \* riskState
  mu,        \* who holds m.mu for writing
  checks,    \* where each checker is in checkRisk
  resume,    \* where the operator is in TriggerEmergencyStop, ResumeTrading or Reset
  trades     \* where each trader is in RecordTrade

vars == <<pnl, cb, risk, mu, checks, resume, trades>>

-----------------------------------------------------------------------------
(* pnl_monitor.go. maxDrawdown is kept as the two comparisons made with it:   *)
(* it only grows, so each of them, once true, stays true until Reset.         *)

NewPnL == [realized |-> 0, unrealized |-> 0, daily |-> 0, peak |-> InitialEquity,
           overLimit |-> FALSE, overWarning |-> FALSE, newDay |-> FALSE]

Equity(p) == InitialEquity + p.realized + p.unrealized

DrawdownAbove(p, pct) == p.peak > 0 /\ (p.peak - Equity(p)) * 100 > pct * p.peak

\* updateDrawdown, called at the end of every update.
WithDrawdown(p) ==
  LET q == [p EXCEPT !.peak = IF Equity(p) > @ THEN Equity(p) ELSE @] IN
  [q EXCEPT !.overLimit = @ \/ DrawdownAbove(q, MaxDrawdownPct),
            !.overWarning = @ \/ DrawdownAbove(q, 5)]

UpdateRealized(p, result) ==
  WithDrawdown([p EXCEPT !.realized = @ + result, !.daily = @ + result])

UpdateUnrealized(p, value) == WithDrawdown([p EXCEPT !.unrealized = value])

ResetDaily(p) == [p EXCEPT !.daily = 0, !.newDay = FALSE]

\* CheckLimits returns an error.
Breached(p) ==
  \/ DailyLossLimit > 0 /\ p.daily < -DailyLossLimit
  \/ MaxDrawdownPct > 0 /\ p.overLimit

ShouldAlert(p) == MinPnLThreshold # 0 /\ p.realized + p.unrealized < MinPnLThreshold

-----------------------------------------------------------------------------
(* checkRisk, in the order of its calls. *)

Check(c, from, to) == checks[c] = from /\ checks' = [checks EXCEPT ![c] = to]

Lock(c) ==
  /\ mu = NoOne
  /\ mu' = c
  /\ Check(c, "idle", "breaker")
  /\ UNCHANGED <<pnl, cb, risk, resume, trades>>

\* Fault: the state of the breaker is not looked at.
CheckBreaker_Skipped(c) ==
  /\ Check(c, "breaker", "limits")
  /\ UNCHANGED <<pnl, cb, risk, mu, resume, trades>>

CheckBreaker(c) ==
  /\ \/ IsOpen(cb) /\ risk' = "EMERGENCY" /\ Check(c, "breaker", "daily")
     \/ ~IsOpen(cb) /\ UNCHANGED risk /\ Check(c, "breaker", "limits")
  /\ UNCHANGED <<pnl, cb, mu, resume, trades>>

\* Fault: the alert threshold is looked at before the limits.
CheckLimits_AlertFirst(c) ==
  /\ \/ ShouldAlert(pnl) /\ risk' = "DANGER" /\ Check(c, "limits", "daily")
     \/ ~ShouldAlert(pnl) /\ Breached(pnl) /\ UNCHANGED risk /\ Check(c, "limits", "trip")
     \/ /\ ~ShouldAlert(pnl) /\ ~Breached(pnl)
        /\ UNCHANGED risk /\ Check(c, "limits", "alert")
  /\ UNCHANGED <<pnl, cb, mu, resume, trades>>

CheckLimits(c) ==
  /\ Check(c, "limits", IF Breached(pnl) THEN "trip" ELSE "alert")
  /\ UNCHANGED <<pnl, cb, risk, mu, resume, trades>>

\* ForceOpen ...
Trip(c) ==
  /\ Check(c, "trip", "mark")
  /\ cb' = Opened(cb)
  /\ UNCHANGED <<pnl, risk, mu, resume, trades>>

\* ... and the risk state; the emergency callback is started as a goroutine of its
\* own (see TradingEngine).
Mark(c) ==
  /\ Check(c, "mark", "daily")
  /\ risk' = "EMERGENCY"
  /\ UNCHANGED <<pnl, cb, mu, resume, trades>>

CheckAlert(c) ==
  /\ \/ ShouldAlert(pnl) /\ risk' = "DANGER" /\ Check(c, "alert", "daily")
     \/ ~ShouldAlert(pnl) /\ UNCHANGED risk /\ Check(c, "alert", "grade")
  /\ UNCHANGED <<pnl, cb, mu, resume, trades>>

Grade(c) ==
  /\ Check(c, "grade", "daily")
  /\ risk' = IF pnl.overWarning THEN "WARNING" ELSE "NORMAL"
  /\ UNCHANGED <<pnl, cb, mu, resume, trades>>

\* ShouldCheckDailyReset, ResetDaily, and m.mu is released.
CheckDaily(c) ==
  /\ Check(c, "daily", "idle")
  /\ pnl' = IF pnl.newDay THEN ResetDaily(pnl) ELSE pnl
  /\ mu' = NoOne
  /\ UNCHANGED <<cb, risk, resume, trades>>

CheckRisk(c) ==
  \/ CheckBreaker(c) \/ CheckLimits(c) \/ Trip(c) \/ Mark(c)
  \/ CheckAlert(c) \/ Grade(c) \/ CheckDaily(c)

-----------------------------------------------------------------------------
(* The operator. *)

Operate(from, to) == resume = from /\ resume' = to

\* TriggerEmergencyStop up to ForceOpen ...
TriggerEmergencyStop ==
  /\ mu = NoOne
  /\ Operate("idle", "alarming")
  /\ mu' = "operator"
  /\ cb' = Opened(cb)
  /\ UNCHANGED <<pnl, risk, checks, trades>>

\* ... and the risk state and the callback.
TriggerMark ==
  /\ Operate("alarming", "idle")
  /\ risk' = "EMERGENCY"
  /\ mu' = NoOne
  /\ UNCHANGED <<pnl, cb, checks, trades>>

\* ResumeTrading up to CheckLimits; on an error nothing changes.
ResumeCheck ==
  /\ mu = NoOne
  /\ ~Breached(pnl)
  /\ Operate("idle", "closing")
  /\ mu' = "operator"
  /\ UNCHANGED <<pnl, cb, risk, checks, trades>>

\* Reset up to pnlMonitor.Reset.
ResetPnL ==
  /\ mu = NoOne
  /\ pnl' = NewPnL
  /\ Operate("idle", "closing")
  /\ mu' = "operator"
  /\ UNCHANGED <<cb, risk, checks, trades>>

\* ForceClose of ResumeTrading, circuitBreaker.Reset of Reset ...
ResumeClose ==
  /\ Operate("closing", "closed")
  /\ cb' = Closed
  /\ UNCHANGED <<pnl, risk, mu, checks, trades>>

\* Fault: the risk state is left for the next check to grade.
ResumeMark_KeepsState ==
  /\ Operate("closed", "idle")
  /\ mu' = NoOne
  /\ UNCHANGED <<pnl, cb, risk, checks, trades>>

\* ... and the risk state.
ResumeMark ==
  /\ Operate("closed", "idle")
  /\ risk' = "NORMAL"
  /\ mu' = NoOne
  /\ UNCHANGED <<pnl, cb, checks, trades>>

-----------------------------------------------------------------------------
(* Results, recorded without m.mu. *)

\* RecordTrade up to UpdateRealized.
RecordTrade(t, result) ==
  /\ trades[t] = "idle"
  /\ pnl.realized + result \in (-MaxLoss)..MaxGain
  /\ pnl' = UpdateRealized(pnl, result)
  /\ trades' = [trades EXCEPT ![t] = IF result >= 0 THEN "success" ELSE "idle"]
  /\ UNCHANGED <<cb, risk, mu, checks, resume>>

RecordTradeSuccess(t) ==
  /\ trades[t] = "success"
  /\ cb' = OnSuccess(cb)
  /\ trades' = [trades EXCEPT ![t] = "idle"]
  /\ UNCHANGED <<pnl, risk, mu, checks, resume>>

UpdateUnrealizedPnL(value) ==
  /\ pnl' = UpdateUnrealized(pnl, value)
  /\ UNCHANGED <<cb, risk, mu, checks, resume, trades>>

\* RecordSuccess and RecordFailure, of placeOrder.
RecordResult ==
  /\ cb' \in {OnSuccess(cb), OnFailure(cb)}
  /\ UNCHANGED <<pnl, risk, mu, checks, resume, trades>>

-----------------------------------------------------------------------------
(* Time. *)

Midnight ==
  /\ ~pnl.newDay
  /\ pnl' = [pnl EXCEPT !.newDay = TRUE]
  /\ UNCHANGED <<cb, risk, mu, checks, resume, trades>>

Cool ==
  /\ IsOpen(cb) /\ ~cb.cooled
  /\ cb' = [cb EXCEPT !.cooled = TRUE]
  /\ UNCHANGED <<pnl, risk, mu, checks, resume, trades>>

-----------------------------------------------------------------------------

Init ==
  /\ pnl = NewPnL
  /\ cb = Closed
  /\ risk = "NORMAL"
  /\ mu = NoOne
  /\ checks = [c \in Checkers |-> "idle"]
  /\ resume = "idle"
  /\ trades = [t \in Traders |-> "idle"]

Next ==
  \/ \E c \in Checkers : Lock(c) \/ CheckRisk(c)
  \/ TriggerEmergencyStop \/ TriggerMark \/ ResumeCheck \/ ResetPnL \/ ResumeClose \/ ResumeMark
  \/ \E t \in Traders : RecordTradeSuccess(t) \/ \E r \in TradeResults : RecordTrade(t, r)
  \/ \E v \in UnrealizedValues : UpdateUnrealizedPnL(v)
  \/ RecordResult \/ Midnight \/ Cool

Spec == Init /\ [][Next]_vars

\* The ticker of monitorLoop keeps firing, a check that has begun goes on, and so
\* does an operation that holds the lock; sync.RWMutex lets no one wait for ever.
\* The timeout of the breaker passes.
Fairness ==
  /\ \A c \in Checkers : SF_vars(Lock(c)) /\ WF_vars(CheckRisk(c))
  /\ WF_vars(ResumeClose) /\ WF_vars(ResumeMark) /\ WF_vars(TriggerMark)
  /\ WF_vars(Cool)

FairSpec == Spec /\ Fairness

-----------------------------------------------------------------------------
(* Properties *)

TypeOK ==
  /\ pnl \in [realized : (-MaxLoss)..MaxGain, unrealized : UnrealizedValues \union {0},
              daily : Int, peak : Nat, overLimit : BOOLEAN, overWarning : BOOLEAN,
              newDay : BOOLEAN]
  /\ cb \in Breaker
  /\ risk \in {"NORMAL", "WARNING", "DANGER", "EMERGENCY"}
  /\ mu \in Checkers \union {NoOne, "operator"}
  /\ checks \in [Checkers -> {"idle", "breaker", "limits", "trip", "mark", "alert", "grade",
                           "daily"}]
  /\ resume \in {"idle", "alarming", "closing", "closed"}
  /\ trades \in [Traders -> {"idle", "success"}]

IsTrading == risk # "EMERGENCY" /\ ~IsOpen(cb)

\* Outside the critical sections an EMERGENCY is never left with a closed breaker,
\* although both are written separately and results are recorded in between
\* (monitor.go checkRisk, TriggerEmergencyStop, ResumeTrading, Reset).
EmergencyIsTripped == mu = NoOne /\ risk = "EMERGENCY" => IsOpen(cb)

\* Once tripped, trading stays off until an operator resumes: neither a profitable
\* trade, nor a successful order, nor the passing of time closes the breaker.
TripHolds ==
  [][IsOpen(cb) /\ ~IsOpen(cb)' => resume = "closing"]_vars

\* A breaker that failed orders have tripped (RecordFailure, without m.mu) becomes
\* an EMERGENCY, unless an operator closes it first.
TripIsNoticed == IsOpen(cb) ~> (risk = "EMERGENCY" \/ ~IsOpen(cb))

\* A breach of the limits that lasts switches trading off, whatever is recorded,
\* graded or reset meanwhile (monitor.go checkRisk).
BreachStopsTrading == Breached(pnl) ~> (~IsTrading \/ ~Breached(pnl))

\* "circuit_breaker.timeout: how long the breaker is tripped"
\* (docs/deployment/CONFIGURATION.md:59): a tripped breaker does not stay open for
\* good once its timeout has passed.
TimeoutEndsTrip == []<>~(IsOpen(cb) /\ cb.cooled)
=============================================================================
