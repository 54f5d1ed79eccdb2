----------------------------- MODULE RiskProofs -----------------------------
(***************************************************************************)
(* Proofs about CircuitBreaker and RiskMonitor, which rest on the same     *)
(* lemmas about the methods of the breaker: for every threshold, number of *)
(* trials and counter bound, any number of callers, checkers and traders,  *)
(* any limits and any trade results.                                       *)
(***************************************************************************)
EXTENDS CircuitBreaker, RiskMonitor, TLAPS

-----------------------------------------------------------------------------
(* The methods of the breaker *)

\* What every method of the breaker preserves.
Sound(b) ==
  /\ b \in Breaker
  /\ b.state = "HALF_OPEN" => b.fails = 0 /\ b.succs < HalfOpenMaxTry
  /\ b.state = "CLOSED" => b.consec < Threshold

LEMMA OneMoreLemma ==
  ASSUME NEW n \in 0..CountCap
  PROVE  /\ OneMore(n) \in 0..CountCap
         /\ OneMore(n) = n + 1 \/ OneMore(n) = CountCap
  BY CountCapAssumption DEF OneMore

\* NewCircuitBreaker, Reset and ForceClose leave a sound breaker.
LEMMA ClosedLemma == Sound(Closed)
  BY ThresholdAssumption, HalfOpenMaxTryAssumption, CountCapAssumption
  DEF Sound, Closed, Breaker

\* A counter may be set to 0.
LEMMA ZeroCount == 0 \in 0..CountCap
  BY CountCapAssumption

\* ForceOpen keeps a breaker sound, and opens it.
LEMMA OpenedLemma ==
  ASSUME NEW b \in Breaker
  PROVE  Sound(Opened(b)) /\ Opened(b).state = "OPEN"
  BY DEF Sound, Opened, Breaker

\* beforeCall keeps a sound breaker sound; it leaves OPEN only for HALF_OPEN.
LEMMA BeforeCallLemma ==
  ASSUME NEW b, Sound(b)
  PROVE  /\ Sound(BeforeCall(b))
         /\ b.state = "OPEN" /\ BeforeCall(b).state # "OPEN"
              => b.cooled /\ BeforeCall(b).state = "HALF_OPEN"
<1>1. b \in Breaker
  BY DEF Sound
<1>2. CASE b.state = "OPEN" /\ b.cooled
  <2>1. BeforeCall(b) = [b EXCEPT !.state = "HALF_OPEN", !.succs = 0, !.fails = 0]
    BY <1>2 DEF BeforeCall
  <2>2. BeforeCall(b) \in Breaker
    BY <1>1, <2>1, ZeroCount DEF Breaker
  <2>3. /\ BeforeCall(b).state = "HALF_OPEN" /\ BeforeCall(b).succs = 0
        /\ BeforeCall(b).fails = 0
    BY <1>1, <2>1 DEF Breaker
  <2>4. 0 < HalfOpenMaxTry
    BY HalfOpenMaxTryAssumption
  <2> QED BY <1>2, <2>2, <2>3, <2>4 DEF Sound
<1>3. CASE b.state = "HALF_OPEN"
  <2>1. Attempts(b) < HalfOpenMaxTry
    BY <1>1, <1>3, HalfOpenMaxTryAssumption DEF Sound, Attempts, Breaker
  <2>2. ~(Attempts(b) >= HalfOpenMaxTry)
    BY <1>1, <2>1, HalfOpenMaxTryAssumption DEF Attempts, Breaker
  <2>3. BeforeCall(b) = b
    BY <1>3, <2>2 DEF BeforeCall
  <2> QED BY <1>3, <2>3
<1>4. CASE ~(b.state = "OPEN" /\ b.cooled) /\ b.state # "HALF_OPEN"
  <2>1. BeforeCall(b) = b
    BY <1>4 DEF BeforeCall
  <2> QED BY <2>1
<1> QED BY <1>2, <1>3, <1>4

\* onFailure keeps a sound breaker sound, and never leaves OPEN.
LEMMA OnFailureLemma ==
  ASSUME NEW b, Sound(b)
  PROVE  /\ Sound(OnFailure(b))
         /\ b.state = "OPEN" => OnFailure(b).state = "OPEN"
         /\ b.state # "HALF_OPEN" => OnFailure(b).state # "HALF_OPEN"
<1> DEFINE counted == [b EXCEPT !.fails = OneMore(b.fails), !.consec = OneMore(b.consec)]
<1>1. b \in Breaker
  BY DEF Sound
<1>2. OneMore(b.fails) \in 0..CountCap /\ OneMore(b.consec) \in 0..CountCap
  BY <1>1, OneMoreLemma DEF Breaker
<1>3. /\ counted \in Breaker /\ counted.state = b.state
      /\ counted.consec = OneMore(b.consec)
  BY <1>1, <1>2 DEF Breaker
<1>4. CASE b.state = "CLOSED" /\ counted.consec >= Threshold
  <2>1. OnFailure(b) = Opened(counted)
    BY <1>4 DEF OnFailure
  <2> QED BY <1>3, <1>4, <2>1, OpenedLemma
<1>5. CASE b.state = "HALF_OPEN"
  <2>1. OnFailure(b) = Opened([counted EXCEPT !.succs = 0, !.fails = 0])
    BY <1>5 DEF OnFailure
  <2> HIDE DEF counted
  <2>2. [counted EXCEPT !.succs = 0, !.fails = 0] \in Breaker
    BY <1>3, ZeroCount DEF Breaker
  <2> QED BY <1>5, <2>1, <2>2, OpenedLemma
<1>6. CASE ~(b.state = "CLOSED" /\ counted.consec >= Threshold) /\ b.state # "HALF_OPEN"
  <2>1. OnFailure(b) = counted
    BY <1>6 DEF OnFailure
  <2>2. b.state = "CLOSED" => counted.consec < Threshold
    BY <1>2, <1>3, <1>6, ThresholdAssumption, CountCapAssumption
  <2> QED BY <1>3, <1>6, <2>1, <2>2 DEF Sound
<1> QED BY <1>4, <1>5, <1>6

\* onSuccess keeps a sound breaker sound, and never leaves OPEN.
LEMMA OnSuccessLemma ==
  ASSUME NEW b, Sound(b)
  PROVE  /\ Sound(OnSuccess(b))
         /\ b.state = "OPEN" => OnSuccess(b).state = "OPEN"
         /\ b.state # "HALF_OPEN" => OnSuccess(b).state # "HALF_OPEN"
<1> DEFINE counted == [b EXCEPT !.succs = OneMore(b.succs), !.consec = 0]
<1>1. b \in Breaker
  BY DEF Sound
<1>2. OneMore(b.succs) \in 0..CountCap
  BY <1>1, OneMoreLemma DEF Breaker
<1>3. /\ counted \in Breaker /\ counted.state = b.state /\ counted.consec = 0
      /\ counted.fails = b.fails /\ counted.succs = OneMore(b.succs)
  BY <1>1, <1>2, ZeroCount DEF Breaker
<1>4. CASE b.state = "HALF_OPEN" /\ counted.succs >= HalfOpenMaxTry
  <2>1. OnSuccess(b) = [counted EXCEPT !.state = "CLOSED", !.succs = 0, !.fails = 0]
    BY <1>4 DEF OnSuccess
  <2> HIDE DEF counted
  <2>2. OnSuccess(b) \in Breaker
    BY <1>3, <2>1, ZeroCount DEF Breaker
  <2>3. OnSuccess(b).state = "CLOSED" /\ OnSuccess(b).consec = 0
    BY <1>3, <2>1 DEF Breaker
  <2> QED BY <1>4, <2>2, <2>3, ThresholdAssumption DEF Sound
<1>5. CASE ~(b.state = "HALF_OPEN" /\ counted.succs >= HalfOpenMaxTry)
  <2>1. OnSuccess(b) = counted
    BY <1>5 DEF OnSuccess
  <2>2. b.state = "HALF_OPEN" => counted.succs < HalfOpenMaxTry /\ counted.fails = 0
    BY <1>2, <1>3, <1>5, HalfOpenMaxTryAssumption DEF Sound
  <2> QED BY <1>3, <2>1, <2>2, ThresholdAssumption DEF Sound
<1> QED BY <1>4, <1>5

-----------------------------------------------------------------------------
(* The breaker in use *)

\* Every step is a method of the breaker, so it stays sound.
CBInv == Sound(cb) /\ CBTypeOK

LEMMA BreakerInit == CBInit => CBInv
  BY ClosedLemma, MaxManualAssumption DEF CBInit, CBInv, CBTypeOK, Sound

\* Every step records nothing wrong and takes no shortcut out of OPEN.
LEMMA BreakerStep ==
  ASSUME CBInv, [CBNext]_cbVars
  PROVE  /\ Sound(cb')
         /\ cb.state = "OPEN" /\ cb'.state # "OPEN" /\ manual' = manual
              => cb.cooled /\ cb'.state = "HALF_OPEN"
<1> USE DEF CBInv
<1>b. cb \in Breaker /\ manual \in Nat
  BY MaxManualAssumption DEF CBTypeOK
<1>1. CASE UNCHANGED cb
  BY <1>1
<1>2. CASE cb' = BeforeCall(cb)
  BY <1>2, BeforeCallLemma
<1>3. CASE cb' = OnSuccess(cb) \/ cb' = OnFailure(cb)
  BY <1>3, OnSuccessLemma, OnFailureLemma
<1>4. CASE Intervene
  <2>1. manual' # manual
    BY <1>4, <1>b DEF Intervene
  <2>2. cb' = Closed \/ cb' = Opened(cb)
    BY <1>4 DEF Intervene
  <2> QED BY <1>b, <2>1, <2>2, ClosedLemma, OpenedLemma
<1>5. CASE CBCool
  <2>1. cb' = [cb EXCEPT !.cooled = TRUE] /\ cb.state = "OPEN"
    BY <1>5 DEF CBCool, IsOpen
  <2>2. cb' \in Breaker /\ cb'.state = "OPEN"
    BY <1>b, <2>1 DEF Breaker
  <2> QED BY <2>2 DEF Sound
<1> QED
  BY <1>1, <1>2, <1>3, <1>4, <1>5
  DEF CBNext, Admit, Refuse, Return, RecordSuccess, RecordFailure, HealthChanges, cbVars

LEMMA BreakerKeeps == CBInv /\ [CBNext]_cbVars => CBInv'
<1> SUFFICES ASSUME CBInv, [CBNext]_cbVars PROVE CBInv'
  OBVIOUS
<1>1. Sound(cb')
  BY BreakerStep
<1>2. calls' \in [Callers -> {"outside", "normal", "trial"}]
  BY DEF CBInv, CBTypeOK, CBNext, cbVars, Admit, Refuse, Return, RecordSuccess, RecordFailure,
         Intervene, CBCool, HealthChanges
<1>3. healthy' \in BOOLEAN
  BY DEF CBInv, CBTypeOK, CBNext, cbVars, Admit, Refuse, Return, RecordSuccess, RecordFailure,
         Intervene, CBCool, HealthChanges
<1>4. manual' \in 0..MaxManual
  <2>1. manual' = manual \/ Intervene
    BY DEF CBNext, cbVars, Admit, Refuse, Return, RecordSuccess, RecordFailure, CBCool, HealthChanges
  <2> QED BY <2>1, MaxManualAssumption DEF Intervene, CBInv, CBTypeOK
<1> QED BY <1>1, <1>2, <1>3, <1>4 DEF CBInv, CBTypeOK, Sound

\* The breaker and its callers keep their types; the counters stay within their bound.
THEOREM BreakerTypes == CBSpec => []CBTypeOK
<1>1. CBInv => CBTypeOK
  BY DEF CBInv
<1> QED BY <1>1, BreakerInit, BreakerKeeps, PTL DEF CBSpec

\* A half-open breaker is undecided, whatever late results it was handed.
THEOREM Undecided == CBSpec => []HalfOpenIsUndecided
<1>1. CBInv => HalfOpenIsUndecided
  BY DEF CBInv, Sound, HalfOpenIsUndecided
<1> QED BY <1>1, BreakerInit, BreakerKeeps, PTL DEF CBSpec

\* A closed breaker has not yet seen the run of failures that trips it.
THEOREM BelowThreshold == CBSpec => []ClosedBelowThreshold
<1>1. CBInv => ClosedBelowThreshold
  BY DEF CBInv, Sound, ClosedBelowThreshold
<1> QED BY <1>1, BreakerInit, BreakerKeeps, PTL DEF CBSpec

\* AllowRequest (circuit_breaker.go:293) promises exactly what beforeCall grants.
THEOREM Advice == CBSpec => []AdviceAgrees
<1>1. CBInv => AdviceAgrees
  <2> SUFFICES ASSUME CBInv PROVE AdviceAgrees
    OBVIOUS
  <2>1. cb.state = "HALF_OPEN" => cb.fails = 0 /\ Attempts(cb) < HalfOpenMaxTry
    BY HalfOpenMaxTryAssumption DEF CBInv, Sound, Breaker, Attempts
  <2> QED BY <2>1 DEF AdviceAgrees, AllowRequest, Admits
<1> QED BY <1>1, BreakerInit, BreakerKeeps, PTL DEF CBSpec

\* No late result closes a tripped breaker.
THEOREM NoShortcutEver == CBSpec => NoShortcut
<1>1. ASSUME CBInv, [CBNext]_cbVars
      PROVE  [IsOpen(cb) /\ ~IsOpen(cb)' /\ manual' = manual
              => cb.cooled /\ cb'.state = "HALF_OPEN"]_cbVars
  BY <1>1, BreakerStep DEF IsOpen
<1> QED BY <1>1, BreakerInit, BreakerKeeps, PTL DEF CBSpec, NoShortcut

-----------------------------------------------------------------------------
(* The monitor *)

\* m.mu is held by whoever is inside a critical section, and by nobody else.
Exclusion ==
  /\ \A c \in Checkers : checks[c] # "idle" => mu = c
  /\ resume # "idle" => mu = "operator"

\* beforeCall has no caller here, so the breaker is never on trial; an EMERGENCY,
\* or one about to be declared, has an open breaker until the operator closes it.
Tripped ==
  /\ Sound(cb) /\ cb.state # "HALF_OPEN"
  /\ risk = "EMERGENCY" => cb.state = "OPEN" \/ resume = "closed"
  /\ resume = "alarming" => cb.state = "OPEN"
  /\ \A c \in Checkers : checks[c] = "mark" => cb.state = "OPEN"

Shape == checks \in [Checkers -> {"idle", "breaker", "limits", "trip", "mark", "alert",
                                  "grade", "daily"}]

IInv == Shape /\ Exclusion /\ Tripped

LEMMA InvariantInit == Init => IInv
  BY ClosedLemma DEF Init, IInv, Shape, Exclusion, Tripped, Closed

LEMMA ShapeStep ==
  ASSUME IInv, [Next]_vars
  PROVE  Shape'
<1> USE DEF IInv, Shape
<1>1. ASSUME NEW c \in Checkers, CheckRisk(c) PROVE Shape'
  BY <1>1 DEF CheckRisk, Check, CheckBreaker, CheckLimits, Trip, Mark, CheckAlert, Grade,
              CheckDaily
<1>2. ASSUME NEW c \in Checkers, Lock(c) PROVE Shape'
  BY <1>2 DEF Lock, Check
<1> QED
  BY <1>1, <1>2
  DEF Next, vars, TriggerEmergencyStop, TriggerMark, ResumeCheck, ResetPnL, ResumeClose,
      ResumeMark, RecordTradeSuccess, RecordTrade, UpdateUnrealizedPnL, RecordResult,
      Midnight, Cool

LEMMA ExclusionStep ==
  ASSUME IInv, [Next]_vars
  PROVE  Exclusion'
<1> USE DEF IInv
<1>1. ASSUME NEW c \in Checkers, Lock(c) PROVE Exclusion'
  BY <1>1, NoOneAssumption DEF Lock, Check, Shape, Exclusion
<1>2. ASSUME NEW c \in Checkers, CheckRisk(c) PROVE Exclusion'
  <2>1. CASE CheckDaily(c)
    <3>1. mu = c /\ resume = "idle" /\ \A d \in Checkers \ {c} : checks[d] = "idle"
      BY <2>1, NoOneAssumption DEF CheckDaily, Check, Exclusion
    <3> QED BY <2>1, <3>1 DEF CheckDaily, Check, Shape, Exclusion
  <2>2. CASE CheckBreaker(c) \/ CheckLimits(c) \/ Trip(c)
    BY <2>2 DEF CheckBreaker, CheckLimits, Trip, Check, Shape, Exclusion
  <2>3. CASE Mark(c) \/ CheckAlert(c) \/ Grade(c)
    BY <2>3 DEF Mark, CheckAlert, Grade, Check, Shape, Exclusion
  <2> QED BY <1>2, <2>1, <2>2, <2>3 DEF CheckRisk
<1>3. CASE TriggerEmergencyStop \/ ResumeCheck \/ ResetPnL
  BY <1>3, NoOneAssumption DEF TriggerEmergencyStop, ResumeCheck, ResetPnL, Operate, Exclusion
<1>4. CASE TriggerMark \/ ResumeMark
  BY <1>4, NoOneAssumption DEF TriggerMark, ResumeMark, Operate, Exclusion
<1>5. CASE ResumeClose
  BY <1>5 DEF ResumeClose, Operate, Exclusion
<1>6. CASE UNCHANGED <<mu, checks, resume>>
  BY <1>6 DEF Exclusion
<1> QED
  BY <1>1, <1>2, <1>3, <1>4, <1>5, <1>6
  DEF Next, vars, RecordTradeSuccess, RecordTrade, UpdateUnrealizedPnL, RecordResult,
      Midnight, Cool

\* Recording a result moves only the breaker, and leaves an open one open.
LEMMA RecordLemma ==
  ASSUME IInv, cb' = OnSuccess(cb) \/ cb' = OnFailure(cb)
  PROVE  /\ Sound(cb') /\ cb'.state # "HALF_OPEN"
         /\ cb.state = "OPEN" => cb'.state = "OPEN"
  BY OnSuccessLemma, OnFailureLemma DEF IInv, Tripped

\* The breaker of the monitor is opened and closed only as the methods say.
LEMMA BreakerMoves ==
  ASSUME IInv, [Next]_vars
  PROVE  /\ Sound(cb') /\ cb'.state # "HALF_OPEN"
         /\ cb.state = "OPEN" /\ cb'.state # "OPEN" => ResumeClose
<1>b. cb \in Breaker /\ Sound(cb) /\ cb.state # "HALF_OPEN"
  BY DEF IInv, Tripped, Sound
<1>1. CASE UNCHANGED cb
  BY <1>1, <1>b
<1>2. CASE cb' = OnSuccess(cb) \/ cb' = OnFailure(cb)
  BY <1>2, RecordLemma
<1>3. CASE cb' = Opened(cb)
  BY <1>3, <1>b, OpenedLemma
<1>4. CASE ResumeClose
  BY <1>4, ClosedLemma DEF ResumeClose, Closed
<1>5. CASE Cool
  <2>1. cb' = [cb EXCEPT !.cooled = TRUE] /\ cb.state = "OPEN"
    BY <1>5 DEF Cool, IsOpen
  <2>2. cb' \in Breaker /\ cb'.state = "OPEN"
    BY <1>b, <2>1 DEF Breaker
  <2> QED BY <2>2 DEF Sound
<1>6. ASSUME NEW c \in Checkers, Lock(c) \/ CheckRisk(c)
      PROVE  UNCHANGED cb \/ cb' = Opened(cb)
  BY <1>6 DEF Lock, CheckRisk, CheckBreaker, CheckLimits, Trip, Mark, CheckAlert, Grade,
              CheckDaily
<1> QED
  BY <1>1, <1>2, <1>3, <1>4, <1>5, <1>6
  DEF Next, vars, TriggerEmergencyStop, TriggerMark, ResumeCheck, ResetPnL, ResumeMark,
      RecordTradeSuccess, RecordTrade, UpdateUnrealizedPnL, RecordResult, Midnight

LEMMA TrippedStep ==
  ASSUME IInv, [Next]_vars
  PROVE  Tripped'
<1> USE DEF IInv
<1>b. /\ Sound(cb') /\ cb'.state # "HALF_OPEN"
      /\ cb.state = "OPEN" /\ cb'.state # "OPEN" => ResumeClose
  BY BreakerMoves
<1>1. ASSUME NEW c \in Checkers, Lock(c) PROVE Tripped'
  BY <1>1, <1>b DEF Lock, Check, Shape, Tripped
<1>2. ASSUME NEW c \in Checkers, CheckBreaker(c) PROVE Tripped'
  BY <1>2, <1>b DEF CheckBreaker, Check, Shape, Tripped, IsOpen
<1>3. ASSUME NEW c \in Checkers, CheckLimits(c) PROVE Tripped'
  BY <1>3, <1>b DEF CheckLimits, Check, Shape, Tripped
<1>4. ASSUME NEW c \in Checkers, Trip(c) PROVE Tripped'
  <2>1. cb'.state = "OPEN"
    BY <1>4, OpenedLemma DEF Trip, Tripped, Sound
  <2> QED BY <1>4, <1>b, <2>1 DEF Trip, Check, Shape, Tripped
<1>5. ASSUME NEW c \in Checkers, Mark(c) PROVE Tripped'
  BY <1>5, <1>b DEF Mark, Check, Shape, Tripped
<1>6. ASSUME NEW c \in Checkers, CheckAlert(c) \/ Grade(c) \/ CheckDaily(c) PROVE Tripped'
  BY <1>6, <1>b DEF CheckAlert, Grade, CheckDaily, Check, Shape, Tripped
<1>7. CASE TriggerEmergencyStop
  <2>1. cb'.state = "OPEN"
    BY <1>7, OpenedLemma DEF TriggerEmergencyStop, Tripped, Sound
  <2> QED BY <1>7, <1>b, <2>1 DEF TriggerEmergencyStop, Operate, Tripped
<1>8. CASE TriggerMark
  BY <1>8, <1>b DEF TriggerMark, Operate, Tripped
<1>9. CASE ResumeCheck \/ ResetPnL
  BY <1>9, <1>b DEF ResumeCheck, ResetPnL, Operate, Tripped
<1>10. CASE ResumeClose
  <2>1. \A c \in Checkers : checks[c] # "mark"
    BY <1>10, NoOneAssumption DEF ResumeClose, Operate, Exclusion
  <2> QED BY <1>10, <1>b, <2>1 DEF ResumeClose, Operate, Tripped
<1>11. CASE ResumeMark
  BY <1>11, <1>b DEF ResumeMark, Operate, Tripped
<1>12. CASE UNCHANGED <<risk, checks, resume>>
  <2>1. ~ResumeClose
    BY <1>12 DEF ResumeClose, Operate
  <2> QED BY <1>12, <1>b, <2>1 DEF Tripped
<1> QED
  BY <1>1, <1>2, <1>3, <1>4, <1>5, <1>6, <1>7, <1>8, <1>9, <1>10, <1>11, <1>12
  DEF Next, vars, CheckRisk, RecordTradeSuccess, RecordTrade, UpdateUnrealizedPnL,
      RecordResult, Midnight, Cool

LEMMA InvariantStep == IInv /\ [Next]_vars => IInv'
  BY ShapeStep, ExclusionStep, TrippedStep DEF IInv

\* An EMERGENCY never outlives its tripped breaker (monitor.go checkRisk, Reset,
\* ResumeTrading, TriggerEmergencyStop), for any number of concurrent callers.
THEOREM EmergencyTripped == Spec => []EmergencyIsTripped
<1>1. IInv => EmergencyIsTripped
  BY NoOneAssumption DEF IInv, Exclusion, Tripped, EmergencyIsTripped, IsOpen
<1> QED BY <1>1, InvariantInit, InvariantStep, PTL DEF Spec

\* Only the operator lets a tripped monitor trade again.
THEOREM TripHoldsAlways == Spec => TripHolds
<1>1. ASSUME IInv, [Next]_vars
      PROVE  [IsOpen(cb) /\ ~IsOpen(cb)' => resume = "closing"]_vars
  BY <1>1, BreakerMoves DEF IsOpen, ResumeClose, Operate
<1> QED BY <1>1, InvariantInit, InvariantStep, PTL DEF Spec, TripHolds

-----------------------------------------------------------------------------
(* Types: the PnL moves on its own, apart from the invariant above. *)

PnL == [realized : (-MaxLoss)..MaxGain, unrealized : UnrealizedValues \union {0},
        daily : Int, peak : Nat, overLimit : BOOLEAN, overWarning : BOOLEAN,
        newDay : BOOLEAN]

\* updateDrawdown only moves the peak, up, and the two comparisons.
LEMMA WithDrawdownLemma ==
  ASSUME NEW p \in PnL
  PROVE  WithDrawdown(p) \in PnL
<1> DEFINE q == [p EXCEPT !.peak = IF Equity(p) > @ THEN Equity(p) ELSE @]
<1>1. Equity(p) \in Int
  <2>1. p.realized \in (-MaxLoss)..MaxGain /\ p.unrealized \in UnrealizedValues \union {0}
    BY DEF PnL
  <2>2. p.realized \in Int /\ p.unrealized \in Int
    <3>1. p.realized \in Int
      BY <2>1, PnLAssumption
    <3>2. UnrealizedValues \union {0} \subseteq Int
      BY PnLAssumption
    <3> QED
      BY <2>1, <3>1, <3>2
  <2> QED
    BY <2>2, EquityAssumption DEF Equity
<1>2. q \in PnL
  BY <1>1 DEF PnL
<1>3. (q.overLimit \/ DrawdownAbove(q, MaxDrawdownPct)) \in BOOLEAN
  BY <1>2 DEF PnL, DrawdownAbove
<1>4. (q.overWarning \/ DrawdownAbove(q, 5)) \in BOOLEAN
  BY <1>2 DEF PnL, DrawdownAbove
<1>5. WithDrawdown(p) = [q EXCEPT !.overLimit = @ \/ DrawdownAbove(q, MaxDrawdownPct),
                                  !.overWarning = @ \/ DrawdownAbove(q, 5)]
  BY DEF WithDrawdown
<1> HIDE DEF q
<1>6. WithDrawdown(p) = [q EXCEPT !.overLimit = (q.overLimit \/ DrawdownAbove(q, MaxDrawdownPct)),
                                  !.overWarning = (q.overWarning \/ DrawdownAbove(q, 5))]
  BY <1>2, <1>5 DEF PnL
<1> QED
  BY <1>2, <1>3, <1>4, <1>6 DEF PnL

\* A day begins, and its loss is counted from 0.
LEMMA DayLemma ==
  ASSUME NEW p \in PnL
  PROVE  [p EXCEPT !.newDay = TRUE] \in PnL /\ ResetDaily(p) \in PnL
<1>1. [p EXCEPT !.newDay = TRUE] \in PnL
  BY DEF PnL
<1>2. [p EXCEPT !.daily = 0] \in PnL
  BY DEF PnL
<1>3. [p EXCEPT !.daily = 0, !.newDay = FALSE] \in PnL
  BY <1>2 DEF PnL
<1> QED
  BY <1>1, <1>3 DEF ResetDaily

LEMMA PnLMoves ==
  ASSUME pnl \in PnL, [Next]_vars
  PROVE  pnl' \in PnL
<1>1. CASE UNCHANGED pnl
  BY <1>1
<1>2. ASSUME NEW t \in Traders, NEW r \in TradeResults, RecordTrade(t, r)
      PROVE  pnl' \in PnL
  <2>1. pnl.realized + r \in (-MaxLoss)..MaxGain /\ pnl.daily + r \in Int
    BY <1>2, PnLAssumption DEF RecordTrade, PnL
  <2>2. [pnl EXCEPT !.realized = @ + r, !.daily = @ + r] \in PnL
    BY <2>1 DEF PnL
  <2> QED
    BY <1>2, <2>2, WithDrawdownLemma DEF RecordTrade, UpdateRealized
<1>3. ASSUME NEW v \in UnrealizedValues, UpdateUnrealizedPnL(v)
      PROVE  pnl' \in PnL
  <2>1. [pnl EXCEPT !.unrealized = v] \in PnL
    BY DEF PnL
  <2> QED
    BY <1>3, <2>1, WithDrawdownLemma DEF UpdateUnrealizedPnL, UpdateUnrealized
<1>4. CASE ResetPnL
  BY <1>4, EquityAssumption, PnLAssumption DEF ResetPnL, NewPnL, PnL
<1>5. CASE Midnight \/ \E c \in Checkers : CheckDaily(c)
  <2>1. [pnl EXCEPT !.newDay = TRUE] \in PnL /\ ResetDaily(pnl) \in PnL
    BY DayLemma
  <2>2. CASE Midnight
    BY <2>1, <2>2 DEF Midnight
  <2>3. ASSUME NEW c \in Checkers, CheckDaily(c) PROVE pnl' \in PnL
    <3>1. pnl' = IF pnl.newDay THEN ResetDaily(pnl) ELSE pnl
      BY <2>3 DEF CheckDaily
    <3> QED
      BY <2>1, <3>1
  <2> QED
    BY <1>5, <2>2, <2>3
<1> QED
  BY <1>1, <1>2, <1>3, <1>4, <1>5
  DEF Next, vars, Lock, CheckRisk, CheckBreaker, CheckLimits, Trip, Mark, CheckAlert, Grade,
      TriggerEmergencyStop, TriggerMark, ResumeCheck, ResumeClose, ResumeMark,
      RecordTradeSuccess, RecordResult, Cool

\* The rest of TypeOK, which is neither the PnL nor the breaker.
Places ==
  /\ risk \in {"NORMAL", "WARNING", "DANGER", "EMERGENCY"}
  /\ mu \in Checkers \union {NoOne, "operator"}
  /\ resume \in {"idle", "alarming", "closing", "closed"}
  /\ trades \in [Traders -> {"idle", "success"}]

LEMMA PlacesStep ==
  ASSUME Places, [Next]_vars
  PROVE  Places'
<1>1. ASSUME NEW c \in Checkers, Lock(c) \/ CheckRisk(c) PROVE Places'
  BY <1>1 DEF Places, Lock, CheckRisk, CheckBreaker, CheckLimits, Trip, Mark, CheckAlert, Grade,
              CheckDaily
<1>2. CASE \/ TriggerEmergencyStop \/ TriggerMark \/ ResumeCheck \/ ResetPnL \/ ResumeClose
           \/ ResumeMark
  BY <1>2 DEF Places, Operate, TriggerEmergencyStop, TriggerMark, ResumeCheck, ResetPnL,
              ResumeClose, ResumeMark
<1>3. ASSUME NEW t \in Traders,
             RecordTradeSuccess(t) \/ \E r \in TradeResults : RecordTrade(t, r)
      PROVE  Places'
  BY <1>3 DEF Places, RecordTradeSuccess, RecordTrade
<1>4. CASE UNCHANGED <<risk, mu, resume, trades>>
  BY <1>4 DEF Places
<1> QED
  BY <1>1, <1>2, <1>3, <1>4 DEF Next, vars, UpdateUnrealizedPnL, RecordResult, Midnight, Cool

\* Every variable of the monitor has its type, for any limits, trades and callers: the
\* realized PnL stays within its bounds and the peak never becomes negative.
THEOREM MonitorTypes == Spec => []TypeOK
<1> DEFINE Inv == IInv /\ Places /\ pnl \in PnL
<1>1. Init => Inv
  BY InvariantInit, EquityAssumption, PnLAssumption DEF Init, NewPnL, PnL, Places
<1>2. Inv /\ [Next]_vars => Inv'
  BY InvariantStep, PlacesStep, PnLMoves
<1>3. Inv => TypeOK
  BY DEF IInv, Shape, Tripped, Sound, Places, PnL, TypeOK
<1> HIDE DEF Inv
<1> QED BY <1>1, <1>2, <1>3, PTL DEF Spec
=============================================================================
