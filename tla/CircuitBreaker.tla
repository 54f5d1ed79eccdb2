--------------------------- MODULE CircuitBreaker ---------------------------
(***************************************************************************)
(* One circuit breaker under concurrent use: goroutines inside Call, whose  *)
(* fn runs without cb.mu, others that record results of their own, and an   *)
(* operator.  A result is recorded in whatever state the breaker is by then. *)
(***************************************************************************)
EXTENDS BreakerState, FiniteSets

CONSTANTS
  Callers,      \* goroutines that go through Call
  MaxManual     \* bound: ForceOpen, ForceClose and Reset, together

ASSUME MaxManualAssumption == MaxManual \in Nat

VARIABLES
  calls,        \* per caller: outside Call, or inside fn, admitted normally or on trial
  healthy,      \* whether what fn calls works
  manual        \* manual interventions so far

cbVars == <<cb, calls, healthy, manual>>

\* Call up to fn: beforeCall returned nil.
Admit(c) ==
  /\ calls[c] = "outside"
  /\ Admits(cb)
  /\ cb' = BeforeCall(cb)
  /\ calls' = [calls EXCEPT ![c] = IF cb'.state = "HALF_OPEN" THEN "trial" ELSE "normal"]
  /\ UNCHANGED <<healthy, manual>>

\* Call returned the error of beforeCall.
Refuse(c) ==
  /\ calls[c] = "outside"
  /\ ~Admits(cb)
  /\ cb' = BeforeCall(cb)
  /\ UNCHANGED <<calls, healthy, manual>>

\* fn returned; afterCall records the result.
Return(c) ==
  /\ calls[c] # "outside"
  /\ \/ cb' = OnSuccess(cb)
     \/ ~healthy /\ cb' = OnFailure(cb)
  /\ calls' = [calls EXCEPT ![c] = "outside"]
  /\ UNCHANGED <<healthy, manual>>

RecordSuccess ==
  /\ cb' = OnSuccess(cb)
  /\ UNCHANGED <<calls, healthy, manual>>

RecordFailure ==
  /\ ~healthy
  /\ cb' = OnFailure(cb)
  /\ UNCHANGED <<calls, healthy, manual>>

\* Reset and ForceClose; ForceOpen.
Intervene ==
  /\ manual < MaxManual
  /\ manual' = manual + 1
  /\ cb' \in {Closed, Opened(cb)}
  /\ UNCHANGED <<calls, healthy>>

\* The timeout since openTime has passed.
CBCool ==
  /\ IsOpen(cb) /\ ~cb.cooled
  /\ cb' = [cb EXCEPT !.cooled = TRUE]
  /\ UNCHANGED <<calls, healthy, manual>>

HealthChanges ==
  /\ healthy' = ~healthy
  /\ UNCHANGED <<cb, calls, manual>>

CBInit ==
  /\ cb = Closed
  /\ calls = [c \in Callers |-> "outside"]
  /\ healthy \in BOOLEAN
  /\ manual = 0

CBNext ==
  \/ \E c \in Callers : Admit(c) \/ Refuse(c) \/ Return(c)
  \/ RecordSuccess \/ RecordFailure \/ Intervene \/ CBCool \/ HealthChanges

CBSpec == CBInit /\ [][CBNext]_cbVars

\* Time passes, fn returns, and there are callers that try again and again.
CBFairSpec ==
  /\ CBSpec
  /\ WF_cbVars(CBCool)
  /\ \A c \in Callers : WF_cbVars(Admit(c) \/ Refuse(c)) /\ WF_cbVars(Return(c))

-----------------------------------------------------------------------------
(* Properties *)

CBTypeOK ==
  /\ cb \in Breaker
  /\ calls \in [Callers -> {"outside", "normal", "trial"}]
  /\ healthy \in BOOLEAN
  /\ manual \in 0..MaxManual

\* A half-open breaker is always undecided: no failure is on its account and too
\* few successes to close it, however many late results of earlier calls it was
\* handed. Lines 120-133 of beforeCall, which settle a decided one, never run.
HalfOpenIsUndecided ==
  cb.state = "HALF_OPEN" => cb.fails = 0 /\ cb.succs < HalfOpenMaxTry

\* However it was closed (trial, ForceClose, Reset), a closed breaker has not yet
\* seen the run of failures that trips it (circuit_breaker.go onFailure, onSuccess).
ClosedBelowThreshold == cb.state = "CLOSED" => cb.consec < Threshold

\* AllowRequest and beforeCall, which decide by different conditions, agree in
\* every reachable state (circuit_breaker.go:293-309 against 97-139).
AdviceAgrees == AllowRequest(cb) <=> Admits(cb)

\* Late results never close a tripped breaker: without an intervention it goes
\* from OPEN to CLOSED only by way of HALF_OPEN, and leaves OPEN only when cooled.
NoShortcut ==
  [][IsOpen(cb) /\ ~IsOpen(cb)' /\ manual' = manual
     => cb.cooled /\ cb'.state = "HALF_OPEN"]_cbVars

\* Once the service works for good, the breaker closes for good, if it is asked
\* again and again: neither old failures nor results of calls admitted before it
\* tripped lock it open.
RecoversOnceHealthy == <>[]healthy => <>[](cb.state = "CLOSED")

\* "Half-open, a limited number of attempts is allowed" (circuit_breaker.go:118):
\* no more calls are on trial at once than HalfOpenMaxTry.
TrialsAreLimited == Cardinality({c \in Callers : calls[c] = "trial"}) <= HalfOpenMaxTry
=============================================================================
