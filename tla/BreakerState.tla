---------------------------- MODULE BreakerState ----------------------------
(***************************************************************************)
(* The state of a risk.CircuitBreaker as a record, and what each of its    *)
(* methods does to it.  Every method holds cb.mu from start to end, so each *)
(* operator below is one atomic step of whoever calls it.                  *)
(*                                                                         *)
(* Time enters only through time.Since(openTime) >= timeout: "cooled" says *)
(* that this comparison has become true.  Counters stop at CountCap, above *)
(* every value they are compared with.                                     *)
(***************************************************************************)
EXTENDS Naturals

CONSTANTS
  Threshold,        \* consecutive failures that trip the breaker
  HalfOpenMaxTry,   \* successes that close it again
  CountCap          \* bound of the counters

VARIABLE cb         \* the breaker

ASSUME ThresholdAssumption == Threshold \in Nat \ {0}
ASSUME HalfOpenMaxTryAssumption == HalfOpenMaxTry \in Nat \ {0}
ASSUME CountCapAssumption ==
  CountCap \in Nat /\ CountCap > Threshold /\ CountCap > HalfOpenMaxTry

Breaker == [state : {"CLOSED", "OPEN", "HALF_OPEN"}, fails : 0..CountCap,
            succs : 0..CountCap, consec : 0..CountCap, cooled : BOOLEAN]

\* NewCircuitBreaker, Reset and ForceClose leave the same state behind: openTime
\* is read in OPEN only, and set whenever OPEN is entered.
Closed == [state |-> "CLOSED", fails |-> 0, succs |-> 0, consec |-> 0, cooled |-> FALSE]

\* ForceOpen, and every other way into OPEN: the timeout starts anew.
Opened(b) == [b EXCEPT !.state = "OPEN", !.cooled = FALSE]

OneMore(n) == IF n < CountCap THEN n + 1 ELSE n

Attempts(b) == b.succs + b.fails

\* beforeCall: whether it returns nil ...
Admits(b) ==
  \/ b.state = "CLOSED"
  \/ b.state = "OPEN" /\ b.cooled
  \/ b.state = "HALF_OPEN" /\ (Attempts(b) < HalfOpenMaxTry \/ b.fails = 0)

\* Fault: the failures of the last episode are carried into the next one.
BeforeCall_KeepsFailures(b) ==
  CASE b.state = "OPEN" /\ b.cooled ->
         [b EXCEPT !.state = "HALF_OPEN", !.succs = 0]
    [] b.state = "HALF_OPEN" /\ Attempts(b) >= HalfOpenMaxTry ->
         IF b.fails > 0 THEN Opened(b) ELSE Closed
    [] OTHER -> b

\* ... and what it leaves behind.
BeforeCall(b) ==
  CASE b.state = "OPEN" /\ b.cooled ->
         [b EXCEPT !.state = "HALF_OPEN", !.succs = 0, !.fails = 0]
    [] b.state = "HALF_OPEN" /\ Attempts(b) >= HalfOpenMaxTry ->
         IF b.fails > 0 THEN Opened(b) ELSE Closed
    [] OTHER -> b

OnFailure(b) ==
  LET counted == [b EXCEPT !.fails = OneMore(@), !.consec = OneMore(@)] IN
  CASE b.state = "CLOSED" /\ counted.consec >= Threshold -> Opened(counted)
    [] b.state = "HALF_OPEN" -> Opened([counted EXCEPT !.succs = 0, !.fails = 0])
    [] OTHER -> counted

\* Fault: a success closes the breaker without clearing the consecutive failures.
OnSuccess_KeepsRun(b) ==
  LET counted == [b EXCEPT !.succs = OneMore(@)] IN
  IF b.state = "HALF_OPEN" /\ counted.succs >= HalfOpenMaxTry
  THEN [counted EXCEPT !.state = "CLOSED", !.succs = 0, !.fails = 0]
  ELSE counted

\* Fault: enough successes close the breaker in any state.
OnSuccess_AnyState(b) ==
  LET counted == [b EXCEPT !.succs = OneMore(@), !.consec = 0] IN
  IF counted.succs >= HalfOpenMaxTry
  THEN [counted EXCEPT !.state = "CLOSED", !.succs = 0, !.fails = 0]
  ELSE counted

OnSuccess(b) ==
  LET counted == [b EXCEPT !.succs = OneMore(@), !.consec = 0] IN
  IF b.state = "HALF_OPEN" /\ counted.succs >= HalfOpenMaxTry
  THEN [counted EXCEPT !.state = "CLOSED", !.succs = 0, !.fails = 0]
  ELSE counted

\* AllowRequest, which decides without moving the breaker.
AllowRequest(b) ==
  \/ b.state = "CLOSED"
  \/ b.state = "OPEN" /\ b.cooled
  \/ b.state = "HALF_OPEN" /\ Attempts(b) < HalfOpenMaxTry

IsOpen(b) == b.state = "OPEN"
=============================================================================
