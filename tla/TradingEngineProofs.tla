------------------------ MODULE TradingEngineProofs ------------------------
(***************************************************************************)
(* For any number of restarts, orders, quotes and goroutines in Stop: the   *)
(* engine's state is well typed, and as long as calls of Stop do not        *)
(* overlap, no two event loops run, a stopped engine has no orders, and     *)
(* only the risk monitor can close a channel twice.                         *)
(*                                                                         *)
(* What it rests on: the n-th loop owns the n-th pair of channels, so that  *)
(* a Stop that has seen doneChan closed has seen the end of the last loop;  *)
(* and nothing but a running loop adds an order, so that what Stop has      *)
(* listed for cancellation stays everything there is.                       *)
(***************************************************************************)
EXTENDS TradingEngine, FiniteSetTheorems, TLAPS

-----------------------------------------------------------------------------
(* The invariant *)

\* The types, a bound on the channels made, and that a quote being placed counts as left.
Typed ==
  /\ TypeOK
  /\ made <= starts
  /\ \A n \in Runs : loops[n].pc \in {"submit", "await"} => loops[n].left > 0

\* Calls of Stop do not overlap: e.mu does not prevent it, the callers do.
OneStop == \A s, t \in Stoppers : stops[s].pc # "idle" /\ stops[t].pc # "idle" => s = t

\* From where Stop no longer waits for the loop, to the next Start.
PastWait(s) == stops[s].pc \in {"monitor", "monitorWait", "snapshot", "cancel"}
Over == state = "STOPPED" \/ \E s \in Stoppers : PastWait(s)

\* Each start has its own pair of channels.
OwnChannels ==
  /\ made = IF starts = 0 THEN 0 ELSE starts - 1
  /\ state = "IDLE" <=> starts = 0

\* A loop that has begun closes the channel of its own run, once.
LoopKnown(n) ==
  /\ loops[n].pc = "none" <=> n > starts
  /\ loops[n].pc = "spawned" => n = starts /\ ~Over
  /\ loops[n].pc \notin {"none", "spawned", "ended"} => loops[n].done = n - 1
  /\ loops[n].pc # "ended" => n - 1 \notin doneClosed
  /\ Running(n) /\ ~late => n = starts /\ ~Over

StopKnown(s) ==
  /\ stops[s].pc # "idle" => state \in {"RUNNING", "PAUSED"}
  /\ stops[s].pc = "close" => made \notin stopClosed
  /\ stops[s].pc \in {"monitor", "monitorWait"} => enableRisk
  /\ stops[s].pc = "cancel" /\ ~late /\ ~failed => Active \subseteq stops[s].todo

\* In its first run the monitor's loop ends once, and is told to by one Stop.
MonitorKnown ==
  /\ monitor.running # {} => enableRisk
  /\ monitor.running \subseteq 1..starts
  /\ monitor.doneClosed => starts > 0
  /\ monitor.doneClosed /\ starts <= 1 => monitor.running = {}
  /\ monitor.stopClosed /\ starts <= 1 =>
       \/ state = "STOPPED"
       \/ \E s \in Stoppers : stops[s].pc \in {"monitorWait", "snapshot", "cancel"}

IInv ==
  /\ OwnChannels
  /\ \A n \in Runs : LoopKnown(n)
  /\ \A s \in Stoppers : StopKnown(s)
  /\ MonitorKnown
  /\ StoppedMeansFlat
  /\ PanicsOnlyWithMonitor

-----------------------------------------------------------------------------
(* Types *)

LEMMA Bounds == MaxStarts \in Nat \ {0} /\ MaxQuotes \in Nat \ {0} /\ Runs = 1..MaxStarts
  BY BoundsAssumption DEF Runs

LEMMA NoLoopIsLoop == NoLoop \in LoopRecord
  BY Bounds DEF NoLoop, LoopRecord

\* A loop replaced by a well-typed one, and nothing else of the loops.
LEMMA LoopTyped ==
  ASSUME Typed, NEW n \in Runs, NEW r \in LoopRecord, Loop(n, r),
         r.pc \in {"submit", "await"} => r.left > 0
  PROVE  /\ loops' \in [Runs -> LoopRecord]
         /\ \A m \in Runs : loops'[m].pc \in {"submit", "await"} => loops'[m].left > 0
  BY DEF Loop, Typed, TypeOK

\* A loop moves, and with it at most an order, tripped and failed.
LEMMA LoopMoveTyped ==
  ASSUME Typed, NEW n \in Runs, NEW r \in LoopRecord, Loop(n, r),
         r.pc \in {"submit", "await"} => r.left > 0,
         UNCHANGED <<enableRisk, lifecycle, stops, monitor, callback, late, panicked>>,
         orders' \in [Orders -> {"free", "sent", "live"}], tripped' \in BOOLEAN, failed' \in BOOLEAN
  PROVE  Typed'
<1>1. /\ loops' \in [Runs -> LoopRecord]
      /\ \A m \in Runs : loops'[m].pc \in {"submit", "await"} => loops'[m].left > 0
  BY LoopTyped
<1> QED
  BY <1>1 DEF Typed, TypeOK, lifecycle

LEMMA CancelTyped ==
  ASSUME TypeOK, NEW o \in Orders, CancelOutcome(o)
  PROVE  orders' \in [Orders -> {"free", "sent", "live"}] /\ failed' \in BOOLEAN
<1>1. orders' = [orders EXCEPT ![o] = "free"] \/ orders' = orders
  BY Zenon DEF CancelOutcome
<1>2. failed' = TRUE \/ failed' = failed
  BY Zenon DEF CancelOutcome
<1>3. orders' \in [Orders -> {"free", "sent", "live"}]
  BY <1>1 DEF TypeOK
<1>4. failed' \in BOOLEAN
  BY <1>2, Zenon DEF TypeOK
<1> QED
  BY <1>3, <1>4

LEMMA ToSelectTyped ==
  ASSUME Typed, NEW n \in Runs, BackToSelect(n), OnlyLoop
  PROVE  Typed'
<1> DEFINE r == [loops[n] EXCEPT !.pc = "select", !.stop = made, !.todo = {}, !.left = 0,
                                 !.order = NoOrder]
<1>0. loops[n] \in LoopRecord /\ made \in 0..MaxStarts /\ 0 \in 0..MaxQuotes
  BY Bounds DEF Typed, TypeOK
<1>1. r \in LoopRecord /\ r.pc = "select"
  BY <1>0 DEF LoopRecord
<1>2. Loop(n, r)
  BY DEF BackToSelect
<1> HIDE DEF r
<1> QED
  BY <1>1, <1>2, LoopMoveTyped DEF OnlyLoop, ghosts, Typed, TypeOK

LEMMA LoopStepTyped ==
  ASSUME Typed, NEW n \in Runs, LoopStep(n) \/ ContextEndsLoop(n)
  PROVE  Typed'
<1>0. loops[n] \in LoopRecord /\ made \in 0..MaxStarts
  BY DEF Typed, TypeOK
<1>1. CASE LoopBegins(n)
  <2> DEFINE r == [loops[n] EXCEPT !.pc = "select", !.stop = made, !.done = made]
  <2>1. r \in LoopRecord /\ r.pc = "select" /\ Loop(n, r)
    BY <1>0, <1>1 DEF LoopRecord, LoopBegins
  <2> HIDE DEF r
  <2> QED
    BY <1>1, <2>1, LoopMoveTyped DEF LoopBegins, OnlyLoop, ghosts, Typed, TypeOK
<1>2. CASE LeavesLoop(n)
  <2> DEFINE r == [NoLoop EXCEPT !.pc = "ended"]
  <2>1. r \in LoopRecord /\ r.pc = "ended" /\ Loop(n, r)
    BY <1>2, NoLoopIsLoop DEF LoopRecord, LeavesLoop, NoLoop
  <2> HIDE DEF r
  <2>2. /\ loops' \in [Runs -> LoopRecord]
        /\ \A m \in Runs : loops'[m].pc \in {"submit", "await"} => loops'[m].left > 0
    BY <2>1, LoopTyped
  <2>3. doneClosed' \subseteq 0..MaxStarts /\ panicked' \in BOOLEAN
    BY <1>0, <1>2 DEF LeavesLoop, LoopRecord, Typed, TypeOK
  <2> QED
    BY <1>2, <2>2, <2>3 DEF LeavesLoop, ghosts, Typed, TypeOK
<1>3. CASE TickFires(n)
  <2>1. CASE BackToSelect(n)
    BY <1>3, <2>1, ToSelectTyped DEF TickFires
  <2>2. ASSUME NEW pc \in {"tick", "reconcile"}, Loop(n, [loops[n] EXCEPT !.pc = pc]) PROVE Typed'
    <3> DEFINE r == [loops[n] EXCEPT !.pc = pc]
    <3>1. r \in LoopRecord /\ r.pc = pc
      BY <1>0 DEF LoopRecord
    <3>2. Loop(n, r)
      BY <2>2
    <3> HIDE DEF r
    <3> QED
      BY <1>3, <3>1, <3>2, LoopMoveTyped DEF TickFires, OnlyLoop, ghosts, Typed, TypeOK
  <2> QED
    BY <1>3, <2>1, <2>2 DEF TickFires
<1>4. CASE ReconcileEnds(n) \/ TickSkips(n) \/ TickEnds(n)
  BY <1>4, ToSelectTyped DEF ReconcileEnds, TickSkips, TickEnds
<1>5. CASE TickQuotes(n)
  <2>1. PICK k \in 1..MaxQuotes : Loop(n, [loops[n] EXCEPT !.pc = "cancel", !.todo = Active, !.left = k])
    BY <1>5 DEF TickQuotes
  <2> DEFINE r == [loops[n] EXCEPT !.pc = "cancel", !.todo = Active, !.left = k]
  <2>2. r \in LoopRecord /\ r.pc = "cancel"
    <3>1. k \in 0..MaxQuotes /\ Active \in SUBSET Orders
      BY Bounds DEF Active
    <3> QED
      BY <1>0, <3>1 DEF LoopRecord
  <2>3. Loop(n, r)
    BY <2>1
  <2> HIDE DEF r
  <2> QED
    BY <1>5, <2>2, <2>3, LoopMoveTyped DEF TickQuotes, OnlyLoop, ghosts, Typed, TypeOK
<1>6. CASE LoopCancelled(n)
  <2> DEFINE r == [loops[n] EXCEPT !.pc = "place"]
  <2>1. r \in LoopRecord /\ r.pc = "place" /\ Loop(n, r)
    BY <1>0, <1>6 DEF LoopRecord, LoopCancelled
  <2> HIDE DEF r
  <2> QED
    BY <1>6, <2>1, LoopMoveTyped DEF LoopCancelled, OnlyLoop, ghosts, Typed, TypeOK
<1>7. CASE SkipQuote(n)
  <2> DEFINE r == [loops[n] EXCEPT !.left = @ - 1]
  <2>1. r \in LoopRecord /\ r.pc = "place"
    BY <1>0, <1>7, Bounds DEF LoopRecord, SkipQuote
  <2>2. Loop(n, r)
    BY <1>7 DEF SkipQuote
  <2> HIDE DEF r
  <2> QED
    BY <1>7, <2>1, <2>2, LoopMoveTyped DEF SkipQuote, OnlyLoop, ghosts, Typed, TypeOK
<1>8. CASE PassPreTrade(n)
  <2> DEFINE r == [loops[n] EXCEPT !.pc = "submit"]
  <2>1. r \in LoopRecord /\ r.left > 0 /\ Loop(n, r)
    BY <1>0, <1>8 DEF LoopRecord, PassPreTrade
  <2> HIDE DEF r
  <2> QED
    BY <1>8, <2>1, LoopMoveTyped DEF PassPreTrade, OnlyLoop, ghosts, Typed, TypeOK
<1>9. CASE SubmitReturns(n)
  <2> DEFINE r == [loops[n] EXCEPT !.pc = "place", !.left = @ - 1, !.order = NoOrder]
  <2>0. loops[n].left \in 0..MaxQuotes /\ loops[n].left > 0
    BY <1>0, <1>9 DEF SubmitReturns, Typed, LoopRecord
  <2>1. r \in LoopRecord /\ r.pc = "place"
    <3>1. loops[n].left - 1 \in 0..MaxQuotes
      BY <2>0, Bounds
    <3> QED
      BY <1>0, <3>1 DEF LoopRecord
  <2>2. Loop(n, r)
    BY <1>9 DEF SubmitReturns
  <2> HIDE DEF r
  <2>3. tripped' \in BOOLEAN
    BY <1>9 DEF SubmitReturns, Typed, TypeOK
  <2> QED
    BY <1>9, <2>1, <2>2, <2>3, LoopMoveTyped DEF SubmitReturns, ghosts, Typed, TypeOK
<1>10. ASSUME NEW o \in Orders, LoopCancels(n, o) PROVE Typed'
  <2> DEFINE r == [loops[n] EXCEPT !.todo = @ \ {o}]
  <2>1. r \in LoopRecord /\ r.pc = "cancel"
    BY <1>0, <1>10 DEF LoopRecord, LoopCancels
  <2>2. Loop(n, r)
    BY <1>10 DEF LoopCancels
  <2> HIDE DEF r
  <2>3. orders' \in [Orders -> {"free", "sent", "live"}] /\ failed' \in BOOLEAN
    BY <1>10, CancelTyped DEF LoopCancels, Typed
  <2> QED
    BY <1>10, <2>1, <2>2, <2>3, LoopMoveTyped DEF LoopCancels, Typed, TypeOK
<1>11. ASSUME NEW o \in Orders, Submit(n, o) PROVE Typed'
  <2> DEFINE r == [loops[n] EXCEPT !.pc = "await", !.order = o]
  <2>1. r \in LoopRecord /\ r.left > 0 /\ Loop(n, r)
    BY <1>0, <1>11 DEF LoopRecord, Submit, Typed
  <2> HIDE DEF r
  <2>2. orders' \in [Orders -> {"free", "sent", "live"}]
    BY <1>11 DEF Submit, Typed, TypeOK
  <2> QED
    BY <1>11, <2>1, <2>2, LoopMoveTyped DEF Submit, ghosts, Typed, TypeOK
<1> QED
  BY <1>1, <1>2, <1>3, <1>4, <1>5, <1>6, <1>7, <1>8, <1>9, <1>10, <1>11
     DEF LoopStep, ContextEndsLoop, LoopEnds

LEMMA StopStepTyped ==
  ASSUME Typed, NEW s \in Stoppers, StopBegins(s) \/ StopStep(s)
  PROVE  Typed'
<1> DEFINE Calls == [pc : {"idle", "signal", "close", "wait", "monitor", "monitorWait", "snapshot",
                           "cancel"}, todo : SUBSET Orders]
<1>0. stops \in [Stoppers -> Calls] /\ made \in 0..MaxStarts
  BY DEF Typed, TypeOK
<1>1. ASSUME NEW from, NEW to \in {"signal", "close", "wait", "monitor", "monitorWait", "snapshot"},
             Stopping(s, from, to)
      PROVE  stops' \in [Stoppers -> Calls]
  BY <1>0, <1>1 DEF Stopping
<1>2. CASE OnlyStop /\ stops' \in [Stoppers -> Calls]
  BY <1>2 DEF OnlyStop, lifecycle, ghosts, Typed, TypeOK
<1>3. CASE StopBegins(s) \/ StopLooks(s) \/ StopSeesDone(s) \/ StopSeesMonitorDone(s)
  BY <1>1, <1>2, <1>3 DEF StopBegins, StopLooks, StopSeesDone, StopSeesMonitorDone
<1>4. CASE StopCloses(s)
  <2>1. stops' \in [Stoppers -> Calls] /\ panicked' \in BOOLEAN /\ stopClosed' \subseteq 0..MaxStarts
    BY <1>0, <1>1, <1>4 DEF StopCloses, Typed, TypeOK
  <2> QED
    BY <1>4, <2>1 DEF StopCloses, ghosts, Typed, TypeOK
<1>5. CASE StopTimesOut(s)
  <2>1. stops' \in [Stoppers -> Calls]
    BY <1>1, <1>5 DEF StopTimesOut
  <2> QED
    BY <1>5, <2>1 DEF StopTimesOut, lifecycle, Typed, TypeOK
<1>6. CASE StopClosesMonitor(s)
  <2>1. stops' \in [Stoppers -> Calls] /\ panicked' \in BOOLEAN
    BY <1>1, <1>6 DEF StopClosesMonitor, Typed, TypeOK
  <2>2. monitor' \in [running : SUBSET Runs, stopClosed : BOOLEAN, doneClosed : BOOLEAN]
    BY <1>6 DEF StopClosesMonitor, Typed, TypeOK
  <2> QED
    BY <1>6, <2>1, <2>2 DEF StopClosesMonitor, lifecycle, ghosts, Typed, TypeOK
<1>7. CASE StopLists(s)
  <2>1. Active \in SUBSET Orders
    BY DEF Active
  <2> DEFINE call == [pc |-> "cancel", todo |-> Active]
  <2>2. call \in Calls
    BY <2>1
  <2>3. stops' = [stops EXCEPT ![s] = call]
    BY <1>7 DEF StopLists
  <2> HIDE DEF call
  <2>4. stops' \in [Stoppers -> Calls]
    BY <1>0, <2>2, <2>3
  <2> QED
    BY <1>2, <1>7, <2>4 DEF StopLists
<1>8. CASE StopEnds(s)
  <2>1. NoCall \in Calls
    BY DEF NoCall
  <2>2. stops' \in [Stoppers -> Calls]
    BY <1>0, <1>8, <2>1 DEF StopEnds
  <2> QED
    BY <1>8, <2>2 DEF StopEnds, ghosts, Typed, TypeOK
<1>9. ASSUME NEW o \in Orders, StopCancels(s, o) PROVE Typed'
  <2>1. orders' \in [Orders -> {"free", "sent", "live"}] /\ failed' \in BOOLEAN
    BY <1>9, CancelTyped DEF StopCancels, Typed
  <2>2. stops' \in [Stoppers -> Calls]
    BY <1>0, <1>9 DEF StopCancels
  <2> QED
    BY <1>9, <2>1, <2>2 DEF StopCancels, lifecycle, Typed, TypeOK
<1> QED
  BY <1>3, <1>4, <1>5, <1>6, <1>7, <1>8, <1>9 DEF StopStep

LEMMA MonitorTyped ==
  ASSUME Typed, MonitorTrips \/ CallbackStep \/ ResumeTrading \/ (\E n \in Runs : MonitorLoopEnds(n))
  PROVE  Typed'
<1> DEFINE Callbacks == [pc : {"idle", "pause", "snapshot", "cancel", "done"}, todo : SUBSET Orders]
<1>0. callback \in Callbacks
  BY DEF Typed, TypeOK
<1>1. CASE MonitorTrips
  <2>1. callback' \in Callbacks
    BY <1>0, <1>1 DEF MonitorTrips
  <2> QED
    BY <1>1, <2>1 DEF MonitorTrips, lifecycle, ghosts, Typed, TypeOK
<1>2. CASE CallbackPauses
  <2>1. callback' \in Callbacks
    BY <1>0, <1>2 DEF CallbackPauses
  <2> QED
    BY <1>2, <2>1 DEF CallbackPauses, ghosts, Typed, TypeOK
<1>3. CASE CallbackLists
  <2>1. Active \in SUBSET Orders
    BY DEF Active
  <2>2. callback' \in Callbacks
    BY <1>3, <2>1 DEF CallbackLists
  <2> QED
    BY <1>3, <2>2 DEF CallbackLists, lifecycle, ghosts, Typed, TypeOK
<1>4. CASE CallbackEnds
  <2>1. callback' \in Callbacks
    BY <1>0, <1>4 DEF CallbackEnds
  <2> QED
    BY <1>4, <2>1 DEF CallbackEnds, lifecycle, ghosts, Typed, TypeOK
<1>5. ASSUME NEW o \in Orders, CallbackCancels(o) PROVE Typed'
  <2>1. orders' \in [Orders -> {"free", "sent", "live"}] /\ failed' \in BOOLEAN
    BY <1>5, CancelTyped DEF CallbackCancels, Typed
  <2>2. callback' \in Callbacks
    BY <1>0, <1>5 DEF CallbackCancels
  <2> QED
    BY <1>5, <2>1, <2>2 DEF CallbackCancels, lifecycle, Typed, TypeOK
<1>6. CASE ResumeTrading
  <2>1. callback' \in Callbacks
    BY <1>6 DEF ResumeTrading, NoCall
  <2> QED
    BY <1>6, <2>1 DEF ResumeTrading, lifecycle, ghosts, Typed, TypeOK
<1>7. ASSUME NEW n \in Runs, MonitorLoopEnds(n) PROVE Typed'
  <2>1. monitor' \in [running : SUBSET Runs, stopClosed : BOOLEAN, doneClosed : BOOLEAN]
        /\ panicked' \in BOOLEAN
    BY <1>7 DEF MonitorLoopEnds, Typed, TypeOK
  <2> QED
    BY <1>7, <2>1 DEF MonitorLoopEnds, lifecycle, ghosts, Typed, TypeOK
<1> QED
  BY <1>1, <1>2, <1>3, <1>4, <1>5, <1>6, <1>7 DEF CallbackStep

LEMMA StartTyped == Typed /\ Start => Typed'
<1> SUFFICES ASSUME Typed, Start PROVE Typed'
  OBVIOUS
<1>0. starts \in 0..MaxStarts /\ made \in 0..MaxStarts /\ made <= starts /\ starts < MaxStarts
      /\ starts' = starts + 1
  BY DEF Start, Typed, TypeOK
<1>1. starts' \in Runs /\ starts' \in 0..MaxStarts
  BY <1>0, Bounds
<1>2. made' \in 0..MaxStarts /\ made' <= starts'
  BY <1>0, Bounds DEF Start
<1> DEFINE r == [NoLoop EXCEPT !.pc = "spawned"]
<1>3. r \in LoopRecord /\ r.pc = "spawned"
  BY NoLoopIsLoop DEF LoopRecord, NoLoop
<1>4. Loop(starts', r)
  BY DEF Start, Loop
<1> HIDE DEF r
<1>5. /\ loops' \in [Runs -> LoopRecord]
      /\ \A m \in Runs : loops'[m].pc \in {"submit", "await"} => loops'[m].left > 0
  BY <1>1, <1>3, <1>4, LoopTyped
<1>6. monitor' \in [running : SUBSET Runs, stopClosed : BOOLEAN, doneClosed : BOOLEAN]
  BY <1>1 DEF Start, Typed, TypeOK
<1> QED
  BY <1>1, <1>2, <1>5, <1>6 DEF Start, ghosts, Typed, TypeOK

LEMMA StepTyped == Typed /\ [Next]_vars => Typed'
<1> SUFFICES ASSUME Typed, [Next]_vars PROVE Typed'
  OBVIOUS
<1>1. CASE Pause \/ Resume
  BY <1>1 DEF Pause, Resume, control, ghosts, Typed, TypeOK
<1>2. CASE ExchangeMoves
  <2>1. orders' \in [Orders -> {"free", "sent", "live"}]
    BY <1>2 DEF ExchangeMoves, Typed, TypeOK
  <2> QED
    BY <1>2, <2>1 DEF ExchangeMoves, lifecycle, control, ghosts, Typed, TypeOK
<1>3. CASE UNCHANGED vars
  BY <1>3 DEF vars, lifecycle, control, ghosts, Typed, TypeOK
<1> QED
  BY <1>1, <1>2, <1>3, StartTyped, LoopStepTyped, StopStepTyped, MonitorTyped DEF Next

LEMMA InitTyped == Init => Typed
<1> SUFFICES ASSUME Init PROVE Typed
  OBVIOUS
<1>1. loops \in [Runs -> LoopRecord] /\ \A n \in Runs : loops[n].pc = "none"
  BY NoLoopIsLoop DEF Init, NoLoop
<1>2. NoCall \in [pc : {"idle", "signal", "close", "wait", "monitor", "monitorWait", "snapshot",
                       "cancel"}, todo : SUBSET Orders]
      /\ NoCall \in [pc : {"idle", "pause", "snapshot", "cancel", "done"}, todo : SUBSET Orders]
  BY DEF NoCall
<1>3. monitor \in [running : SUBSET Runs, stopClosed : BOOLEAN, doneClosed : BOOLEAN]
  BY DEF Init
<1>4. starts \in 0..MaxStarts /\ made \in 0..MaxStarts /\ made <= starts
      /\ stopClosed = {} /\ doneClosed = {} /\ enableRisk \in BOOLEAN
  BY Bounds, RiskModesAssumption DEF Init
<1> QED
  BY <1>1, <1>2, <1>3, <1>4 DEF Init, Typed, TypeOK

\* The engine's state is well typed, however its restarts, its callers and its callback
\* interleave.
THEOREM EngineTypes == Spec => []TypeOK
<1>1. Typed => TypeOK
  BY DEF Typed
<1> QED
  BY InitTyped, StepTyped, <1>1, PTL DEF Spec

-----------------------------------------------------------------------------
(* The invariant is kept: the loops *)

\* Nothing is over while a loop of this run runs, so no list of orders is at stake.
LEMMA RunningMeansNotOver ==
  ASSUME IInv, ~late, NEW n \in Runs, Running(n)
  PROVE  state # "STOPPED" /\ \A s \in Stoppers : stops[s].pc # "cancel"
  BY DEF IInv, LoopKnown, Over, PastWait

\* A step of a loop that has begun, whatever it does to the orders.
LEMMA LoopKeeps ==
  ASSUME Typed, IInv, NEW n \in Runs, Running(n), NEW r, Loop(n, r),
         r.pc \notin {"none", "spawned", "ended"}, r.done = n - 1,
         UNCHANGED <<enableRisk, state, starts, made, stopClosed, doneClosed, stops, monitor, late,
                     panicked>>
  PROVE  IInv'
<1>1. loops'[n] = r /\ \A m \in Runs : m # n => loops'[m] = loops[m]
  BY DEF Loop, Typed, TypeOK
<1>2. ASSUME NEW m \in Runs PROVE LoopKnown(m)'
  <2>1. CASE m = n
    BY <1>1, <2>1 DEF IInv, LoopKnown, Running, Over, PastWait
  <2>2. CASE m # n
    BY <1>1, <2>2 DEF IInv, LoopKnown, Running, Over, PastWait
  <2> QED
    BY <2>1, <2>2
<1>3. ASSUME NEW s \in Stoppers PROVE StopKnown(s)'
  <2>1. late' \/ stops'[s].pc # "cancel"
    BY RunningMeansNotOver
  <2> QED
    BY <2>1 DEF IInv, StopKnown
<1>4. StoppedMeansFlat'
  BY RunningMeansNotOver DEF StoppedMeansFlat
<1> QED
  BY <1>2, <1>3, <1>4 DEF IInv, OwnChannels, MonitorKnown, PanicsOnlyWithMonitor

\* The end of a loop: it closes its own channel, which is still open.
LEMMA LeavingKeeps ==
  ASSUME Typed, IInv, ~panicked, NEW n \in Runs, loops[n].pc = "select", LeavesLoop(n)
  PROVE  IInv'
<1>0. Running(n) /\ loops[n].done = n - 1 /\ n - 1 \notin doneClosed
  BY DEF IInv, LoopKnown, Running
<1>1. loops'[n].pc = "ended" /\ \A m \in Runs : m # n => loops'[m] = loops[m]
  BY DEF LeavesLoop, Loop, NoLoop, Typed, TypeOK
<1>2. ASSUME NEW m \in Runs PROVE LoopKnown(m)'
  <2>1. CASE m = n
    BY <1>0, <1>1, <2>1 DEF IInv, LoopKnown, Running, LeavesLoop
  <2>2. CASE m # n
    <3>1. m - 1 # n - 1
      BY <2>2, Bounds
    <3> QED
      BY <1>0, <1>1, <2>2, <3>1 DEF IInv, LoopKnown, Running, LeavesLoop, ghosts, Over, PastWait
  <2> QED
    BY <2>1, <2>2
<1>3. ASSUME NEW s \in Stoppers PROVE StopKnown(s)'
  <2>1. late' \/ stops'[s].pc # "cancel"
    BY <1>0, RunningMeansNotOver DEF LeavesLoop, ghosts
  <2> QED
    BY <2>1 DEF IInv, StopKnown, LeavesLoop, ghosts
<1>4. StoppedMeansFlat'
  BY <1>0, RunningMeansNotOver DEF StoppedMeansFlat, LeavesLoop, ghosts
<1>5. ~panicked'
  BY <1>0 DEF LeavesLoop
<1> QED
  BY <1>2, <1>3, <1>4, <1>5 DEF IInv, OwnChannels, MonitorKnown, PanicsOnlyWithMonitor, LeavesLoop

LEMMA LoopStepKeeps ==
  ASSUME Typed, IInv, ~panicked, NEW n \in Runs, LoopStep(n) \/ ContextEndsLoop(n)
  PROVE  IInv'
<1>0. loops[n] \in LoopRecord
  BY DEF Typed, TypeOK
<1>1. CASE LoopBegins(n)
  <2>1. made = n - 1 /\ Running(n)
    BY <1>1, Bounds DEF LoopBegins, IInv, LoopKnown, OwnChannels, Running
  <2> DEFINE r == [loops[n] EXCEPT !.pc = "select", !.stop = made, !.done = made]
  <2>2. r.pc = "select" /\ r.done = n - 1 /\ Loop(n, r)
    BY <1>0, <1>1, <2>1 DEF LoopBegins, LoopRecord
  <2> HIDE DEF r
  <2> QED
    BY <1>1, <2>1, <2>2, LoopKeeps DEF LoopBegins, OnlyLoop, lifecycle, ghosts
<1>2. CASE LoopEnds(n) \/ ContextEndsLoop(n)
  BY <1>2, LeavingKeeps DEF LoopEnds, ContextEndsLoop
<1>3. CASE loops[n].pc \notin {"none", "spawned", "ended"} /\ ~(LoopEnds(n) \/ ContextEndsLoop(n))
  <2>1. Running(n) /\ loops[n].done = n - 1
    BY <1>3 DEF IInv, LoopKnown, Running
  <2>2. ASSUME NEW r, Loop(n, r), r.pc \notin {"none", "spawned", "ended"}, r.done = loops[n].done,
               UNCHANGED <<enableRisk, state, starts, made, stopClosed, doneClosed, stops, monitor,
                           late, panicked>>
        PROVE  IInv'
    BY <2>1, <2>2, LoopKeeps
  <2>3. CASE BackToSelect(n) /\ OnlyLoop
    <3> DEFINE r == [loops[n] EXCEPT !.pc = "select", !.stop = made, !.todo = {}, !.left = 0,
                                     !.order = NoOrder]
    <3>1. r.pc = "select" /\ r.done = loops[n].done /\ Loop(n, r)
      BY <1>0, <2>3 DEF BackToSelect, LoopRecord
    <3> HIDE DEF r
    <3> QED
      BY <2>2, <2>3, <3>1 DEF OnlyLoop, lifecycle, ghosts
  <2>4. CASE TickFires(n)
    <3>1. ASSUME NEW pc \in {"tick", "reconcile"}, Loop(n, [loops[n] EXCEPT !.pc = pc]) PROVE IInv'
      <4> DEFINE r == [loops[n] EXCEPT !.pc = pc]
      <4>1. r.pc = pc /\ r.done = loops[n].done /\ Loop(n, r)
        BY <1>0, <3>1 DEF LoopRecord
      <4> HIDE DEF r
      <4> QED
        BY <2>2, <2>4, <4>1 DEF TickFires, OnlyLoop, lifecycle, ghosts
    <3> QED
      BY <2>3, <2>4, <3>1 DEF TickFires
  <2>5. CASE TickQuotes(n)
    <3>1. PICK k \in 1..MaxQuotes : Loop(n, [loops[n] EXCEPT !.pc = "cancel", !.todo = Active, !.left = k])
      BY <2>5 DEF TickQuotes
    <3> DEFINE r == [loops[n] EXCEPT !.pc = "cancel", !.todo = Active, !.left = k]
    <3>2. r.pc = "cancel" /\ r.done = loops[n].done /\ Loop(n, r)
      BY <1>0, <3>1 DEF LoopRecord
    <3> HIDE DEF r
    <3> QED
      BY <2>2, <2>5, <3>2 DEF TickQuotes, OnlyLoop, lifecycle, ghosts
  <2>6. ASSUME NEW pc \in {"place", "submit"}, Loop(n, [loops[n] EXCEPT !.pc = pc]), OnlyLoop PROVE IInv'
    <3> DEFINE r == [loops[n] EXCEPT !.pc = pc]
    <3>1. r.pc = pc /\ r.done = loops[n].done /\ Loop(n, r)
      BY <1>0, <2>6 DEF LoopRecord
    <3> HIDE DEF r
    <3> QED
      BY <2>2, <2>6, <3>1 DEF OnlyLoop, lifecycle, ghosts
  <2>7. CASE SkipQuote(n)
    <3> DEFINE r == [loops[n] EXCEPT !.left = @ - 1]
    <3>1. r.pc = "place" /\ r.done = loops[n].done /\ Loop(n, r)
      BY <1>0, <2>7 DEF SkipQuote, LoopRecord
    <3> HIDE DEF r
    <3> QED
      BY <2>2, <2>7, <3>1 DEF SkipQuote, OnlyLoop, lifecycle, ghosts
  <2>8. CASE SubmitReturns(n)
    <3> DEFINE r == [loops[n] EXCEPT !.pc = "place", !.left = @ - 1, !.order = NoOrder]
    <3>1. r.pc = "place" /\ r.done = loops[n].done /\ Loop(n, r)
      BY <1>0, <2>8 DEF SubmitReturns, LoopRecord
    <3> HIDE DEF r
    <3> QED
      BY <2>2, <2>8, <3>1 DEF SubmitReturns, lifecycle, ghosts
  <2>9. ASSUME NEW o \in Orders, LoopCancels(n, o) PROVE IInv'
    <3> DEFINE r == [loops[n] EXCEPT !.todo = @ \ {o}]
    <3>1. r.pc = "cancel" /\ r.done = loops[n].done /\ Loop(n, r)
      BY <1>0, <2>9 DEF LoopCancels, LoopRecord
    <3> HIDE DEF r
    <3> QED
      BY <2>2, <2>9, <3>1 DEF LoopCancels, lifecycle
  <2>10. ASSUME NEW o \in Orders, Submit(n, o) PROVE IInv'
    <3> DEFINE r == [loops[n] EXCEPT !.pc = "await", !.order = o]
    <3>1. r.pc = "await" /\ r.done = loops[n].done /\ Loop(n, r)
      BY <1>0, <2>10 DEF Submit, LoopRecord
    <3> HIDE DEF r
    <3> QED
      BY <2>2, <2>10, <3>1 DEF Submit, lifecycle, ghosts
  <2>11. ~LoopBegins(n)
    BY <1>3 DEF LoopBegins
  <2> QED
    BY <1>3, <2>3, <2>4, <2>5, <2>6, <2>7, <2>8, <2>9, <2>10, <2>11
       DEF LoopStep, ReconcileEnds, TickSkips, TickEnds, LoopCancelled, PassPreTrade
<1>4. CASE loops[n].pc \in {"none", "spawned", "ended"} /\ ~LoopBegins(n)
  BY <1>4 DEF LoopStep, ContextEndsLoop, LoopEnds, TickFires, ReconcileEnds, TickSkips, TickQuotes,
              LoopCancelled, SkipQuote, PassPreTrade, SubmitReturns, TickEnds, LoopCancels, Submit
<1> QED
  BY <1>1, <1>2, <1>3, <1>4

-----------------------------------------------------------------------------
(* The invariant is kept: Stop *)

\* Stop goes on from one phase to another, in neither of which it cancels: what the
\* later conjuncts say of the phase is what has to be shown.
LEMMA StopMoves ==
  ASSUME Typed, IInv, OneStop, NEW s \in Stoppers, NEW from, NEW to, Stopping(s, from, to),
         to \in {"close", "wait", "monitor", "monitorWait", "snapshot"}, from # "idle",
         to = "close" => made \notin stopClosed,
         to \in {"monitor", "monitorWait"} => enableRisk,
         PastWait(s) \/ to \in {"close", "wait"}
           \/ \A n \in Runs : loops[n].pc # "spawned" /\ (Running(n) => late'),
         PastWait(s) => to \in {"monitorWait", "snapshot"},
         UNCHANGED <<enableRisk, state, starts, made, doneClosed, loops, monitor, orders, failed>>,
         stopClosed' = stopClosed \/ to # "close",
         late => late', panicked' => panicked
  PROVE  IInv'
<1>1. /\ stops[s].pc = from /\ stops'[s].pc = to
      /\ \A t \in Stoppers : t # s => stops'[t] = stops[t] /\ stops[t].pc = "idle"
  BY DEF Stopping, Typed, TypeOK, OneStop
<1>2. Over' <=> Over \/ to \in {"monitor", "monitorWait", "snapshot"}
  BY <1>1 DEF Over, PastWait, IInv, StopKnown
<1>3. ASSUME NEW n \in Runs PROVE LoopKnown(n)'
  <2>1. Over => (Over' <=> Over)
    BY <1>2
  <2> QED
    BY <1>1, <1>2 DEF IInv, LoopKnown, Running, Over, PastWait
<1>4. ASSUME NEW t \in Stoppers PROVE StopKnown(t)'
  BY <1>1 DEF IInv, StopKnown
<1>5. MonitorKnown'
  BY <1>1 DEF IInv, MonitorKnown, StopKnown, PastWait
<1>6. StoppedMeansFlat'
  BY DEF IInv, StoppedMeansFlat, Active
<1> QED
  BY <1>3, <1>4, <1>5, <1>6 DEF IInv, OwnChannels, PanicsOnlyWithMonitor

\* A Stop that sees doneChan closed sees the end of the last loop.
LEMMA DoneMeansEnded ==
  ASSUME Typed, IInv, NEW s \in Stoppers, stops[s].pc = "wait", made \in doneClosed, NEW n \in Runs
  PROVE  loops[n].pc # "spawned" /\ (Running(n) => late)
<1>1. starts # 0 /\ made = starts - 1
  BY DEF IInv, StopKnown, OwnChannels
<1> QED
  BY <1>1 DEF IInv, LoopKnown, Running

\* While a Stop waits and another loop than the last has not begun, the busy one is the last.
LEMMA BusyMeansBegun ==
  ASSUME IInv, NEW m \in Runs, m = starts, Busy(m), NEW n \in Runs
  PROVE  loops[n].pc # "spawned"
  BY DEF IInv, LoopKnown, Busy

LEMMA StopListKeeps ==
  ASSUME Typed, IInv, OneStop, NEW s \in Stoppers,
         StopLists(s) \/ \E o \in Orders : StopCancels(s, o)
  PROVE  IInv'
<1>1. /\ stops[s].pc \in {"snapshot", "cancel"} /\ stops'[s].pc = "cancel"
      /\ \A t \in Stoppers : t # s => stops'[t] = stops[t] /\ stops[t].pc = "idle"
  BY DEF StopLists, StopCancels, Typed, TypeOK, OneStop
<1>2. /\ UNCHANGED <<enableRisk, state, starts, made, stopClosed, doneClosed, loops, monitor, late, panicked>>
  BY DEF StopLists, StopCancels, OnlyStop, lifecycle, ghosts
<1>3. state # "STOPPED" /\ Over /\ Over'
  BY <1>1 DEF Over, PastWait, IInv, StopKnown
<1>4. ASSUME NEW n \in Runs PROVE LoopKnown(n)'
  BY <1>2, <1>3 DEF IInv, LoopKnown, Running
<1>5. ~late /\ ~failed' => Active' \subseteq stops'[s].todo
  <2>1. CASE StopLists(s)
    BY <2>1 DEF StopLists, OnlyStop, Active, Typed, TypeOK
  <2>2. ASSUME NEW o \in Orders, StopCancels(s, o), ~late, ~failed'
        PROVE  Active' \subseteq stops'[s].todo
    <3>1. /\ stops[s].pc = "cancel" /\ stops'[s].todo = stops[s].todo \ {o}
      BY <2>2 DEF StopCancels, Typed, TypeOK
    <3>2. \/ orders' = [orders EXCEPT ![o] = "free"]
          \/ orders[o] = "free" /\ orders' = orders
      BY <2>2 DEF StopCancels, CancelOutcome
    <3>3. Active' \subseteq Active \ {o}
      BY <3>2 DEF Active, Typed, TypeOK
    <3>4. ~failed
      BY <2>2 DEF StopCancels, CancelOutcome
    <3> QED
      BY <2>2, <3>1, <3>3, <3>4 DEF IInv, StopKnown
  <2> QED
    BY <2>1, <2>2
<1>6. ASSUME NEW t \in Stoppers PROVE StopKnown(t)'
  BY <1>1, <1>2, <1>5 DEF IInv, StopKnown
<1>7. MonitorKnown'
  BY <1>1, <1>2 DEF IInv, MonitorKnown
<1>8. StoppedMeansFlat' /\ PanicsOnlyWithMonitor' /\ OwnChannels'
  BY <1>2, <1>3 DEF IInv, StoppedMeansFlat, PanicsOnlyWithMonitor, OwnChannels
<1> QED
  BY <1>4, <1>6, <1>7, <1>8 DEF IInv

\* In its first run the monitor has not been told to stop before.
LEMMA StopMonitorKeeps ==
  ASSUME Typed, IInv, OneStop, ~panicked, NEW s \in Stoppers, StopClosesMonitor(s)
  PROVE  IInv'
<1>1. /\ stops[s].pc = "monitor" /\ stops'[s].pc = "monitorWait"
      /\ \A t \in Stoppers : t # s => stops'[t] = stops[t] /\ stops[t].pc = "idle"
  BY DEF StopClosesMonitor, Stopping, Typed, TypeOK, OneStop
<1>2. UNCHANGED <<enableRisk, state, starts, made, stopClosed, doneClosed, loops, orders, late, failed>>
  BY DEF StopClosesMonitor, lifecycle, ghosts
<1>3. state # "STOPPED" /\ Over /\ Over' /\ enableRisk /\ starts # 0
  BY <1>1 DEF Over, PastWait, IInv, StopKnown, OwnChannels
<1>4. ASSUME NEW n \in Runs PROVE LoopKnown(n)'
  BY <1>2, <1>3 DEF IInv, LoopKnown, Running
<1>5. ASSUME NEW t \in Stoppers PROVE StopKnown(t)'
  BY <1>1, <1>2, <1>3 DEF IInv, StopKnown
<1>6. monitor'.running = monitor.running /\ monitor'.doneClosed = monitor.doneClosed
  BY DEF StopClosesMonitor, Typed, TypeOK
<1>7. MonitorKnown'
  BY <1>1, <1>2, <1>6 DEF IInv, MonitorKnown
<1>8. StoppedMeansFlat' /\ OwnChannels'
  BY <1>2, <1>3 DEF IInv, StoppedMeansFlat, OwnChannels
<1>9. PanicsOnlyWithMonitor'
  <2>1. starts \in Nat
    BY DEF Typed, TypeOK
  <2>2. monitor.stopClosed => ~(starts <= 1)
    BY <1>1, <1>3 DEF IInv, MonitorKnown
  <2> QED
    BY <1>2, <1>3, <2>1, <2>2 DEF PanicsOnlyWithMonitor, StopClosesMonitor
<1> QED
  BY <1>4, <1>5, <1>7, <1>8, <1>9 DEF IInv

LEMMA StopStepKeeps ==
  ASSUME Typed, IInv, OneStop, ~panicked, NEW s \in Stoppers, StopStep(s)
  PROVE  IInv'
<1>1. CASE StopLooks(s)
  <2> DEFINE to == IF made \in stopClosed THEN "wait" ELSE "close"
  <2>1. /\ Stopping(s, "signal", to) /\ to \in {"close", "wait"}
        /\ to = "close" => made \notin stopClosed
        /\ ~PastWait(s)
    BY <1>1 DEF StopLooks, Stopping, PastWait
  <2> HIDE DEF to
  <2> QED
    BY <1>1, <2>1, StopMoves DEF StopLooks, OnlyStop, lifecycle, ghosts
<1>2. CASE StopCloses(s)
  <2>1. made \notin stopClosed
    BY <1>2 DEF StopCloses, Stopping, IInv, StopKnown
  <2>2. ~panicked' /\ ~PastWait(s) /\ Stopping(s, "close", "wait")
    BY <1>2, <2>1 DEF StopCloses, Stopping, PastWait
  <2> QED
    BY <1>2, <2>2, StopMoves DEF StopCloses, ghosts
<1>3. CASE StopSeesDone(s)
  <2> DEFINE to == IF enableRisk THEN "monitor" ELSE "snapshot"
  <2>0. /\ Stopping(s, "wait", to) /\ to \in {"monitor", "snapshot"}
        /\ to = "monitor" => enableRisk
        /\ ~PastWait(s)
    BY <1>3 DEF StopSeesDone, Stopping, PastWait
  <2> HIDE DEF to
  <2>1. \A n \in Runs : loops[n].pc # "spawned" /\ (Running(n) => late)
    BY <1>3, DoneMeansEnded DEF StopSeesDone, Stopping
  <2> QED
    BY <1>3, <2>0, <2>1, StopMoves DEF StopSeesDone, OnlyStop, lifecycle, ghosts
<1>4. CASE StopTimesOut(s)
  <2> DEFINE to == IF enableRisk THEN "monitor" ELSE "snapshot"
  <2>0. /\ Stopping(s, "wait", to) /\ to \in {"monitor", "snapshot"}
        /\ to = "monitor" => enableRisk
        /\ ~PastWait(s)
    BY <1>4 DEF StopTimesOut, Stopping, PastWait
  <2> HIDE DEF to
  <2>1. \A n \in Runs : loops[n].pc # "spawned"
    BY <1>4, BusyMeansBegun DEF StopTimesOut
  <2> QED
    BY <1>4, <2>0, <2>1, StopMoves DEF StopTimesOut, lifecycle
<1>5. CASE StopSeesMonitorDone(s)
  <2>1. PastWait(s) /\ Stopping(s, "monitorWait", "snapshot")
    BY <1>5 DEF StopSeesMonitorDone, Stopping, PastWait
  <2> QED
    BY <1>5, <2>1, StopMoves DEF StopSeesMonitorDone, OnlyStop, lifecycle, ghosts
<1>6. CASE StopLists(s) \/ \E o \in Orders : StopCancels(s, o)
  BY <1>6, StopListKeeps
<1>7. CASE StopEnds(s)
  <2>1. /\ stops[s].pc = "cancel" /\ stops[s].todo = {} /\ stops'[s].pc = "idle"
        /\ \A t \in Stoppers : t # s => stops'[t] = stops[t] /\ stops[t].pc = "idle"
    BY <1>7 DEF StopEnds, NoCall, Typed, TypeOK, OneStop
  <2>2. UNCHANGED <<enableRisk, starts, made, stopClosed, doneClosed, loops, monitor, orders, late,
                    failed, panicked>> /\ state' = "STOPPED"
    BY <1>7 DEF StopEnds, ghosts
  <2>3. state # "IDLE" /\ Over
    BY <2>1 DEF Over, PastWait, IInv, StopKnown
  <2>4. ASSUME NEW n \in Runs PROVE LoopKnown(n)'
    BY <2>2, <2>3 DEF IInv, LoopKnown, Running
  <2>5. ASSUME NEW t \in Stoppers PROVE StopKnown(t)'
    BY <2>1 DEF StopKnown
  <2>6. StoppedMeansFlat'
    BY <2>1, <2>2 DEF StoppedMeansFlat, IInv, StopKnown, Active
  <2>7. MonitorKnown' /\ OwnChannels' /\ PanicsOnlyWithMonitor'
    BY <2>2, <2>3 DEF IInv, MonitorKnown, OwnChannels, PanicsOnlyWithMonitor
  <2> QED
    BY <2>4, <2>5, <2>6, <2>7 DEF IInv
<1> QED
  BY <1>1, <1>2, <1>3, <1>4, <1>5, <1>6, <1>7, StopMonitorKeeps DEF StopStep

LEMMA StopBeginsKeeps ==
  ASSUME Typed, IInv, OneStop', NEW s \in Stoppers, StopBegins(s)
  PROVE  IInv'
<1>1. /\ stops[s].pc = "idle" /\ stops'[s].pc = "signal" /\ state \in {"RUNNING", "PAUSED"}
      /\ \A t \in Stoppers : t # s => stops'[t] = stops[t]
  BY DEF StopBegins, Stopping, Typed, TypeOK
<1>2. UNCHANGED <<enableRisk, state, starts, made, stopClosed, doneClosed, loops, monitor, orders, late,
                  failed, panicked>>
  BY DEF StopBegins, OnlyStop, lifecycle, ghosts
<1>3. Over' <=> Over
  BY <1>1, <1>2 DEF Over, PastWait
<1>4. ASSUME NEW n \in Runs PROVE LoopKnown(n)'
  BY <1>2, <1>3 DEF IInv, LoopKnown, Running
<1>5. ASSUME NEW t \in Stoppers PROVE StopKnown(t)'
  BY <1>1, <1>2 DEF IInv, StopKnown, Active
<1>6. MonitorKnown'
  BY <1>1, <1>2 DEF IInv, MonitorKnown
<1> QED
  BY <1>2, <1>4, <1>5, <1>6 DEF IInv, OwnChannels, StoppedMeansFlat, Active, PanicsOnlyWithMonitor

-----------------------------------------------------------------------------
(* The invariant is kept: everybody else *)

\* Pause, Resume, the callback's pause: the engine stays in a run.
LEMMA PausingKeeps ==
  ASSUME Typed, IInv,
         \/ state' = state
         \/ state \in {"RUNNING", "PAUSED"} /\ state' \in {"RUNNING", "PAUSED"},
         UNCHANGED <<enableRisk, starts, made, stopClosed, doneClosed, loops, stops, monitor, orders,
                     late, failed, panicked>>
  PROVE  IInv'
<1>1. Over' <=> Over
  BY DEF Over, PastWait
<1>2. ASSUME NEW n \in Runs PROVE LoopKnown(n)'
  BY <1>1 DEF IInv, LoopKnown, Running
<1>3. ASSUME NEW s \in Stoppers PROVE StopKnown(s)'
  BY DEF IInv, StopKnown, Active
<1> QED
  BY <1>2, <1>3 DEF IInv, OwnChannels, MonitorKnown, StoppedMeansFlat, Active, PanicsOnlyWithMonitor

\* Orders may end, and cancels fail, at any time.
LEMMA EndingOrdersKeeps ==
  ASSUME IInv, Active' \subseteq Active, failed => failed',
         UNCHANGED <<enableRisk, state, starts, made, stopClosed, doneClosed, loops, stops, monitor,
                     late, panicked>>
  PROVE  IInv'
<1>1. ASSUME NEW n \in Runs PROVE LoopKnown(n)'
  BY DEF IInv, LoopKnown, Running, Over, PastWait
<1>2. ASSUME NEW s \in Stoppers PROVE StopKnown(s)'
  BY DEF IInv, StopKnown
<1> QED
  BY <1>1, <1>2 DEF IInv, OwnChannels, MonitorKnown, StoppedMeansFlat, PanicsOnlyWithMonitor

LEMMA CallbackKeeps ==
  ASSUME Typed, IInv, MonitorTrips \/ CallbackStep \/ ResumeTrading
  PROVE  IInv'
<1>1. CASE MonitorTrips \/ CallbackLists \/ CallbackEnds \/ ResumeTrading
  BY <1>1, PausingKeeps
     DEF MonitorTrips, CallbackLists, CallbackEnds, ResumeTrading, lifecycle, ghosts
<1>2. CASE CallbackPauses
  BY <1>2, PausingKeeps DEF CallbackPauses, ghosts
<1>3. ASSUME NEW o \in Orders, CallbackCancels(o) PROVE IInv'
  <2>1. orders' = [orders EXCEPT ![o] = "free"] \/ orders' = orders
    BY <1>3 DEF CallbackCancels, CancelOutcome
  <2>2. Active' \subseteq Active
    BY <2>1 DEF Active, Typed, TypeOK
  <2>3. failed => failed'
    BY <1>3 DEF CallbackCancels, CancelOutcome
  <2> QED
    BY <1>3, <2>2, <2>3, EndingOrdersKeeps DEF CallbackCancels, lifecycle
<1> QED
  BY <1>1, <1>2, <1>3 DEF CallbackStep

LEMMA MonitorEndKeeps ==
  ASSUME Typed, IInv, ~panicked, NEW n \in Runs, MonitorLoopEnds(n)
  PROVE  IInv'
<1>1. /\ n \in monitor.running /\ monitor'.running = monitor.running \ {n}
      /\ monitor'.doneClosed /\ monitor'.stopClosed = monitor.stopClosed
  BY DEF MonitorLoopEnds, Typed, TypeOK
<1>2. UNCHANGED <<enableRisk, state, starts, made, stopClosed, doneClosed, loops, stops, orders, late,
                  failed>>
  BY DEF MonitorLoopEnds, lifecycle, ghosts
<1>3. n \in 1..starts /\ enableRisk /\ starts \in Nat
  BY <1>1 DEF IInv, MonitorKnown, Typed, TypeOK
<1>4. starts <= 1 => monitor'.running = {}
  BY <1>1, <1>3 DEF IInv, MonitorKnown
<1>5. MonitorKnown'
  BY <1>1, <1>2, <1>3, <1>4 DEF IInv, MonitorKnown
<1>6. PanicsOnlyWithMonitor'
  <2>1. monitor.doneClosed => ~(starts <= 1)
    BY <1>1 DEF IInv, MonitorKnown
  <2> QED
    BY <1>2, <1>3, <2>1 DEF PanicsOnlyWithMonitor, MonitorLoopEnds
<1>7. ASSUME NEW m \in Runs PROVE LoopKnown(m)'
  BY <1>2 DEF IInv, LoopKnown, Running, Over, PastWait
<1>8. ASSUME NEW s \in Stoppers PROVE StopKnown(s)'
  BY <1>2 DEF IInv, StopKnown, Active
<1> QED
  BY <1>2, <1>5, <1>6, <1>7, <1>8 DEF IInv, OwnChannels, StoppedMeansFlat, Active

\* A start finds all other loops at an end, but for those a Stop gave up.
LEMMA StartKeeps == ASSUME Typed, IInv, ~panicked, Start PROVE IInv'
<1>0. starts \in Nat /\ starts' = starts + 1 /\ starts' \in Runs /\ starts' # 0
  BY Bounds DEF Start, Typed, TypeOK
<1>1. \A s \in Stoppers : stops'[s] = stops[s] /\ stops[s].pc = "idle"
  BY DEF Start, IInv, StopKnown, Typed, TypeOK
<1>2. ~Over' /\ state' = "RUNNING"
  BY <1>1 DEF Over, PastWait, Start
<1>3. made' = starts' - 1
  BY <1>0 DEF Start, IInv, OwnChannels
<1>4. loops'[starts'].pc = "spawned" /\ \A n \in Runs : n # starts' => loops'[n] = loops[n]
  BY <1>0 DEF Start, NoLoop, Typed, TypeOK
<1>5. ASSUME NEW n \in Runs PROVE LoopKnown(n)'
  <2>0. n \in Nat /\ n # 0 /\ UNCHANGED <<doneClosed, late>>
    BY Bounds DEF Start, ghosts
  <2>1. LoopKnown(n)
    BY DEF IInv
  <2>2. CASE n = starts'
    <3>1. loops[n].pc = "none"
      BY <1>0, <2>0, <2>1, <2>2 DEF LoopKnown
    <3> QED
      BY <1>0, <1>2, <1>4, <2>0, <2>1, <2>2, <3>1 DEF LoopKnown
  <2>3. CASE n # starts'
    <3>1. loops[n].pc # "spawned" /\ (Running(n) => late)
      <4>1. CASE state = "STOPPED"
        BY <2>1, <4>1 DEF LoopKnown, Over
      <4>2. CASE state = "IDLE"
        <5>1. starts = 0
          BY <4>2 DEF IInv, OwnChannels
        <5> QED
          BY <2>0, <2>1, <5>1 DEF LoopKnown, Running
      <4> QED
        BY <4>1, <4>2 DEF Start
    <3>2. n > starts' <=> n > starts
      BY <1>0, <2>0, <2>3
    <3> QED
      BY <1>4, <2>0, <2>1, <2>3, <3>1, <3>2 DEF LoopKnown, Running
  <2> QED
    BY <2>2, <2>3
<1>6. ASSUME NEW s \in Stoppers PROVE StopKnown(s)'
  BY <1>1 DEF StopKnown
<1>7. MonitorKnown'
  <2>1. /\ monitor'.stopClosed = monitor.stopClosed /\ monitor'.doneClosed = monitor.doneClosed
        /\ monitor'.running \subseteq monitor.running \union {starts'}
        /\ ~enableRisk => monitor' = monitor
    BY DEF Start, Typed, TypeOK
  <2>2. monitor'.running \subseteq 1..starts'
    BY <1>0, <2>1 DEF IInv, MonitorKnown
  <2>3. starts' <= 1 => ~monitor.stopClosed /\ ~monitor.doneClosed
    <3>1. CASE starts = 0
      <4>1. state = "IDLE"
        BY <3>1 DEF IInv, OwnChannels
      <4> QED
        BY <1>1, <3>1, <4>1 DEF IInv, MonitorKnown
    <3> QED
      BY <1>0, <3>1
  <2>4. enableRisk' = enableRisk
    BY DEF Start
  <2>5. monitor'.running # {} => enableRisk
    BY <2>1 DEF IInv, MonitorKnown
  <2> QED
    BY <1>0, <2>1, <2>2, <2>3, <2>4, <2>5 DEF MonitorKnown
<1>8. OwnChannels' /\ StoppedMeansFlat' /\ PanicsOnlyWithMonitor'
  BY <1>0, <1>2, <1>3 DEF OwnChannels, StoppedMeansFlat, PanicsOnlyWithMonitor, Start
<1> QED
  BY <1>5, <1>6, <1>7, <1>8 DEF IInv

LEMMA StepKeeps == Typed /\ IInv /\ OneStop /\ OneStop' /\ [Next]_vars => IInv'
<1> SUFFICES ASSUME Typed, IInv, OneStop, OneStop', [Next]_vars PROVE IInv'
  OBVIOUS
<1>1. CASE UNCHANGED vars
  BY <1>1, PausingKeeps DEF vars, lifecycle, control, ghosts
<1>2. CASE Next
  <2>1. CASE Pause \/ Resume
    BY <2>1, PausingKeeps DEF Pause, Resume, control, ghosts
  <2>2. CASE ExchangeMoves
    <3>1. Active' \subseteq Active
      BY <2>2 DEF ExchangeMoves, Active, Typed, TypeOK
    <3> QED
      BY <2>2, <3>1, EndingOrdersKeeps DEF ExchangeMoves, lifecycle, control, ghosts
  <2> QED
    BY <1>2, <2>1, <2>2, StartKeeps, LoopStepKeeps, MonitorEndKeeps, StopBeginsKeeps, StopStepKeeps,
       CallbackKeeps DEF Next
<1> QED
  BY <1>1, <1>2

LEMMA InitKnown == Init => IInv
<1> SUFFICES ASSUME Init PROVE IInv
  OBVIOUS
<1>1. ASSUME NEW n \in Runs PROVE LoopKnown(n)
  <2>1. loops[n].pc = "none" /\ n > starts /\ doneClosed = {}
    BY Bounds DEF Init, NoLoop
  <2> QED
    BY <2>1 DEF LoopKnown, Running
<1>2. ASSUME NEW s \in Stoppers PROVE StopKnown(s)
  BY DEF Init, NoCall, StopKnown
<1> QED
  BY <1>1, <1>2 DEF Init, IInv, OwnChannels, MonitorKnown, StoppedMeansFlat, PanicsOnlyWithMonitor

-----------------------------------------------------------------------------
(* The theorems *)

\* What the loops, Stop and the monitor know of each other holds throughout, as long as
\* calls of Stop do not overlap.
THEOREM EngineInvariant == Spec /\ []OneStop => []IInv
<1>1. Spec => []Typed
  BY InitTyped, StepTyped, PTL DEF Spec
<1> QED
  BY <1>1, InitKnown, StepKeeps, PTL DEF Spec

\* A stopped engine has no order at the exchange or on its way, unless Stop gave up
\* waiting or a cancel failed.
THEOREM StoppedIsFlat == Spec /\ []OneStop => []StoppedMeansFlat
<1>1. IInv => StoppedMeansFlat
  BY DEF IInv
<1> QED
  BY EngineInvariant, <1>1, PTL

\* Start, Stop and Start again close no channel twice, but for those of a risk monitor
\* that is restarted.
THEOREM RestartsDoNotPanic == Spec /\ []OneStop => []PanicsOnlyWithMonitor
<1>1. IInv => PanicsOnlyWithMonitor
  BY DEF IInv
<1> QED
  BY EngineInvariant, <1>1, PTL

\* However often the engine is restarted, two event loops run at the same time only
\* after a Stop that gave up waiting.
THEOREM NoTwoLoops == Spec /\ []OneStop => []OneLoop
<1>1. IInv => OneLoop
  <2> SUFFICES ASSUME IInv, ~late PROVE Cardinality({n \in Runs : Running(n)}) <= 1
    BY DEF OneLoop
  <2> DEFINE running == {n \in Runs : Running(n)}
  <2>1. running \subseteq {starts}
    BY DEF IInv, LoopKnown
  <2>2. running = {} \/ running = {starts}
    BY <2>1
  <2> HIDE DEF running
  <2>3. Cardinality(running) <= 1
    <3>1. Cardinality({}) = 0 /\ Cardinality({starts}) = 1
      BY FS_EmptySet, FS_Singleton
    <3> QED
      BY <2>2, <3>1
  <2> QED
    BY <2>3 DEF running
<1> QED
  BY EngineInvariant, <1>1, PTL
=============================================================================
