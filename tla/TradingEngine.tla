--------------------------- MODULE TradingEngine ---------------------------
(***************************************************************************)
(* engine.TradingEngine: its life cycle, its event loop, the goroutine of  *)
(* risk.Monitor it starts, and the emergency callback it registers there.   *)
(*                                                                         *)
(* e.mu is never held across a channel operation or a gateway call.  The   *)
(* order layer is reduced to where each order is: see OrderManager; the    *)
(* risk monitor to whether it lets the engine trade: see RiskMonitor.      *)
(***************************************************************************)
EXTENDS Naturals, FiniteSets

CONSTANTS
  Orders,       \* orders the engine may have at the same time
  NoOrder,      \* "this loop waits for no order"
  Stoppers,     \* goroutines that call Stop
  MaxStarts,    \* bound: successful calls of Start
  MaxQuotes,    \* quotes of one tick
  RiskModes     \* values of config.EnableRisk

ASSUME NoOrderAssumption == NoOrder \notin Orders
ASSUME BoundsAssumption == MaxStarts \in Nat \ {0} /\ MaxQuotes \in Nat \ {0}
ASSUME RiskModesAssumption == RiskModes \subseteq BOOLEAN

Runs == 1..MaxStarts

VARIABLES
  enableRisk,   \* config.EnableRisk
  state,        \* the engine's state
  starts,       \* calls of Start so far: the n-th one starts loop n and monitor loop n
  made,         \* which pair of channels e.stopChan and e.doneChan hold
  stopClosed, doneClosed,        \* the pairs whose channels are closed
  loops,        \* the event loops
  stops,        \* the goroutines in Stop
  monitor,      \* risk.Monitor: its loops and its two channels
  tripped,      \* IsTrading() is FALSE
  callback,     \* the goroutine of the emergency callback
  orders,       \* where each order is
  late,         \* a Stop has given up waiting for the event loop
  failed,       \* a cancel has failed
  panicked      \* the process has died

lifecycle == <<state, starts, made, stopClosed, doneClosed>>
control == <<loops, stops, monitor, callback>>
ghosts == <<late, failed>>
vars == <<enableRisk, lifecycle, control, tripped, orders, ghosts, panicked>>

NoCall == [pc |-> "idle", todo |-> {}]
NoLoop == [pc |-> "none", stop |-> 0, done |-> 0, todo |-> {}, left |-> 0, order |-> NoOrder]

\* GetActiveOrders, as OrderManager keeps it.
Active == {o \in Orders : orders[o] # "free"}
Live == {o \in Orders : orders[o] = "live"}

Running(n) == loops[n].pc \notin {"none", "ended"}
\* Inside onTick or onReconcile, where a gateway call may take its time. Everything
\* else a loop does is over long before the ten seconds Stop waits.
Busy(n) == loops[n].pc \in {"tick", "reconcile", "cancel", "place", "submit", "await"}

-----------------------------------------------------------------------------
(* Start *)

\* Fault: the channels of the last run are used again.
Start_KeepsChannels ==
  /\ state \in {"IDLE", "STOPPED"}
  /\ starts < MaxStarts
  /\ starts' = starts + 1
  /\ state' = "RUNNING"
  /\ loops' = [loops EXCEPT ![starts'] = [NoLoop EXCEPT !.pc = "spawned"]]
  /\ monitor' = IF enableRisk THEN [monitor EXCEPT !.running = @ \union {starts'}] ELSE monitor
  /\ UNCHANGED <<enableRisk, made, stopClosed, doneClosed, stops, callback,
                 tripped, orders, ghosts, panicked>>

\* Fault: only a running engine refuses to start.
Start_WhilePaused ==
  /\ state # "RUNNING"
  /\ starts < MaxStarts
  /\ starts' = starts + 1
  /\ made' = IF state = "STOPPED" THEN made + 1 ELSE made
  /\ state' = "RUNNING"
  /\ loops' = [loops EXCEPT ![starts'] = [NoLoop EXCEPT !.pc = "spawned"]]
  /\ monitor' = IF enableRisk THEN [monitor EXCEPT !.running = @ \union {starts'}] ELSE monitor
  /\ UNCHANGED <<enableRisk, stopClosed, doneClosed, stops, callback,
                 tripped, orders, ghosts, panicked>>

\* A restart makes new channels for the engine; Monitor.Start makes none.
Start ==
  /\ state \in {"IDLE", "STOPPED"}
  /\ starts < MaxStarts
  /\ starts' = starts + 1
  /\ made' = IF state = "STOPPED" THEN made + 1 ELSE made
  /\ state' = "RUNNING"
  /\ loops' = [loops EXCEPT ![starts'] = [NoLoop EXCEPT !.pc = "spawned"]]
  /\ monitor' = IF enableRisk THEN [monitor EXCEPT !.running = @ \union {starts'}] ELSE monitor
  /\ UNCHANGED <<enableRisk, stopClosed, doneClosed, stops, callback,
                 tripped, orders, ghosts, panicked>>

Pause ==
  /\ state = "RUNNING"
  /\ state' = "PAUSED"
  /\ UNCHANGED <<enableRisk, starts, made, stopClosed, doneClosed, control,
                 tripped, orders, ghosts, panicked>>

Resume ==
  /\ state = "PAUSED"
  /\ state' = "RUNNING"
  /\ UNCHANGED <<enableRisk, starts, made, stopClosed, doneClosed, control,
                 tripped, orders, ghosts, panicked>>

-----------------------------------------------------------------------------
(* run. Every pass through select reads e.stopChan anew; doneChan is read once, *)
(* by the defer.                                                                *)

Loop(n, r) == loops' = [loops EXCEPT ![n] = r]

BackToSelect(n) ==
  Loop(n, [loops[n] EXCEPT !.pc = "select", !.stop = made, !.todo = {}, !.left = 0,
                           !.order = NoOrder])

\* What the steps of a loop leave alone when no order moves.
OnlyLoop == UNCHANGED <<enableRisk, lifecycle, stops, monitor, callback, tripped,
                        orders, ghosts, panicked>>

LoopBegins(n) ==
  /\ loops[n].pc = "spawned"
  /\ Loop(n, [loops[n] EXCEPT !.pc = "select", !.stop = made, !.done = made])
  /\ OnlyLoop

\* The deferred close of doneChan.
LeavesLoop(n) ==
  /\ panicked' = (loops[n].done \in doneClosed)
  /\ doneClosed' = doneClosed \union {loops[n].done}
  /\ Loop(n, [NoLoop EXCEPT !.pc = "ended"])
  /\ UNCHANGED <<enableRisk, state, starts, made, stopClosed, stops, monitor, callback,
                 tripped, orders, ghosts>>

LoopEnds(n) ==
  /\ loops[n].pc = "select"
  /\ loops[n].stop \in stopClosed
  /\ LeavesLoop(n)

\* ctx.Done: the context of Start may be cancelled at any time.
ContextEndsLoop(n) ==
  /\ loops[n].pc = "select"
  /\ LeavesLoop(n)

\* onTick: skipped while paused. onReconcile: busy, without effect on orders here.
TickFires(n) ==
  /\ loops[n].pc = "select"
  /\ \/ state = "PAUSED" /\ BackToSelect(n)
     \/ state # "PAUSED" /\ Loop(n, [loops[n] EXCEPT !.pc = "tick"])
     \/ Loop(n, [loops[n] EXCEPT !.pc = "reconcile"])
  /\ OnlyLoop

ReconcileEnds(n) ==
  /\ loops[n].pc = "reconcile"
  /\ BackToSelect(n)
  /\ OnlyLoop

\* IsTrading, then market data and strategy, which may have nothing to quote.
TickSkips(n) ==
  /\ loops[n].pc = "tick"
  /\ BackToSelect(n)
  /\ OnlyLoop

TickQuotes(n) ==
  /\ loops[n].pc = "tick"
  /\ ~(enableRisk /\ tripped)
  /\ \E k \in 1..MaxQuotes :
       Loop(n, [loops[n] EXCEPT !.pc = "cancel", !.todo = Active, !.left = k])
  /\ OnlyLoop

\* Fault: one quote too many.
SkipQuote_PastEnd(n) ==
  /\ loops[n].pc = "place"
  /\ Loop(n, [loops[n] EXCEPT !.left = @ - 1])
  /\ OnlyLoop

\* placeOrder returns before Submit: CheckPreTrade, or no capacity left.
SkipQuote(n) ==
  /\ loops[n].pc = "place" /\ loops[n].left > 0
  /\ Loop(n, [loops[n] EXCEPT !.left = @ - 1])
  /\ OnlyLoop

\* CheckPreTrade passes ...
PassPreTrade(n) ==
  /\ loops[n].pc = "place" /\ loops[n].left > 0
  /\ ~(enableRisk /\ tripped)
  /\ Loop(n, [loops[n] EXCEPT !.pc = "submit"])
  /\ OnlyLoop

\* ... and Submit sends the order.
Submit(n, o) ==
  /\ loops[n].pc = "submit"
  /\ orders[o] = "free"
  /\ \A m \in Runs : loops[m].order # o
  /\ orders' = [orders EXCEPT ![o] = "sent"]
  /\ Loop(n, [loops[n] EXCEPT !.pc = "await", !.order = o])
  /\ UNCHANGED <<enableRisk, lifecycle, stops, monitor, callback, tripped,
                 ghosts, panicked>>

\* Submit returns, with the answer of the exchange (a lost answer is a matter of
\* OrderManager); RecordFailure may trip the breaker, without any callback.
SubmitReturns(n) ==
  /\ loops[n].pc = "await"
  /\ orders[loops[n].order] # "sent"
  /\ tripped' \in {tripped, tripped \/ enableRisk}
  /\ Loop(n, [loops[n] EXCEPT !.pc = "place", !.left = @ - 1, !.order = NoOrder])
  /\ UNCHANGED <<enableRisk, lifecycle, stops, monitor, callback, orders,
                 ghosts, panicked>>

TickEnds(n) ==
  /\ loops[n].pc = "place" /\ loops[n].left = 0
  /\ BackToSelect(n)
  /\ OnlyLoop

-----------------------------------------------------------------------------
(* cancelAllOrders: the snapshot, then one Cancel after the other. The exchange *)
(* does not know an order that is still on its way.                             *)

CancelOutcome(o) ==
  \/ orders[o] = "live" /\ orders' = [orders EXCEPT ![o] = "free"] /\ UNCHANGED failed
  \/ orders[o] = "free" /\ UNCHANGED <<orders, failed>>
  \/ orders[o] # "free" /\ failed' = TRUE /\ UNCHANGED orders

LoopCancels(n, o) ==
  /\ loops[n].pc = "cancel" /\ o \in loops[n].todo
  /\ CancelOutcome(o)
  /\ Loop(n, [loops[n] EXCEPT !.todo = @ \ {o}])
  /\ UNCHANGED <<enableRisk, lifecycle, stops, monitor, callback, tripped,
                 late, panicked>>

LoopCancelled(n) ==
  /\ loops[n].pc = "cancel" /\ loops[n].todo = {}
  /\ Loop(n, [loops[n] EXCEPT !.pc = "place"])
  /\ OnlyLoop

-----------------------------------------------------------------------------
(* Stop *)

Stopping(s, from, to) == stops[s].pc = from /\ stops' = [stops EXCEPT ![s].pc = to]

OnlyStop == UNCHANGED <<enableRisk, lifecycle, loops, monitor, callback, tripped,
                        orders, ghosts, panicked>>

StopBegins(s) ==
  /\ state \in {"RUNNING", "PAUSED"}
  /\ Stopping(s, "idle", "signal")
  /\ OnlyStop

\* Fault: the two branches of the select are swapped.
StopLooks_Swapped(s) ==
  /\ Stopping(s, "signal", IF made \in stopClosed THEN "close" ELSE "wait")
  /\ OnlyStop

\* The select that looks whether stopChan is closed ...
StopLooks(s) ==
  /\ Stopping(s, "signal", IF made \in stopClosed THEN "wait" ELSE "close")
  /\ OnlyStop

\* ... and its default branch.
StopCloses(s) ==
  /\ Stopping(s, "close", "wait")
  /\ panicked' = (made \in stopClosed)
  /\ stopClosed' = stopClosed \union {made}
  /\ UNCHANGED <<enableRisk, state, starts, made, doneClosed, loops, monitor, callback,
                 tripped, orders, ghosts>>

\* Fault: Stop goes on as soon as it has given the signal.
StopSeesDone_NoWait(s) ==
  /\ Stopping(s, "wait", IF enableRisk THEN "monitor" ELSE "snapshot")
  /\ OnlyStop

StopSeesDone(s) ==
  /\ made \in doneClosed
  /\ Stopping(s, "wait", IF enableRisk THEN "monitor" ELSE "snapshot")
  /\ OnlyStop

\* Ten seconds have passed: the loop of this run, waiting in select, would have answered.
StopTimesOut(s) ==
  /\ \E n \in Runs : n = starts /\ Busy(n)
  /\ Stopping(s, "wait", IF enableRisk THEN "monitor" ELSE "snapshot")
  /\ late' = TRUE
  /\ UNCHANGED <<enableRisk, lifecycle, loops, monitor, callback, tripped,
                 orders, failed, panicked>>

\* Monitor.Stop closes its channel without looking ...
StopClosesMonitor(s) ==
  /\ Stopping(s, "monitor", "monitorWait")
  /\ panicked' = monitor.stopClosed
  /\ monitor' = [monitor EXCEPT !.stopClosed = TRUE]
  /\ UNCHANGED <<enableRisk, lifecycle, loops, callback, tripped, orders, ghosts>>

\* ... and waits for the loop. That never calls out, and ends before the five seconds
\* Monitor.Stop waits.
StopSeesMonitorDone(s) ==
  /\ monitor.doneClosed
  /\ Stopping(s, "monitorWait", "snapshot")
  /\ OnlyStop

StopLists(s) ==
  /\ stops[s].pc = "snapshot"
  /\ stops' = [stops EXCEPT ![s] = [pc |-> "cancel", todo |-> Active]]
  /\ OnlyStop

StopCancels(s, o) ==
  /\ stops[s].pc = "cancel" /\ o \in stops[s].todo
  /\ CancelOutcome(o)
  /\ stops' = [stops EXCEPT ![s].todo = @ \ {o}]
  /\ UNCHANGED <<enableRisk, lifecycle, loops, monitor, callback, tripped,
                 late, panicked>>

StopEnds(s) ==
  /\ stops[s] = [pc |-> "cancel", todo |-> {}]
  /\ stops' = [stops EXCEPT ![s] = NoCall]
  /\ state' = "STOPPED"
  /\ UNCHANGED <<enableRisk, starts, made, stopClosed, doneClosed, loops, monitor, callback,
                 tripped, orders, ghosts, panicked>>

-----------------------------------------------------------------------------
(* The risk monitor and its emergency callback *)

\* checkRisk finds the limits breached, in a monitor loop that runs. Bound: one
\* callback at a time.
MonitorTrips ==
  /\ monitor.running # {} /\ ~tripped /\ callback.pc = "idle"
  /\ tripped' = TRUE
  /\ callback' = [callback EXCEPT !.pc = "pause"]
  /\ UNCHANGED <<enableRisk, lifecycle, loops, stops, monitor, orders, ghosts,
                 panicked>>

\* Its stop channel, or the context at any time; the deferred close.
MonitorLoopEnds(n) ==
  /\ n \in monitor.running
  /\ panicked' = monitor.doneClosed
  /\ monitor' = [monitor EXCEPT !.running = @ \ {n}, !.doneClosed = TRUE]
  /\ UNCHANGED <<enableRisk, lifecycle, loops, stops, callback, tripped, orders, ghosts>>

\* The callback pauses the engine if it runs; the error is only logged.
CallbackPauses ==
  /\ callback.pc = "pause"
  /\ state' = IF state = "RUNNING" THEN "PAUSED" ELSE state
  /\ callback' = [callback EXCEPT !.pc = "snapshot"]
  /\ UNCHANGED <<enableRisk, starts, made, stopClosed, doneClosed, loops, stops, monitor,
                 tripped, orders, ghosts, panicked>>

CallbackLists ==
  /\ callback.pc = "snapshot"
  /\ callback' = [pc |-> "cancel", todo |-> Active]
  /\ UNCHANGED <<enableRisk, lifecycle, loops, stops, monitor, tripped, orders,
                 ghosts, panicked>>

CallbackCancels(o) ==
  /\ callback.pc = "cancel" /\ o \in callback.todo
  /\ CancelOutcome(o)
  /\ callback' = [callback EXCEPT !.todo = @ \ {o}]
  /\ UNCHANGED <<enableRisk, lifecycle, loops, stops, monitor, tripped, late,
                 panicked>>

CallbackEnds ==
  /\ callback = [pc |-> "cancel", todo |-> {}]
  /\ callback' = [callback EXCEPT !.pc = "done"]
  /\ UNCHANGED <<enableRisk, lifecycle, loops, stops, monitor, tripped, orders,
                 ghosts, panicked>>

\* ResumeTrading.
ResumeTrading ==
  /\ tripped
  /\ callback.pc \in {"idle", "done"}
  /\ tripped' = FALSE
  /\ callback' = NoCall
  /\ UNCHANGED <<enableRisk, lifecycle, loops, stops, monitor, orders, ghosts,
                 panicked>>

-----------------------------------------------------------------------------
(* The exchange and the process around the engine (external) *)

ExchangeMoves ==
  /\ \E o \in Orders :
       \/ orders[o] = "sent" /\ \E to \in {"live", "free"} : orders' = [orders EXCEPT ![o] = to]
       \/ orders[o] = "live" /\ orders' = [orders EXCEPT ![o] = "free"]
  /\ UNCHANGED <<enableRisk, lifecycle, control, tripped, ghosts, panicked>>

-----------------------------------------------------------------------------

Init ==
  /\ enableRisk \in RiskModes
  /\ state = "IDLE" /\ starts = 0 /\ made = 0 /\ stopClosed = {} /\ doneClosed = {}
  /\ loops = [n \in Runs |-> NoLoop]
  /\ stops = [s \in Stoppers |-> NoCall]
  /\ monitor = [running |-> {}, stopClosed |-> FALSE, doneClosed |-> FALSE]
  /\ tripped = FALSE /\ callback = NoCall
  /\ orders = [o \in Orders |-> "free"]
  /\ late = FALSE /\ failed = FALSE /\ panicked = FALSE

LoopStep(n) ==
  \/ LoopBegins(n) \/ LoopEnds(n) \/ TickFires(n) \/ ReconcileEnds(n)
  \/ TickSkips(n) \/ TickQuotes(n) \/ LoopCancelled(n) \/ SkipQuote(n)
  \/ PassPreTrade(n) \/ SubmitReturns(n) \/ TickEnds(n)
  \/ \E o \in Orders : LoopCancels(n, o) \/ Submit(n, o)

StopStep(s) ==
  \/ StopLooks(s) \/ StopCloses(s) \/ StopSeesDone(s) \/ StopTimesOut(s)
  \/ StopClosesMonitor(s) \/ StopSeesMonitorDone(s) \/ StopLists(s) \/ StopEnds(s)
  \/ \E o \in Orders : StopCancels(s, o)

CallbackStep ==
  CallbackPauses \/ CallbackLists \/ CallbackEnds \/ \E o \in Orders : CallbackCancels(o)

Next ==
  /\ ~panicked
  /\ \/ Start \/ Pause \/ Resume
     \/ \E n \in Runs : LoopStep(n) \/ ContextEndsLoop(n) \/ MonitorLoopEnds(n)
     \/ \E s \in Stoppers : StopBegins(s) \/ StopStep(s)
     \/ MonitorTrips \/ CallbackStep \/ ResumeTrading \/ ExchangeMoves

Spec == Init /\ [][Next]_vars

\* An event loop runs on, the exchange answers a placement, and a select whose stop
\* channel stays closed takes that branch some time, however often the ticker wins.
Fairness ==
  /\ \A n \in Runs : WF_vars(LoopStep(n)) /\ SF_vars(LoopEnds(n))
  /\ WF_vars(ExchangeMoves)

FairSpec == Spec /\ Fairness

-----------------------------------------------------------------------------
(* Properties *)

LoopRecord ==
  [pc : {"none", "spawned", "select", "tick", "reconcile", "cancel", "place", "submit",
         "await", "ended"},
   stop : 0..MaxStarts, done : 0..MaxStarts, todo : SUBSET Orders, left : 0..MaxQuotes,
   order : Orders \union {NoOrder}]

TypeOK ==
  /\ enableRisk \in BOOLEAN
  /\ state \in {"IDLE", "RUNNING", "PAUSED", "STOPPED"}
  /\ starts \in 0..MaxStarts /\ made \in 0..MaxStarts
  /\ stopClosed \subseteq 0..MaxStarts /\ doneClosed \subseteq 0..MaxStarts
  /\ loops \in [Runs -> LoopRecord]
  /\ stops \in [Stoppers -> [pc : {"idle", "signal", "close", "wait", "monitor",
                                   "monitorWait", "snapshot", "cancel"},
                             todo : SUBSET Orders]]
  /\ monitor \in [running : SUBSET Runs, stopClosed : BOOLEAN, doneClosed : BOOLEAN]
  /\ tripped \in BOOLEAN
  /\ callback \in [pc : {"idle", "pause", "snapshot", "cancel", "done"}, todo : SUBSET Orders]
  /\ orders \in [Orders -> {"free", "sent", "live"}]
  /\ late \in BOOLEAN /\ failed \in BOOLEAN /\ panicked \in BOOLEAN

\* A stopped engine has no order at the exchange, nor one on its way, unless Stop
\* gave up waiting, a cancel failed, or the answer to a placement was lost
\* (trading_engine.go Stop against run, onTick, Pause, Resume, the context and the
\* emergency callback).
StoppedMeansFlat == state = "STOPPED" /\ ~late /\ ~failed => Active = {}

\* Two event loops, which would cancel each other's orders, run at the same time
\* only after a Stop that gave up waiting.
OneLoop ==
  ~late => Cardinality({n \in Runs : Running(n)}) <= 1

\* Start, Stop, Start in any order and at any moment closes no channel twice, as
\* long as risk.Monitor is not restarted and calls of Stop do not overlap.
PanicsOnlyWithMonitor == panicked => enableRisk /\ starts > 1

\* Stop ends the event loop, unless the engine is started again before the loop has
\* noticed (the select of run against Stop, with ticks and gateway calls in between).
StopEndsLoop ==
  \A n \in Runs, s \in Stoppers :
    Running(n) /\ starts = n /\ stops[s].pc = "wait" ~> ~Running(n) \/ starts > n \/ panicked

\* "the engine supports start -> stop -> start again without a panic"
\* (docs/TODO.md:25).
NoPanic == ~panicked

\* "cancel all orders" (trading_engine.go:567): once the emergency callback has
\* run, with every cancel successful and nobody having resumed, a paused engine
\* whose loop is idle has no order at the exchange.
EmergencyFlattens ==
  /\ callback.pc = "done" /\ state = "PAUSED" /\ tripped
  /\ ~failed /\ \A n \in Runs : ~Busy(n)
  => Live = {}
=============================================================================
