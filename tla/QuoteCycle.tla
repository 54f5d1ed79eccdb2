----------------------------- MODULE QuoteCycle -----------------------------
(***************************************************************************)
(* One tick of TradingEngine after another, with quantities: the quotes of  *)
(* BasicMarketMaking, the cancels, and the clamp of placeOrder, while the   *)
(* orders fill, the fills are reported to the inventory with a delay, calls *)
(* fail, and UpdateParameters changes the configuration.                    *)
(*                                                                         *)
(* A quantity is a number of lots. Prices are left out: nothing that        *)
(* changes a quantity depends on them.                                      *)
(***************************************************************************)
EXTENDS Integers

CONSTANTS
  MaxInv,       \* the largest MaxInventory ever configured
  MaxLayer,     \* the largest quantity ever configured for one quote
  Layers,       \* quotes a side: 1 without EnableMultiLayer, else LayerCount made 2 or 3
  MaxFailures,  \* bound: Submits, and rounds of cancels, that fail with orders left at the exchange
  MaxUnreported \* bound: quantity filled and not reported yet, on a side

ASSUME LotsAssumption == MaxInv \in Nat \ {0} /\ MaxLayer \in Nat \ {0} /\ Layers \in 1..3
ASSUME BoundsAssumption == MaxFailures \in Nat /\ MaxUnreported \in Nat

Sides == {"BUY", "SELL"}

VARIABLES
  config,     \* MaxInventory and the quantity of a quote: BaseSize, or its share of a layer
  pc,         \* where the tick is
  seen,       \* the inventory and the limit the strategy is asked with, while it is
  size, todo, \* the quotes: the quantity on each side, and how many are still to be placed
  order,      \* the order placeOrder is about to submit, and the inventory it looked at
  net,        \* Tracker.net
  unreported, \* fills the inventory has not heard of
  resting,    \* quantity at the exchange the manager knows to be active
  orphans,    \* quantity at the exchange of placements that returned an error
  failures,
  left,       \* what was at the exchange after the cancels of the tick
  blind       \* the most a Submit did not know of: fills it could not see, orders left over

market == <<net, unreported, resting, orphans>>
tick == <<pc, seen, size, todo, order>>
ghosts == <<failures, left, blind>>
vars == <<config, tick, market, ghosts>>

\* A quantity that counts for a side: positive when it is more of what the side adds.
Toward(s, q) == IF s = "BUY" THEN q ELSE -q

Abs(n) == IF n < 0 THEN -n ELSE n

\* The position at the exchange.
Position == net + unreported["BUY"] - unreported["SELL"]

AtExchange(s) == resting[s] + orphans[s]

NotSeen == [net |-> 0, maxInv |-> 1]
NoOrder == [side |-> "BUY", size |-> 0, net |-> 0]

-----------------------------------------------------------------------------
(* BasicMarketMaking *)

\* UpdateParameters: values that are not positive are ignored.
UpdateParameters ==
  /\ config' \in [maxInv : 1..MaxInv, layer : 1..MaxLayer]
  /\ UNCHANGED <<tick, market, ghosts>>

\* Beyond 80 % of the limit the side that would add to it shrinks, down to nothing at
\* the limit: roundSize(size * (1 - ratio)).
Shrunk(quantity, towards, max) ==
  IF 10 * towards > 8 * max
    THEN IF towards >= max THEN 0 ELSE (2 * quantity * (max - towards) + max) \div (2 * max)
    ELSE quantity

\* GenerateQuotes: with several layers every quote has the same quantity.
QuoteSize(s, layer) ==
  IF Layers = 1 THEN Shrunk(layer, Toward(s, seen.net), seen.maxInv) ELSE layer

-----------------------------------------------------------------------------
(* TradingEngine.onTick *)

TickLooks ==
  /\ pc = "idle"
  /\ pc' = "quote"
  /\ seen' = [net |-> net, maxInv |-> config.maxInv]
  /\ UNCHANGED <<config, size, todo, order, market, ghosts>>

\* An error of the strategy ends the tick.
TickQuotes ==
  /\ pc = "quote"
  /\ \/ /\ pc' = "cancel"
        /\ size' = [s \in Sides |-> QuoteSize(s, config.layer)]
        /\ todo' = [s \in Sides |-> Layers]
     \/ pc' = "idle" /\ UNCHANGED <<size, todo>>
  /\ seen' = NotSeen
  /\ UNCHANGED <<config, order, market, ghosts>>

\* Fault: the old orders are left alone.
CancelAllOrders_Skipped ==
  /\ pc = "cancel"
  /\ pc' = "place"
  /\ left' = [s \in Sides |-> orphans[s]]
  /\ UNCHANGED <<config, seen, size, todo, order, market, failures, blind>>

\* What is left on each side when any of the cancels may fail.
Kept == [BUY : 0..resting["BUY"], SELL : 0..resting["SELL"]]

\* cancelAllOrders: every active order is tried, and the tick goes on whether or not all of
\* them, of either side, could be cancelled.
CancelAllOrders ==
  /\ pc = "cancel"
  /\ pc' = "place"
  /\ \/ resting' = [s \in Sides |-> 0] /\ UNCHANGED failures
     \/ /\ failures < MaxFailures /\ failures' = failures + 1
        /\ resting' \in Kept
  /\ left' = [s \in Sides |-> resting'[s] + orphans[s]]
  /\ UNCHANGED <<config, seen, size, todo, order, net, unreported, orphans, blind>>

\* The BUY quotes come first.
Turn == IF todo["BUY"] > 0 THEN "BUY" ELSE "SELL"

\* An order that would widen the position is cut down to what the limit leaves.
Clamped(s, quantity, n, max) ==
  IF Abs(n + Toward(s, quantity)) > Abs(n) /\ max - Abs(n) < quantity
    THEN max - Abs(n) ELSE quantity

\* placeOrder up to Submit: the pre-trade check and the clamp, either of which may say no.
ClampOrder ==
  /\ pc = "place" /\ todo[Turn] > 0
  /\ \/ /\ Abs(net + Toward(Turn, size[Turn])) > Abs(net) => config.maxInv > Abs(net)
        /\ pc' = "submit"
        /\ order' = [side |-> Turn, net |-> net,
                     size |-> Clamped(Turn, size[Turn], net, config.maxInv)]
        /\ UNCHANGED todo
     \/ /\ todo' = [todo EXCEPT ![Turn] = @ - 1]
        /\ UNCHANGED <<pc, order>>
  /\ UNCHANGED <<config, seen, size, market, ghosts>>

\* What the Submit that is due does not know of.
Unknown(s) == Toward(s, Position - order.net) + left[s]

\* Submit: the order is made, is refused, or is made with the answer lost.
Submit ==
  /\ pc = "submit"
  /\ LET s == order.side IN
       /\ \/ /\ resting' = [resting EXCEPT ![s] = @ + order.size]
             /\ UNCHANGED <<orphans, failures>>
          \/ UNCHANGED <<resting, orphans, failures>>
          \/ /\ failures < MaxFailures /\ failures' = failures + 1
             /\ orphans' = [orphans EXCEPT ![s] = @ + order.size]
             /\ UNCHANGED resting
       /\ todo' = [todo EXCEPT ![s] = @ - 1]
       /\ blind' = [blind EXCEPT ![s] = IF Unknown(s) > @ THEN Unknown(s) ELSE @]
  /\ pc' = "place" /\ order' = NoOrder
  /\ UNCHANGED <<config, seen, size, net, unreported, left>>

TickEnds ==
  /\ pc = "place" /\ \A s \in Sides : todo[s] = 0
  /\ pc' = "idle"
  /\ UNCHANGED <<config, seen, size, todo, order, market, ghosts>>

-----------------------------------------------------------------------------
(* The exchange fills any part of an order; Tracker.Update hears of it later. *)

FillResting(s) ==
  /\ \E q \in 1..resting[s] :
       /\ unreported[s] + q <= MaxUnreported
       /\ resting' = [resting EXCEPT ![s] = @ - q]
       /\ unreported' = [unreported EXCEPT ![s] = @ + q]
  /\ UNCHANGED <<config, tick, net, orphans, ghosts>>

FillOrphan(s) ==
  /\ \E q \in 1..orphans[s] :
       /\ unreported[s] + q <= MaxUnreported
       /\ orphans' = [orphans EXCEPT ![s] = @ - q]
       /\ unreported' = [unreported EXCEPT ![s] = @ + q]
  /\ UNCHANGED <<config, tick, net, resting, ghosts>>

Update(s) ==
  /\ \E q \in 1..unreported[s] :
       /\ net' = net + Toward(s, q)
       /\ unreported' = [unreported EXCEPT ![s] = @ - q]
  /\ UNCHANGED <<config, tick, resting, orphans, ghosts>>

-----------------------------------------------------------------------------
Init ==
  /\ config \in [maxInv : 1..MaxInv, layer : 1..MaxLayer]
  /\ pc = "idle" /\ seen = NotSeen
  /\ size = [s \in Sides |-> 0] /\ todo = [s \in Sides |-> 0] /\ order = NoOrder
  /\ net = 0
  /\ unreported = [s \in Sides |-> 0]
  /\ resting = [s \in Sides |-> 0] /\ orphans = [s \in Sides |-> 0]
  /\ failures = 0 /\ left = [s \in Sides |-> 0] /\ blind = [s \in Sides |-> 0]

TickStep == TickLooks \/ TickQuotes \/ CancelAllOrders \/ ClampOrder \/ Submit \/ TickEnds

Next ==
  \/ UpdateParameters
  \/ TickStep
  \/ \E s \in Sides : FillResting(s) \/ FillOrphan(s) \/ Update(s)

Spec == Init /\ [][Next]_vars

-----------------------------------------------------------------------------
TypeOK ==
  /\ config \in [maxInv : 1..MaxInv, layer : 1..MaxLayer]
  /\ pc \in {"idle", "quote", "cancel", "place", "submit"}
  /\ seen \in [net : Int, maxInv : 1..MaxInv]
  /\ size \in [Sides -> 0..MaxLayer] /\ todo \in [Sides -> 0..Layers]
  /\ order \in [side : Sides, size : 0..MaxLayer, net : Int]
  /\ net \in Int
  /\ unreported \in [Sides -> Nat] /\ resting \in [Sides -> Nat] /\ orphans \in [Sides -> Nat]
  /\ failures \in 0..MaxFailures /\ left \in [Sides -> Nat] /\ blind \in [Sides -> Nat]

Largest == IF MaxInv > MaxLayer THEN MaxInv ELSE MaxLayer

\* The clamp of placeOrder looks at one order and the reported position only. With all
\* that is at the exchange filled, the position still exceeds the limit by no more than
\* the other quotes of one tick on that side, and what no Submit could see: the fills
\* not reported yet and the orders left behind by failed calls.
PositionBounded ==
  \A s \in Sides :
    Toward(s, Position) + AtExchange(s) <= Largest + (Layers - 1) * MaxLayer + blind[s]
=============================================================================
