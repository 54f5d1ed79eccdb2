------------------------------- MODULE Runner -------------------------------
(***************************************************************************)
(* sim.Runner: OnTick from its guards to the last gateway call, with fills, *)
(* expiries and account updates between any two of those calls.            *)
(*                                                                         *)
(* Prices and sizes are left out: where the code compares two prices, both  *)
(* outcomes are possible; an order has size one. The gateway passes the id  *)
(* and the flags of an order on, as the container's does. An order is known *)
(* by the place where the Runner remembers its id; one that lives on at the *)
(* exchange when its place is given up or taken over becomes an orphan.     *)
(***************************************************************************)
EXTENDS Integers, Sequences, FiniteSets

CONSTANTS
  Levels,       \* quotes of one side in a multi-level tick
  Threshold,    \* reduceOnlyLimit (its soft part): from here on only reduce
  Prices,       \* mids
  Shock,        \* ShockThreshold, as a distance of mids
  Modes,        \* {"single", "multi"}: what the strategy may return
  StopLosses,   \* {TRUE}: StopLoss is set, and may be hit at any tick
  Rejecting,    \* bound: sides whose post-only orders the exchange may reject
  MaxLag,       \* bound: fills the inventory may not yet have been told of
  MaxMishaps    \* bound: live orders the gateway or the suppression loses

ASSUME LevelsAssumption == Levels \in Nat \ {0}
ASSUME ThresholdAssumption == Threshold \in Nat \ {0}
ASSUME PricesAssumption == Prices \subseteq Nat \ {0}
ASSUME ShockAssumption == Shock \in Nat \ {0}
ASSUME BoundsAssumption == Rejecting \subseteq {"BUY", "SELL"} /\ MaxLag \in Nat /\ MaxMishaps \in Nat

Sides == {"BUY", "SELL"}
Static == -1              \* staticBidID, staticAskID
Last == 0                 \* lastBidID, lastAskID
Legs == 1..Levels         \* dynamicBids, dynamicAsks
Slots == {Static, Last} \union Legs

VARIABLES
  quote,        \* per side and slot: an order that is live or over, or no id (for a
                \* static order also: one the order manager's book has closed)
  orphans,      \* per side: live orders whose id the Runner no longer has
  todo,         \* what is left of the running OnTick: gateway calls, in order
  riskState, haltUntil,
  prevMid,
  lastMid,      \* the mid of the last tick
  cooldown,     \* per side: postOnlyCooldown is running
  cooling,      \* reduceCooldownUntil lies ahead
  net, inv,     \* the position, and what the inventory tracker says it is
  lag,          \* fills since inv was right
  mishaps       \* orders lost by a failed cancel, a lost reply or a suppressed cancel

market == <<net, inv, lag>>
control == <<riskState, haltUntil, prevMid, lastMid, cooling>>
vars == <<quote, orphans, todo, control, cooldown, market, mishaps>>

Abs(n) == IF n < 0 THEN -n ELSE n
Sign(s) == IF s = "BUY" THEN 1 ELSE -1
\* An order of this side takes the position n further from zero.
Opens(s, n) == Sign(s) * n > 0
Reduces(s, n) == Sign(s) * n < 0

-----------------------------------------------------------------------------
(* The calls an OnTick makes. *)

Job == [op : {"cancel", "place", "market", "static", "submit", "withdraw",
              "halt"},
        side : Sides, slot : Slots, post : BOOLEAN, ioc : BOOLEAN]

Call(op, s, k) == [op |-> op, side |-> s, slot |-> k, post |-> FALSE, ioc |-> FALSE]
Place(s, k, post, ioc) ==
  [op |-> "place", side |-> s, slot |-> k, post |-> post /\ ~ioc, ioc |-> ioc]

ForSides(f(_)) == f("BUY") \o f("SELL")

\* An id that is empty costs no call; the legs of a side are gone through if it has any.
CancelOne(op, s, k) == IF quote[s][k] = "none" THEN <<>> ELSE <<Call(op, s, k)>>
CancelLegs(s) ==
  IF \A i \in Legs : quote[s][i] = "none" THEN <<>> ELSE [i \in Legs |-> Call("cancel", s, i)]

CancelLast(sides) ==
  ForSides(LAMBDA s : IF s \in sides THEN CancelOne("cancel", s, Last) ELSE <<>>)

\* cancelOutstanding(true, true).
CancelOutstanding == CancelLast(Sides) \o ForSides(CancelLegs)

\* manageStaticOrders: withdraws both static orders, or looks after each.
ManageStatic(withdraw) ==
  IF withdraw
  THEN ForSides(LAMBDA s : CancelOne("withdraw", s, Static))
  ELSE ForSides(LAMBDA s : <<Call("static", s, Static)>>)

TriggerHalt == CancelOutstanding \o <<Call("halt", "BUY", Last)>>

-----------------------------------------------------------------------------
(* OnTick up to its first call. *)

Shocked(m) == prevMid > 0 /\ Abs(m - prevMid) >= Shock

\* Fault: the limit itself is still allowed.
Reducing_PastLimit == Abs(inv) > Threshold

\* At the soft limit, and all the more at the hard one, reduce-only applies.
Reducing == Abs(inv) >= Threshold
Leaving == ~Reducing /\ riskState = "reduce_only"

\* reduce_only and the cooldown after it both keep a side from opening further.
Allowed == {s \in Sides : ~((Reducing \/ cooling \/ Leaving) /\ Opens(s, inv))}

\* shouldReplacePassive, shouldReplaceReduceOrder: only where there is an id (and with it
\* a price) may the new quote be found near enough. Whether its order is over, and
\* where the prices are, is not asked here.
MayStay == {s \in Allowed : quote[s][Last] # "none"}

\* A single quote per side; the sides of "keep" have one that is near enough to stay.
SingleJobs(keep) ==
  LET send == Allowed \ keep
      place(s) == IF s \in send THEN <<Place(s, Last, ~cooldown[s], Reducing)>> ELSE <<>>
      reducer == CHOOSE s \in Sides : Reduces(s, inv)
  IN ForSides(CancelLegs)
     \o CancelLast(Sides \ keep)
     \o (IF Reducing THEN <<Call("market", reducer, Last)>> ELSE <<>>)
     \o ForSides(place)
     \o ManageStatic(Reducing)

\* Fault: static orders are looked after beside the legs.
MultiJobs_KeepsStatic(n) ==
  LET legs(s) == IF s \in Allowed
                 THEN [i \in 1..n[s] |-> Place(s, i, i = 1 /\ ~cooldown[s], FALSE)]
                 ELSE <<>>
  IN CancelOutstanding
     \o ForSides(legs)
     \o ManageStatic(Reducing)

\* Fault: one leg more than there are quotes.
MultiJobs_OneTooMany(n) ==
  LET legs(s) == IF s \in Allowed
                 THEN [i \in 1..(n[s] + 1) |-> Place(s, i, i = 1 /\ ~cooldown[s], FALSE)]
                 ELSE <<>>
  IN CancelOutstanding
     \o ForSides(legs)
     \o ManageStatic(Reducing \/ \E s \in Allowed : n[s] > 0)

\* reconcileDynamicQuotes for n[s] quotes on each side s, after cancelOutstanding has
\* emptied every leg. The first quote of a side is post-only.
MultiJobs(n) ==
  LET legs(s) == IF s \in Allowed
                 THEN [i \in 1..n[s] |-> Place(s, i, i = 1 /\ ~cooldown[s], FALSE)]
                 ELSE <<>>
  IN CancelOutstanding
     \o ForSides(legs)
     \o ManageStatic(Reducing \/ \E s \in Allowed : n[s] > 0)

\* OnTick is entered by way of ReadyForNext, which lets nobody in while halted and
\* clears a halt that has run out, as OnTick itself does.
Enter(m) ==
  /\ todo = <<>>
  /\ haltUntil # "ahead"
  /\ haltUntil' = "zero"
  /\ lastMid' = m
  /\ UNCHANGED <<quote, orphans, cooldown, market, mishaps>>

Resumed == IF riskState = "halted" THEN "normal" ELSE riskState

\* A shock returns before prevMid is set, a stop loss after.
TickHalts(m) ==
  /\ Enter(m)
  /\ riskState' = Resumed
  /\ \/ Shocked(m) /\ prevMid' = prevMid
     \/ ~Shocked(m) /\ TRUE \in StopLosses /\ prevMid' = m
  /\ todo' = TriggerHalt
  /\ UNCHANGED cooling

\* Stale book, no quotes, no size, or prices alignQuote refuses.
TickSkipped(m) ==
  /\ Enter(m)
  /\ ~Shocked(m)
  /\ riskState' = Resumed
  /\ prevMid' = m
  /\ UNCHANGED <<todo, cooling>>

TickQuotes(m) ==
  /\ Enter(m)
  /\ ~Shocked(m)
  /\ prevMid' = m
  /\ riskState' = IF Reducing THEN "reduce_only" ELSE "normal"
  /\ cooling' = (cooling \/ Leaving)
  /\ \/ /\ "single" \in Modes
        /\ \E keep \in SUBSET MayStay : todo' = SingleJobs(keep)
     \/ /\ "multi" \in Modes
        /\ \E n \in [Sides -> 0..Levels] :
             (\E s \in Sides : n[s] > 1) /\ todo' = MultiJobs(n)

-----------------------------------------------------------------------------
(* The calls. *)

Next1 == Head(todo)
Next1Is(op) == todo # <<>> /\ Next1.op = op
Rest == Tail(todo)

\* A slot is given another content. An order that is live in it when another takes its
\* place, or when it is given up, lives on as an orphan.
Set(s, k, q) == quote' = [quote EXCEPT ![s][k] = q]
TakeOver(s, k, q) ==
  /\ Set(s, k, q)
  /\ orphans' = IF quote[s][k] = "live" THEN [orphans EXCEPT ![s] = @ + 1] ELSE orphans

\* An order of side s fills; the inventory hears of it at once or later.
Fill(s) ==
  /\ net' = net + Sign(s)
  /\ \/ inv' = net' /\ lag' = 0
     \/ lag < MaxLag /\ lag' = lag + 1 /\ inv' = inv

Mishap == mishaps < MaxMishaps /\ mishaps' = mishaps + 1

\* The id is given up whether the cancel went through, failed, or, for a leg, was
\* suppressed. An order that is over cannot be cancelled any more.
GiveUp(s, k) ==
  \/ Set(s, k, "none") /\ UNCHANGED <<orphans, mishaps>>
  \/ quote[s][k] = "live" /\ TakeOver(s, k, "none") /\ Mishap

Cancel ==
  /\ Next1Is("cancel") \/ Next1Is("withdraw")
  /\ GiveUp(Next1.side, Next1.slot)
  /\ todo' = Rest
  /\ UNCHANGED <<control, cooldown, market>>

Halt ==
  /\ Next1Is("halt")
  /\ haltUntil' = "ahead"
  /\ riskState' = "halted"
  /\ todo' = Rest
  /\ UNCHANGED <<quote, orphans, prevMid, lastMid, cooling, cooldown, market, mishaps>>

\* PreOrder or Submit returned an error: OnTick returns it, a leg is passed over.
AfterRefusal == IF Next1.slot = Last THEN <<>> ELSE Rest

PlaceResting ==
  /\ Next1Is("place")
  /\ ~Next1.ioc
  /\ TakeOver(Next1.side, Next1.slot, "live")
  /\ cooldown' = IF Next1.post THEN [cooldown EXCEPT ![Next1.side] = FALSE] ELSE cooldown
  /\ todo' = Rest
  /\ UNCHANGED <<control, market, mishaps>>

\* A reduce-only order is IOC: over at once, filled or not. Every quote of the strategy
\* may be flagged reduce-only.
PlaceReduceOnly ==
  /\ Next1Is("place")
  /\ TakeOver(Next1.side, Next1.slot, "over")
  /\ \/ UNCHANGED market
     \/ Reduces(Next1.side, net) /\ Fill(Next1.side)
  /\ todo' = Rest
  /\ UNCHANGED <<control, cooldown, mishaps>>

\* alignQuote refuses the price of a leg: the next one may be post-only instead.
LegUnfit ==
  /\ Next1Is("place")
  /\ Next1.post /\ Next1.slot \in Legs
  /\ todo' = IF Rest # <<>> /\ Head(Rest).op = "place" /\ Head(Rest).side = Next1.side
             THEN [Rest EXCEPT ![1].post = TRUE] ELSE Rest
  /\ UNCHANGED <<quote, orphans, control, cooldown, market, mishaps>>

PlaceRefused ==
  /\ Next1Is("place")
  /\ todo' = AfterRefusal
  /\ UNCHANGED <<quote, orphans, control, cooldown, market, mishaps>>

\* Submit returned an error, but the order is at the exchange.
PlaceUnanswered ==
  /\ Next1Is("place")
  /\ Mishap
  /\ \/ /\ ~Next1.ioc
        /\ orphans' = [orphans EXCEPT ![Next1.side] = @ + 1]
        /\ UNCHANGED market
     \/ /\ Reduces(Next1.side, net)
        /\ Fill(Next1.side)
        /\ UNCHANGED orphans
  /\ todo' = AfterRefusal
  /\ UNCHANGED <<quote, control, cooldown>>

\* submitOrderWithFallback: once more, as an ordinary order.
PostOnlyRejected ==
  /\ Next1Is("place")
  /\ Next1.post /\ Next1.side \in Rejecting
  /\ cooldown' = [cooldown EXCEPT ![Next1.side] = TRUE]
  /\ todo' = <<[Next1 EXCEPT !.post = FALSE]>> \o Rest
  /\ UNCHANGED <<quote, orphans, control, market, mishaps>>

\* The calls still to be made, but one.
LeaveOut(i) == SubSeq(Rest, 1, i - 1) \o SubSeq(Rest, i + 1, Len(Rest))

\* tryMarketReduce: not due or failed; or sent, and the quote of its side left out.
MarketReduce ==
  LET s == Next1.side IN
  /\ Next1Is("market")
  /\ \/ todo' = Rest
     \/ \E i \in DOMAIN Rest : Rest[i].op = "place" /\ Rest[i].side = s /\ todo' = LeaveOut(i)
  /\ \/ UNCHANGED market
     \/ Reduces(s, net) /\ Fill(s)
  /\ UNCHANGED <<quote, orphans, control, cooldown, mishaps>>

\* ensureStaticOrder for a side that may quote post-only. staticOrderActive asks the
\* book: an order that is over may still be active there.
StaticActive(s) == quote[s][Static] \in {"live", "over"}

\* alignQuote refuses their prices: both stay as they are.
StaticsUnfit ==
  /\ Next1Is("static") /\ Next1.side = "BUY"
  /\ todo' = <<>>
  /\ UNCHANGED <<quote, orphans, control, cooldown, market, mishaps>>

StaticKept ==
  /\ Next1Is("static") /\ ~cooldown[Next1.side] /\ StaticActive(Next1.side)
  /\ todo' = Rest
  /\ UNCHANGED <<quote, orphans, control, cooldown, market, mishaps>>

\* Fault: the new order is sent before the old one is cancelled.
StaticReplaced_TooEarly ==
  /\ Next1Is("static") /\ ~cooldown[Next1.side] /\ StaticActive(Next1.side)
  /\ TakeOver(Next1.side, Static, "live")
  /\ todo' = Rest
  /\ UNCHANGED <<control, cooldown, market, mishaps>>

\* The price moved: the old order is cancelled first.
StaticReplaced ==
  /\ Next1Is("static") /\ ~cooldown[Next1.side] /\ StaticActive(Next1.side)
  /\ GiveUp(Next1.side, Static)
  /\ todo' = <<[Next1 EXCEPT !.op = "submit"]>> \o Rest
  /\ UNCHANGED <<control, cooldown, market>>

StaticPlaced ==
  /\ \/ Next1Is("submit")
     \/ Next1Is("static") /\ ~cooldown[Next1.side] /\ ~StaticActive(Next1.side)
  /\ \/ TakeOver(Next1.side, Static, "live") /\ UNCHANGED mishaps
     \/ UNCHANGED <<quote, orphans, mishaps>>
     \/ Mishap /\ orphans' = [orphans EXCEPT ![Next1.side] = @ + 1] /\ UNCHANGED quote
  /\ todo' = Rest
  /\ UNCHANGED <<control, cooldown, market>>

\* A side that may not quote post-only keeps no static order.
StaticCooling ==
  /\ Next1Is("static") /\ cooldown[Next1.side]
  /\ GiveUp(Next1.side, Static)
  /\ todo' = Rest
  /\ UNCHANGED <<control, cooldown, market>>

StaticStep == StaticsUnfit \/ StaticKept \/ StaticReplaced \/ StaticPlaced \/ StaticCooling
PlaceStep ==
  \/ PlaceResting \/ PlaceReduceOnly
  \/ LegUnfit \/ PlaceRefused \/ PlaceUnanswered \/ PostOnlyRejected
Step == Cancel \/ Halt \/ MarketReduce \/ PlaceStep \/ StaticStep

-----------------------------------------------------------------------------
(* The exchange, the user stream and the clock. *)

QuoteEnds(s, k) ==
  /\ quote[s][k] = "live"
  /\ Set(s, k, "over")
  /\ \/ Fill(s)
     \/ UNCHANGED market
  /\ UNCHANGED <<orphans, todo, control, cooldown, mishaps>>

OrphanEnds(s) ==
  /\ orphans[s] > 0
  /\ orphans' = [orphans EXCEPT ![s] = @ - 1]
  /\ \/ Fill(s)
     \/ UNCHANGED market
  /\ UNCHANGED <<quote, todo, control, cooldown, mishaps>>

\* A FILLED, CANCELED or REJECTED reaches the book; EXPIRED counts as active.
BookClosed(s) ==
  /\ quote[s][Static] = "over"
  /\ Set(s, Static, "none")
  /\ UNCHANGED <<orphans, todo, control, cooldown, market, mishaps>>

AccountUpdate ==
  /\ lag > 0
  /\ inv' = net
  /\ lag' = 0
  /\ UNCHANGED <<quote, orphans, todo, control, cooldown, net, mishaps>>

CooldownEnds(s) ==
  /\ cooldown[s]
  /\ cooldown' = [cooldown EXCEPT ![s] = FALSE]
  /\ UNCHANGED <<quote, orphans, todo, control, market, mishaps>>

CoolingEnds ==
  /\ cooling
  /\ cooling' = FALSE
  /\ UNCHANGED <<quote, orphans, todo, riskState, haltUntil, prevMid, lastMid, cooldown,
                 market, mishaps>>

HaltExpires ==
  /\ haltUntil = "ahead"
  /\ haltUntil' = "past"
  /\ UNCHANGED <<quote, orphans, todo, riskState, prevMid, lastMid, cooling, cooldown,
                 market, mishaps>>

Init ==
  /\ quote = [s \in Sides |-> [k \in Slots |-> "none"]]
  /\ orphans = [s \in Sides |-> 0]
  /\ todo = <<>>
  /\ riskState = "normal" /\ haltUntil = "zero"
  /\ prevMid = 0 /\ lastMid = 0
  /\ cooldown = [s \in Sides |-> FALSE] /\ cooling = FALSE
  /\ net = 0 /\ inv = 0 /\ lag = 0
  /\ mishaps = 0

Next ==
  \/ \E m \in Prices : TickHalts(m) \/ TickSkipped(m) \/ TickQuotes(m)
  \/ Step
  \/ \E s \in Sides : \/ \E k \in Slots : QuoteEnds(s, k)
                      \/ OrphanEnds(s) \/ BookClosed(s) \/ CooldownEnds(s)
  \/ AccountUpdate \/ CoolingEnds \/ HaltExpires

Spec == Init /\ [][Next]_vars

-----------------------------------------------------------------------------
(* Properties *)

TypeOK ==
  /\ quote \in [Sides -> [Slots -> {"none", "live", "over"}]]
  /\ orphans \in [Sides -> Nat]
  /\ todo \in Seq(Job)
  /\ riskState \in {"normal", "reduce_only", "halted"}
  /\ haltUntil \in {"zero", "ahead", "past"}
  /\ prevMid \in Prices \union {0} /\ lastMid \in Prices \union {0}
  /\ cooldown \in [Sides -> BOOLEAN] /\ cooling \in BOOLEAN
  /\ net \in Int /\ inv \in Int /\ lag \in 0..MaxLag
  /\ mishaps \in 0..MaxMishaps

\* The Runner loses sight of a live order only when a gateway call failed or the
\* suppression kept a cancel back: no slot is overwritten while its order lives.
NoneForgotten == orphans["BUY"] + orphans["SELL"] <= mishaps

\* Between ticks, a single quote or a static order never stands beside the legs of a
\* multi-level quote, whichever of OnTick's returns ended the last tick.
ModesExclude ==
  todo = <<>> =>
    \A s, t \in Sides, k \in Legs :
      quote[s][k] # "none" => quote[t][Last] = "none" /\ quote[t][Static] = "none"

\* The position passes the reduce-only limit by no more than what one tick decided on a
\* position just below it: the quotes that stood and those that replaced them (two of
\* either, or as many as there are levels), what the inventory was not told in time, and
\* orders forgotten. Nothing beyond that piles up, in any order of fills and calls.
PositionBounded ==
  Abs(net) <= Threshold - 1 + 2 * (IF Levels > 2 THEN Levels ELSE 2) + MaxLag + mishaps

\* "Static orders are withdrawn on entering reduce-only or a halt"
\* (docs/strategy_risk_enhancement.md:53).
StaticWithdrawn ==
  todo = <<>> /\ riskState # "normal" => \A s \in Sides : quote[s][Static] # "live"

\* "A single move of the mid against the moment before" (docs/strategy_risk_enhancement.md:73)
\* is what a shock halt needs.
ShockNeedsAMove ==
  [][TRUE \notin StopLosses /\ todo = <<>> /\ todo' # <<>> /\ todo'[Len(todo')].op = "halt"
     => Abs(lastMid' - lastMid) >= Shock]_vars
=============================================================================
