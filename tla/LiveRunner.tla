---------------------------- MODULE LiveRunner ----------------------------
(***************************************************************************)
(* cmd/runner: what main puts together around sim.Runner. Four goroutines   *)
(* share the order book, the order manager and the inventory:              *)
(*   BinanceWSReal.Run, which dials, reads and hands every message to the   *)
(*     user handler and to the depth handler;                              *)
(*   the ticker, which reads the book, falls back on REST and calls OnTick; *)
(*   keepAliveLoop, which renews the listen key of the user stream;        *)
(*   main, which waits for a signal.                                       *)
(* OnTick is one leg here (Runner has the rest): the order it remembers is  *)
(* cancelled, and a new one placed through restOrderGateway.               *)
(***************************************************************************)
EXTENDS Naturals, Sequences, FiniteSets

CONSTANTS
  Orders,       \* ids order.Manager makes, one for each Submit
  None,         \* no order
  MaxRetries,   \* BinanceWSReal.MaxRetries
  StaleLimits,  \* staleThreshold, in ticks: the usual one, and the one in reduce-only
  GuardLimit,   \* 3 * BaseInterval, in ticks
  MaxFills,     \* bound: fills
  MaxStream     \* bound: user messages on their way

ASSUME OrdersAssumption == None \notin Orders
ASSUME StaleAssumption ==                \* there is a largest one
  \E n \in StaleLimits : \A m \in StaleLimits : n >= m
ASSUME LimitsAssumption == {MaxRetries, GuardLimit, MaxFills, MaxStream} \union StaleLimits \subseteq Nat

VARIABLES
  ws,        \* Run: what it does and its `retries`
  refused,   \* dials that failed since the last connection
  cancelled, \* ctx
  book,      \* OrderBook: both sides are there, and ticks since lastUpdate
  ticker,    \* the ticker goroutine and the mid it works with
  key,       \* the listen key: rounds since it was renewed, and whether it has expired
  keeper,    \* keepAliveLoop
  unkept,    \* keep-alives that failed in a row
  submitted, \* order.Manager: the status of each order
  exchange,  \* the orders at the exchange
  held,      \* the order the Runner remembers
  fills, inv,\* the position, as the number of fills, and the tracker's idea of it
  stream,    \* user messages on their way
  unseen     \* the report of the last fill is lost

wsVars == <<ws, refused>>
keyVars == <<key, keeper, unkept>>
orderVars == <<submitted, exchange, held>>
position == <<fills, inv, stream, unseen>>
vars == <<wsVars, cancelled, book, ticker, keyVars, orderVars, position>>

\* Ages beyond every limit are not told apart.
MaxAge == CHOOSE n \in {GuardLimit} \union StaleLimits :
            \A m \in {GuardLimit} \union StaleLimits : n >= m
Older(n) == IF n > MaxAge THEN n ELSE n + 1

NoTick == [pc |-> "idle", mid |-> FALSE, age |-> 0, changed |-> FALSE, next |-> "none"]

-----------------------------------------------------------------------------
(* OrderBook *)

\* SetBest and ApplyDelta: without a bid or an ask, Mid is zero; lastUpdate is now.
SetBest(complete) ==
  /\ book' = [mid |-> complete, stamp |-> 0]
  /\ ticker' = [ticker EXCEPT !.changed = ticker.pc \in {"read", "rest", "ready"}]

\* The price of a mid is as old as the last update.
ReadMid(pc) ==
  ticker' = [NoTick EXCEPT !.pc = pc, !.mid = book.mid, !.age = book.stamp]

-----------------------------------------------------------------------------
(* BinanceWSReal.Run *)

Connects ==
  /\ ws.pc = "dial"
  /\ ws' = [pc |-> "read", retries |-> 0]
  /\ refused' = 0
  /\ UNCHANGED <<cancelled, book, ticker, keyVars, orderVars, position>>

\* Fault: one more retry than MaxRetries.
DialFails_OneTooMany ==
  /\ ws.pc = "dial"
  /\ refused' = refused + 1
  /\ IF ws.retries > MaxRetries
       THEN ws' = [ws EXCEPT !.pc = "gone"] /\ cancelled' = TRUE
       ELSE ws' = [pc |-> "sleep", retries |-> ws.retries + 1] /\ UNCHANGED cancelled
  /\ UNCHANGED <<book, ticker, keyVars, orderVars, position>>

\* Out of retries Run returns its error, and main's goroutine cancels the context.
DialFails ==
  /\ ws.pc = "dial"
  /\ refused' = refused + 1
  /\ IF ws.retries >= MaxRetries
       THEN ws' = [ws EXCEPT !.pc = "gone"] /\ cancelled' = TRUE
       ELSE ws' = [pc |-> "sleep", retries |-> ws.retries + 1] /\ UNCHANGED cancelled
  /\ UNCHANGED <<book, ticker, keyVars, orderVars, position>>

Redials ==
  /\ ws.pc = "sleep"
  /\ ws' = [ws EXCEPT !.pc = "dial"]
  /\ UNCHANGED <<refused, cancelled, book, ticker, keyVars, orderVars, position>>

\* ReadMessage fails, after 30 seconds of silence at the latest: what was on its way on
\* this connection is lost, and the dial follows at once.
Disconnects ==
  /\ ws.pc = "read"
  /\ ws' = [ws EXCEPT !.pc = "dial"]
  /\ stream' = <<>>
  /\ unseen' = (unseen \/ \E i \in 1..Len(stream) : stream[i].kind = "account")
  /\ UNCHANGED <<refused, cancelled, book, ticker, keyVars, orderVars, fills, inv>>

\* A depth message: ParseCombinedDepth returns a zero for a side that is empty.
DepthArrives ==
  /\ ws.pc = "read"
  /\ \E complete \in BOOLEAN : SetBest(complete)
  /\ UNCHANGED <<wsVars, cancelled, keyVars, orderVars, position>>

\* What ParseUserData makes of ORDER_TRADE_UPDATE and of ACCOUNT_UPDATE. Any other event,
\* and a message it cannot parse, is dropped by the user handler.
OrderUpdate(o, n) == [kind |-> "order", order |-> o, fills |-> n]
AccountUpdate(o, n) == [kind |-> "account", order |-> o, fills |-> n]

\* OnOrderUpdate looks for the client id of the exchange's report among the ids of the
\* manager, but Place has made up another one.
ClientID(o) == <<"mm", o>>
OnOrderUpdate(o) ==
  submitted' = [p \in Orders |-> IF p = ClientID(o) /\ submitted[p] = "ack" THEN "closed" ELSE submitted[p]]

\* Fault: the position is not taken over.
UserArrives_OrdersOnly ==
  /\ ws.pc = "read" /\ stream # <<>>
  /\ stream' = Tail(stream)
  /\ SetBest(FALSE)
  /\ OnOrderUpdate(Head(stream).order)
  /\ UNCHANGED <<wsVars, cancelled, keyVars, exchange, held, fills, inv, unseen>>

\* A user message goes to the user handler (an account update sets the position) and
\* then to the depth handler, for which it is a depth message without prices.
UserArrives ==
  /\ ws.pc = "read" /\ stream # <<>>
  /\ stream' = Tail(stream)
  /\ LET m == Head(stream) IN
       IF m.kind = "account"
         THEN inv' = m.fills /\ UNCHANGED submitted
         ELSE OnOrderUpdate(m.order) /\ UNCHANGED inv
  /\ SetBest(FALSE)
  /\ UNCHANGED <<wsVars, cancelled, keyVars, exchange, held, fills, unseen>>

-----------------------------------------------------------------------------
(* The ticker *)

TickerEnds ==
  /\ ticker.pc = "idle" /\ cancelled
  /\ ticker' = [ticker EXCEPT !.pc = "ended"]
  /\ UNCHANGED <<wsVars, cancelled, book, keyVars, orderVars, position>>

\* A select with both cases ready takes either.
TickFires ==
  /\ ticker.pc = "idle"
  /\ ReadMid("read")
  /\ UNCHANGED <<wsVars, cancelled, book, keyVars, orderVars, position>>

\* The age of the book is asked for after the mid was read, without a lock in between.
LooksAtAge ==
  /\ ticker.pc = "read"
  /\ \E staleThreshold \in StaleLimits :
       ticker' = [ticker EXCEPT !.pc =
         IF ~ticker.mid \/ book.stamp > staleThreshold THEN "rest" ELSE "ready"]
  /\ UNCHANGED <<wsVars, cancelled, book, keyVars, orderVars, position>>

RestAnswers ==
  /\ ticker.pc = "rest"
  /\ book' = [mid |-> TRUE, stamp |-> 0]
  /\ ticker' = [NoTick EXCEPT !.pc = "reread"]
  /\ UNCHANGED <<wsVars, cancelled, keyVars, orderVars, position>>

Rereads ==
  /\ ticker.pc = "reread"
  /\ IF book.mid THEN ReadMid("ready") ELSE ticker' = NoTick
  /\ UNCHANGED <<wsVars, cancelled, book, keyVars, orderVars, position>>

\* Fault: a refresh that fails ends the ticker.
RestFails_Ends ==
  /\ ticker.pc = "rest"
  /\ ticker' = [ticker EXCEPT !.pc = "ended"]
  /\ UNCHANGED <<wsVars, cancelled, book, keyVars, orderVars, position>>

\* The mid stays what it was, however long the request has taken.
RestFails ==
  /\ ticker.pc = "rest"
  /\ ticker' = IF ticker.mid THEN [ticker EXCEPT !.pc = "ready"] ELSE NoTick
  /\ UNCHANGED <<wsVars, cancelled, book, keyVars, orderVars, position>>

\* ReadyForNext: the interval has not passed, or a halt is on.
NotReady ==
  /\ ticker.pc = "ready"
  /\ ticker' = NoTick
  /\ UNCHANGED <<wsVars, cancelled, book, keyVars, orderVars, position>>

\* Fault: the guard for a stale book is missing.
OnTick_Unguarded ==
  /\ ticker.pc = "ready"
  /\ \E next \in {"place", "halt"} : ticker' = [NoTick EXCEPT !.pc = "cancel", !.next = next]
  /\ UNCHANGED <<wsVars, cancelled, book, keyVars, orderVars, position>>

\* OnTick: a halt for a shock, an error for a stale book, another halt, or a quote.
OnTick ==
  /\ ticker.pc = "ready"
  /\ \/ book.stamp > GuardLimit /\ ticker' = NoTick
     \/ \E next \in {"halt"} \union (IF book.stamp > GuardLimit THEN {} ELSE {"place"}) :
          ticker' = [NoTick EXCEPT !.pc = "cancel", !.next = next]
  /\ UNCHANGED <<wsVars, cancelled, book, keyVars, orderVars, position>>

-----------------------------------------------------------------------------
(* restOrderGateway *)

\* exchangeByClient holds the symbol only: storeMapping has no caller.
exchangeByClient == {}

\* Cancel: lookupMapping finds nothing, so no request is sent. The Runner gives the id up.
Cancel ==
  /\ ticker.pc = "cancel"
  /\ exchange' = [o \in Orders |-> IF o = held /\ o \in exchangeByClient /\ exchange[o] = "live"
                                   THEN "over" ELSE exchange[o]]
  /\ submitted' = [o \in Orders |-> IF o = held /\ o \in exchangeByClient
                                    THEN "closed" ELSE submitted[o]]
  /\ held' = None
  /\ ticker' = [ticker EXCEPT !.pc = ticker.next]
  /\ UNCHANGED <<wsVars, cancelled, book, keyVars, position>>

\* The ids not used yet are all the same: generateID makes the next one.
Unused == {o \in Orders : submitted[o] = "none"}
NextId == CHOOSE o \in Unused : TRUE

\* Submit and Place: the order is made, is refused, or is made and the answer is lost.
\* A quote may also be withheld by the guards.
Place ==
  /\ ticker.pc = "place"
  /\ \/ UNCHANGED <<submitted, exchange, held>>
     \/ /\ Unused # {}
        /\ submitted' = [submitted EXCEPT ![NextId] = "ack"]
        /\ exchange' = [exchange EXCEPT ![NextId] = "live"]
        /\ held' = NextId
     \/ /\ Unused # {}
        /\ submitted' = [submitted EXCEPT ![NextId] = "closed"]
        /\ exchange' \in {exchange, [exchange EXCEPT ![NextId] = "live"]}
        /\ UNCHANGED held
  /\ ticker' = NoTick
  /\ UNCHANGED <<wsVars, cancelled, book, keyVars, position>>

\* haltUntil and the risk state: ReadyForNext will say no, which it may do anyway.
Halt ==
  /\ ticker.pc = "halt"
  /\ ticker' = NoTick
  /\ UNCHANGED <<wsVars, cancelled, book, keyVars, submitted, exchange, held, position>>

-----------------------------------------------------------------------------
(* keepAliveLoop. A key lives for two rounds of its ticker after it was     *)
(* renewed; whether the keep-alive of the second still comes in time is open. *)

KeeperFires ==
  /\ keeper = "idle" /\ ~cancelled
  /\ keeper' = "first"
  /\ key' \in CASE key.expired -> {key}
               [] key.rounds = 0 -> {[key EXCEPT !.rounds = 1]}
               [] key.rounds = 1 -> {[key EXCEPT !.rounds = 2], [rounds |-> 2, expired |-> TRUE]}
               [] OTHER -> {[rounds |-> 2, expired |-> TRUE]}
  /\ UNCHANGED <<wsVars, cancelled, book, ticker, unkept, orderVars, position>>

KeepAliveOk ==
  /\ keeper # "idle"
  /\ ~key.expired
  /\ key' = [key EXCEPT !.rounds = 0]
  /\ keeper' = "idle" /\ unkept' = 0
  /\ UNCHANGED <<wsVars, cancelled, book, ticker, orderVars, position>>

\* Fault: no second attempt.
KeepAliveFails_Once ==
  /\ keeper # "idle"
  /\ keeper' = "idle"
  /\ unkept' = IF unkept = 2 THEN 2 ELSE unkept + 1
  /\ UNCHANGED <<wsVars, cancelled, book, ticker, key, orderVars, position>>

\* Once more after five seconds, and then not before the next round.
KeepAliveFails ==
  /\ keeper # "idle"
  /\ keeper' = IF keeper = "first" THEN "second" ELSE "idle"
  /\ unkept' = IF unkept = 2 THEN 2 ELSE unkept + 1
  /\ UNCHANGED <<wsVars, cancelled, book, ticker, key, orderVars, position>>

-----------------------------------------------------------------------------
(* The exchange, the clock and the signal *)

\* The stream carries an event if there is a connection and the key is valid.
Streaming == ws.pc = "read" /\ ~key.expired
Reports(events) ==
  IF Streaming
    THEN Len(stream) + Len(events) <= MaxStream /\ stream' = stream \o events
    ELSE UNCHANGED stream

\* An order fills, which is reported as an account update and an order update, or ends.
Fills(o) ==
  /\ exchange[o] = "live" /\ fills < MaxFills
  /\ exchange' = [exchange EXCEPT ![o] = "over"]
  /\ fills' = fills + 1
  /\ Reports(<<AccountUpdate(o, fills'), OrderUpdate(o, fills')>>)
  /\ unseen' = ~Streaming
  /\ UNCHANGED <<wsVars, cancelled, book, ticker, keyVars, submitted, held, inv>>

Ends(o) ==
  /\ exchange[o] = "live"
  /\ exchange' = [exchange EXCEPT ![o] = "over"]
  /\ Reports(<<OrderUpdate(o, fills)>>)
  /\ UNCHANGED <<wsVars, cancelled, book, ticker, keyVars, submitted, held,
                 fills, inv, unseen>>

Passes ==
  /\ book' = [book EXCEPT !.stamp = Older(@)]
  /\ ticker' = [ticker EXCEPT !.age = IF ticker.mid THEN Older(@) ELSE 0]
  /\ UNCHANGED <<wsVars, cancelled, keyVars, orderVars, position>>

Signal ==
  /\ cancelled' = TRUE
  /\ UNCHANGED <<wsVars, book, ticker, keyVars, orderVars, position>>

\* The snapshot of the start may fail, and lastUpdate is zero then; the listen key is new.
Init ==
  /\ ws = [pc |-> "dial", retries |-> 0] /\ refused = 0
  /\ cancelled = FALSE
  /\ book \in {[mid |-> TRUE, stamp |-> 0], [mid |-> FALSE, stamp |-> MaxAge + 1]}
  /\ ticker = NoTick
  /\ key = [rounds |-> 0, expired |-> FALSE] /\ keeper = "idle" /\ unkept = 0
  /\ submitted = [o \in Orders |-> "none"] /\ exchange = [o \in Orders |-> "none"]
  /\ held = None
  /\ fills = 0 /\ inv = 0 /\ stream = <<>> /\ unseen = FALSE

WSStep == Connects \/ DialFails \/ Redials
TickerStep ==
  \/ TickFires \/ LooksAtAge \/ RestAnswers \/ Rereads \/ RestFails
  \/ NotReady \/ OnTick \/ Cancel \/ Place \/ Halt

Next ==
  \/ WSStep \/ Disconnects \/ DepthArrives \/ UserArrives
  \/ TickerStep \/ TickerEnds
  \/ KeeperFires \/ KeepAliveOk \/ KeepAliveFails
  \/ Passes \/ Signal
  \/ \E o \in Orders : Fills(o) \/ Ends(o)

\* Goroutines run on. A REST request, a dial and the sleep after it end, if only by their
\* timeouts. The ticker's select picks among its ready cases at random: a context that is
\* done is noticed in the end.
Fairness == WF_vars(WSStep) /\ WF_vars(TickerStep) /\ SF_vars(TickerEnds)

Spec == Init /\ [][Next]_vars
FairSpec == Spec /\ Fairness

-----------------------------------------------------------------------------
TickerState ==
  [pc : {"idle", "read", "rest", "reread", "ready", "cancel", "place", "halt", "ended"},
   mid : BOOLEAN, age : 0..MaxAge + 1, changed : BOOLEAN, next : {"none", "place", "halt"}]
Message == [kind : {"account", "order"}, order : Orders, fills : 0..MaxFills]

TypeOK ==
  /\ {cancelled, unseen} \subseteq BOOLEAN
  /\ ws \in [pc : {"dial", "read", "sleep", "gone"}, retries : 0..MaxRetries]
  /\ refused \in 0..MaxRetries + 1
  /\ book \in [mid : BOOLEAN, stamp : 0..MaxAge + 1]
  /\ ticker \in TickerState
  /\ key \in [rounds : 0..2, expired : BOOLEAN]
  /\ keeper \in {"idle", "first", "second"} /\ unkept \in 0..2
  /\ submitted \in [Orders -> {"none", "ack", "closed"}]
  /\ exchange \in [Orders -> {"none", "live", "over"}]
  /\ held \in Orders \union {None}
  /\ fills \in 0..MaxFills /\ inv \in 0..fills
  /\ stream \in Seq(Message)
  /\ Len(stream) <= MaxStream

\* OnTick decides to quote.
Quotes == ticker.pc = "ready" /\ ticker'.next = "place"

\* OnTick quotes around a mid older than its own limit only if the book has
\* been written since that mid was read: the guard looks at the book, the quote at the
\* mid, and a refresh that fails after a long wait leaves the mid as it was.
OldMidMeansNewBook ==
  [][Quotes => ticker.age <= GuardLimit \/ ticker.changed]_vars

\* What the comment on the guard (sim/runner.go) says, a quote is skipped when the
\* market data behind it is stale, holds only with the exception above.
QuotedMidIsFresh == [][Quotes => ticker.age <= GuardLimit]_vars

\* Neither stream is given up for one failure: the feed ends, and the program with it,
\* only after MaxRetries + 1 failed dials without a connection in between, and the key
\* of the user stream expires only after two keep-alives in a row have failed.
FailuresAreRetried ==
  /\ ws.pc = "gone" => refused = MaxRetries + 1
  /\ key.expired => unkept = 2

\* Once the last account update has been read, the tracker knows the position, unless
\* that update was lost: on a connection that broke, or for want of a valid key.
InventoryCatchesUp ==
  (\A i \in 1..Len(stream) : stream[i].kind # "account") /\ inv # fills => unseen

\* A feed that falls silent, or that breaks and comes back again and again, does not stop
\* the ticker while the context lives: if in the end no message takes the mid away (one
\* without prices does), and REST answers where there is none, it comes to OnTick again and
\* again, however often REST fails otherwise. A feed that is gone for good uses up its
\* retries and ends the ticker: quotes do not go on from REST alone.
TickerFollowsFeed ==
  /\ <>[][cancelled \/ ((book.mid => book'.mid) /\ (RestFails => ticker.mid))]_vars
       => []<>(ticker.pc = IF cancelled THEN "ended" ELSE "ready")
  /\ <>[](ws.pc # "read") => <>(ticker.pc = "ended")

\* When a halt begins, no order is left at the exchange, as docs/runner_overview.md says.
HaltWithdraws == ticker.pc = "halt" => \A o \in Orders : exchange[o] # "live"
=============================================================================
