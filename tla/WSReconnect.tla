---------------------------- MODULE WSReconnect ----------------------------
(***************************************************************************)
(* gateway.WSReconnectManager: one run() goroutine per Start, the heartbeat *)
(* goroutine every connection starts, the callers of Stop, and a network    *)
(* that goes down, comes back and drops connections.                        *)
(*                                                                         *)
(* m.mu guards single assignments only; stopChan and doneChan are made once *)
(* and never replaced.  A heartbeat asks for the current connection at each *)
(* tick: it is not bound to the connection that started it.                 *)
(***************************************************************************)
EXTENDS Naturals, FiniteSets

CONSTANTS
  Loops,       \* calls of Start: each starts a goroutine run()
  Sockets,     \* bound: connections that exist at the same time
  NoConn,      \* m.conn is nil
  Hearts,      \* bound: heartbeat goroutines followed at the same time
  Stoppers,    \* goroutines that call Stop
  RetryLimits, \* values of config.MaxRetries, 0 for no limit
  MaxDelay     \* doublings of InitialDelay until config.MaxDelay

ASSUME SocketsAssumption == Sockets \intersect {NoConn, "off", "asleep"} = {}
ASSUME LimitsAssumption == RetryLimits \subseteq Nat /\ MaxDelay \in Nat

VARIABLES
  maxRetries, heartbeat,  \* config.MaxRetries, config.EnableHeartbeat
  loops,       \* the run() goroutines
  conn,        \* m.conn
  connected,   \* m.connected
  open,        \* sockets not closed by this process
  broken,      \* open sockets the network or the peer has dropped
  hearts,      \* heartbeat goroutines: off, asleep, or about to write to a socket
  trigger,     \* reconnectChan holds a request
  stopClosed, doneClosed,
  stops,       \* the callers of Stop
  up,          \* a dial would succeed
  traffic,     \* messages keep arriving on healthy connections
  panicked     \* close of a closed channel

config == <<maxRetries, heartbeat>>
sockets == <<conn, open, broken>>
channels == <<trigger, stopClosed, doneClosed>>
network == <<up, traffic>>
vars == <<config, loops, sockets, connected, hearts, channels, stops, network, panicked>>

NoLoop == [pc |-> "off", retries |-> 0, delay |-> 0, reading |-> NoConn]

Running == {l \in Loops : loops[l].pc \notin {"off", "done"}}
Started == {l \in Loops : loops[l].pc # "off"}
\* Heartbeats that will write once more, or at least look at the connection.
Beating == {h \in Hearts : hearts[h] # "off"}
Usable(s) == s \in open \ broken
\* A socket nothing refers to any more stands for the next connection.
Unused == Sockets \ (open \union {loops[l].reading : l \in Loops} \union {hearts[h] : h \in Hearts})

Goto(l, pc) == loops' = [loops EXCEPT ![l].pc = pc]

-----------------------------------------------------------------------------
(* Start, Stop, TriggerReconnect *)

Start(l) ==
  /\ loops[l].pc = "off"
  /\ ~connected                    \* m.reconnecting is never set
  /\ Goto(l, "dial")
  /\ UNCHANGED <<config, sockets, connected, hearts, channels, stops, network, panicked>>

\* The check and the close are two steps: the lock is released in between.
StopLooks(s) ==
  /\ stops[s] = "idle"
  /\ stops' = [stops EXCEPT ![s] = IF connected THEN "close" ELSE "unheeded"]
  /\ UNCHANGED <<config, loops, sockets, connected, hearts, channels, network, panicked>>

StopCloses(s) ==
  /\ stops[s] = "close"
  /\ stops' = [stops EXCEPT ![s] = "wait"]
  /\ stopClosed' = TRUE
  /\ panicked' = stopClosed
  /\ UNCHANGED <<config, loops, sockets, connected, hearts, trigger, doneClosed, network>>

StopReturns(s) ==
  /\ stops[s] = "wait"
  /\ doneClosed
  /\ stops' = [stops EXCEPT ![s] = "stopped"]
  /\ UNCHANGED <<config, loops, sockets, connected, hearts, channels, network, panicked>>

TriggerReconnect ==
  /\ trigger' = TRUE
  /\ UNCHANGED <<config, loops, sockets, connected, hearts, stopClosed, doneClosed, stops,
                 network, panicked>>

-----------------------------------------------------------------------------
(* run *)

calculateNextDelay(d) == IF d < MaxDelay THEN d + 1 ELSE MaxDelay

\* defer close(m.doneChan)
Ends(l) ==
  /\ Goto(l, "done")
  /\ doneClosed' = TRUE
  /\ panicked' = doneClosed

\* Fault: the old connection is forgotten, not closed.
closeConn_Forgets ==
  /\ conn' = NoConn
  /\ UNCHANGED <<open, broken>>

closeConn ==
  /\ open' = open \ {conn}
  /\ broken' = broken \ {conn}
  /\ conn' = NoConn

\* Fault: a heartbeat is started only when there is none.
Connects_OneHeart(l) ==
  /\ loops[l].pc = "dial"
  /\ up
  /\ \E s \in Unused :
       /\ conn' = s
       /\ open' = open \union {s}
       /\ UNCHANGED broken
  /\ IF heartbeat /\ Beating = {}
       THEN \E h \in Hearts : hearts' = [hearts EXCEPT ![h] = "asleep"]
       ELSE UNCHANGED hearts
  /\ Goto(l, "dialed")
  /\ UNCHANGED <<config, connected, channels, stops, network, panicked>>

\* connect() succeeds: the connection is published and its heartbeat started. With as
\* many heartbeats as the bound, the new one is followed in place of an older one.
Connects(l) ==
  /\ loops[l].pc = "dial"
  /\ up
  /\ \E s \in Unused :
       /\ conn' = s
       /\ open' = open \union {s}
       /\ UNCHANGED broken
  /\ IF heartbeat
       THEN \E h \in IF Beating = Hearts THEN Hearts ELSE Hearts \ Beating :
              hearts' = [hearts EXCEPT ![h] = "asleep"]
       ELSE UNCHANGED hearts
  /\ Goto(l, "dialed")
  /\ UNCHANGED <<config, connected, channels, stops, network, panicked>>

\* Fault: a dial that fails ends the loop.
DialFails_GivesUp(l) ==
  /\ loops[l].pc = "dial"
  /\ ~up
  /\ Ends(l)
  /\ UNCHANGED <<config, sockets, connected, hearts, trigger, stopClosed, stops, network>>

\* Fault: one retry too many.
DialFails_OneTooMany(l) ==
  /\ loops[l].pc = "dial"
  /\ ~up
  /\ IF maxRetries > 0 /\ loops[l].retries > maxRetries
       THEN Ends(l)
       ELSE /\ loops' = [loops EXCEPT ![l].pc = "backoff",
                           ![l].retries = IF maxRetries = 0 THEN 0 ELSE @ + 1]
            /\ UNCHANGED <<doneClosed, panicked>>
  /\ UNCHANGED <<config, sockets, connected, hearts, trigger, stopClosed, stops, network>>

\* connect() fails: give up, or wait for the backoff delay.
DialFails(l) ==
  /\ loops[l].pc = "dial"
  /\ ~up
  /\ IF maxRetries > 0 /\ loops[l].retries >= maxRetries
       THEN Ends(l)
       ELSE /\ loops' = [loops EXCEPT ![l].pc = "backoff",
                           ![l].retries = IF maxRetries = 0 THEN 0 ELSE @ + 1]
            /\ UNCHANGED <<doneClosed, panicked>>
  /\ UNCHANGED <<config, sockets, connected, hearts, trigger, stopClosed, stops, network>>

\* The select after a failed dial: nothing but stopChan and the timer.
BackoffStops(l) ==
  /\ loops[l].pc = "backoff"
  /\ stopClosed
  /\ Ends(l)
  /\ UNCHANGED <<config, sockets, connected, hearts, trigger, stopClosed, stops, network>>

BackoffTimer(l) ==
  /\ loops[l].pc = "backoff"
  /\ loops' = [loops EXCEPT ![l].pc = "dial", ![l].delay = calculateNextDelay(@)]
  /\ UNCHANGED <<config, sockets, connected, hearts, channels, stops, network, panicked>>

Connected(l) ==
  /\ loops[l].pc = "dialed"
  /\ loops' = [loops EXCEPT ![l] = [@ EXCEPT !.pc = "connected", !.retries = 0, !.delay = 0]]
  /\ connected' = TRUE
  /\ UNCHANGED <<config, sockets, hearts, channels, stops, network, panicked>>

\* readLoop takes the connection once; with none it returns at once.
ReadBegins(l) ==
  /\ loops[l].pc = "connected"
  /\ loops' = [loops EXCEPT ![l].pc = IF conn = NoConn THEN "unread" ELSE "read",
                            ![l].reading = conn]
  /\ UNCHANGED <<config, sockets, connected, hearts, channels, stops, network, panicked>>

\* ReadMessage returns an error: the connection is gone, or PongWait has passed
\* without a message and without the answer to a ping.
ReadFails(l) ==
  /\ loops[l].pc = "read"
  /\ \/ ~Usable(loops[l].reading)
     \/ ~traffic /\ (Beating = {} \/ conn # loops[l].reading)
  /\ loops' = [loops EXCEPT ![l].pc = "unread", ![l].reading = NoConn]
  /\ UNCHANGED <<config, sockets, connected, hearts, channels, stops, network, panicked>>

Disconnected(l) ==
  /\ loops[l].pc = "unread"
  /\ connected' = FALSE
  /\ Goto(l, "down")
  /\ UNCHANGED <<config, sockets, hearts, channels, stops, network, panicked>>

\* Fault: a stop seen here leaves the connection open.
Down_KeepsConn(l) ==
  /\ loops[l].pc = "down"
  /\ IF stopClosed
       THEN Ends(l)
       ELSE Goto(l, "waiting") /\ UNCHANGED <<doneClosed, panicked>>
  /\ UNCHANGED <<config, sockets, connected, hearts, trigger, stopClosed, stops, network>>

\* The first select, with a default: a stop is seen here if it has been asked for.
Down(l) ==
  /\ loops[l].pc = "down"
  /\ IF stopClosed
       THEN closeConn /\ Ends(l)
       ELSE Goto(l, "waiting") /\ UNCHANGED <<sockets, doneClosed, panicked>>
  /\ UNCHANGED <<config, connected, hearts, trigger, stopClosed, stops, network>>

\* The second select: when several of its cases are ready, any may be taken.
WaitStops(l) ==
  /\ loops[l].pc = "waiting"
  /\ stopClosed
  /\ closeConn
  /\ Ends(l)
  /\ UNCHANGED <<config, connected, hearts, trigger, stopClosed, stops, network>>

Redial(l) ==
  /\ loops[l].pc = "waiting"
  /\ trigger' \in {trigger, FALSE}  \* the timer, or the request if there is one
  /\ closeConn
  /\ loops' = [loops EXCEPT ![l].pc = "dial", ![l].delay = calculateNextDelay(@)]
  /\ UNCHANGED <<config, connected, hearts, stopClosed, doneClosed, stops, network, panicked>>

-----------------------------------------------------------------------------
(* heartbeatLoop *)

\* Fault: a heartbeat does not listen to stopChan.
HeartStops_Deaf(h) ==
  /\ hearts[h] = "asleep"
  /\ stopClosed /\ conn = NoConn
  /\ hearts' = [hearts EXCEPT ![h] = "off"]
  /\ UNCHANGED <<config, loops, sockets, connected, channels, stops, network, panicked>>

HeartStops(h) ==
  /\ hearts[h] = "asleep"
  /\ stopClosed
  /\ hearts' = [hearts EXCEPT ![h] = "off"]
  /\ UNCHANGED <<config, loops, sockets, connected, channels, stops, network, panicked>>

\* A tick: getConn, and the end of the goroutine when there is no connection.
HeartTicks(h) ==
  /\ hearts[h] = "asleep"
  /\ hearts' = [hearts EXCEPT ![h] = IF conn = NoConn THEN "off" ELSE conn]
  /\ UNCHANGED <<config, loops, sockets, connected, channels, stops, network, panicked>>

\* Writing to a dropped connection may still succeed, to a closed one it cannot.
HeartWrites(h) ==
  /\ hearts[h] \in Sockets
  /\ \/ /\ hearts[h] \in open
        /\ hearts' = [hearts EXCEPT ![h] = "asleep"]
        /\ UNCHANGED trigger
     \/ /\ ~Usable(hearts[h])
        /\ hearts' = [hearts EXCEPT ![h] = "off"]
        /\ trigger' = TRUE
  /\ UNCHANGED <<config, loops, sockets, connected, stopClosed, doneClosed, stops, network,
                 panicked>>

-----------------------------------------------------------------------------
(* The network *)

NetworkChanges ==
  /\ up' \in BOOLEAN
  /\ traffic' \in BOOLEAN
  /\ UNCHANGED <<config, loops, sockets, connected, hearts, channels, stops, panicked>>

Drop(s) ==
  /\ Usable(s)
  /\ broken' = broken \union {s}
  /\ UNCHANGED <<config, loops, conn, open, connected, hearts, channels, stops, network,
                 panicked>>

-----------------------------------------------------------------------------
Init ==
  /\ maxRetries \in RetryLimits /\ heartbeat \in BOOLEAN
  /\ loops = [l \in Loops |-> NoLoop]
  /\ conn = NoConn /\ open = {} /\ broken = {}
  /\ connected = FALSE
  /\ hearts = [h \in Hearts |-> "off"]
  /\ trigger = FALSE /\ stopClosed = FALSE /\ doneClosed = FALSE
  /\ stops = [s \in Stoppers |-> "idle"]
  /\ up \in BOOLEAN /\ traffic \in BOOLEAN
  /\ panicked = FALSE

LoopStep(l) ==
  \/ Connects(l) \/ DialFails(l) \/ BackoffTimer(l) \/ Connected(l) \/ ReadBegins(l)
  \/ ReadFails(l) \/ Disconnected(l) \/ Down(l) \/ Redial(l)
LoopStops(l) == BackoffStops(l) \/ WaitStops(l)
StopStep(s) == StopCloses(s) \/ StopReturns(s)
HeartStep(h) == HeartStops(h) \/ HeartTicks(h) \/ HeartWrites(h)

Next ==
  /\ ~panicked
  /\ \/ \E l \in Loops : Start(l) \/ LoopStep(l) \/ LoopStops(l)
     \/ \E s \in Stoppers : StopLooks(s) \/ StopStep(s)
     \/ TriggerReconnect
     \/ \E h \in Hearts : HeartStep(h)
     \/ NetworkChanges
     \/ \E s \in Sockets : Drop(s)

\* A goroutine that can run does. A select picks among its ready cases at random,
\* so a case that is ready again and again is taken: strong fairness for stopChan.
Fairness ==
  /\ \A l \in Loops : WF_vars(~panicked /\ LoopStep(l)) /\ SF_vars(~panicked /\ LoopStops(l))
  /\ \A s \in Stoppers : WF_vars(~panicked /\ StopStep(s))
  /\ \A h \in Hearts : WF_vars(~panicked /\ HeartStep(h)) /\ SF_vars(~panicked /\ HeartStops(h))

Spec == Init /\ [][Next]_vars
FairSpec == Init /\ [][Next]_vars /\ Fairness

-----------------------------------------------------------------------------
LoopState ==
  [pc : {"off", "dial", "dialed", "connected", "read", "unread", "down", "waiting", "backoff",
         "done"},
   retries : Nat, delay : 0..MaxDelay, reading : Sockets \union {NoConn}]

TypeOK ==
  /\ maxRetries \in RetryLimits /\ heartbeat \in BOOLEAN
  /\ loops \in [Loops -> LoopState]
  /\ \A l \in Loops : loops[l].retries <= maxRetries
  /\ conn \in open \union {NoConn} /\ open \subseteq Sockets /\ broken \subseteq open
  /\ connected \in BOOLEAN
  /\ hearts \in [Hearts -> {"off", "asleep"} \union Sockets]
  /\ {trigger, stopClosed, doneClosed, up, traffic, panicked} \subseteq BOOLEAN
  /\ stops \in [Stoppers -> {"idle", "close", "wait", "stopped", "unheeded"}]

\* As the manager is meant to be used: one Start, and one Stop at most.
OneStart == \A a, b \in Started : a = b
OneStop == \A a, b \in {s \in Stoppers : stops[s] # "idle"} : a = b

\* Every connection the process holds open is the one m.conn points to, whatever
\* drops, redials and stops: a reconnect never leaks the socket before it. (A second
\* Start while the first is still dialing does: m.reconnecting is never set.)
NoSocketLeaked == OneStart => open \subseteq {conn}

\* A Stop that found the manager connected and has returned leaves nothing behind: no
\* loop that could dial again and no open socket; and one Stop never closes a closed
\* channel.
StopLeavesNothing ==
  OneStart =>
    /\ (\E s \in Stoppers : stops[s] = "stopped") => Running = {} /\ open = {}
    /\ OneStop => ~panicked

\* A connection that is being read and is healthy has a goroutine pinging it (until the
\* manager is stopped): otherwise PongWait would end a quiet connection. Heartbeats end
\* on a failed write or between two connections, never under a live one.
LiveConnectionBeats ==
  OneStart /\ heartbeat /\ ~stopClosed =>
    \A l \in Loops : loops[l].pc = "read" /\ Usable(loops[l].reading) => Beating # {}

\* With the network up from some point on, a manager that is started once, retries
\* without limit and is not stopped is connected again and again.
Reconnects ==
  [](OneStart /\ ~stopClosed) /\ maxRetries = 0 /\ <>[]up /\ <>(Started # {}) => []<>connected

\* A Stop that found the manager connected returns and its heartbeats end, once the
\* messages cease: nothing closes the connection, so the read ends with its deadline.
StopEnds ==
  [](OneStart /\ OneStop) /\ <>[]~traffic =>
    \A s \in Stoppers : stops[s] = "wait" ~> stops[s] = "stopped" /\ Beating = {}

\* "Stop 停止连接" (ws_reconnect.go): once it has returned, no goroutine of the manager
\* will dial again. A Stop during a backoff sees neither connected nor reconnecting and
\* returns without closing stopChan.
StopStops == \A s \in Stoppers : stops[s] \in {"stopped", "unheeded"} => Running = {}
=============================================================================
