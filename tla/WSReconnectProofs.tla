------------------------- MODULE WSReconnectProofs -------------------------
(***************************************************************************)
(* Proofs about WSReconnect, for any number of loops, callers of Stop,     *)
(* sockets and heartbeats, and any limit of retries.                       *)
(***************************************************************************)
EXTENDS WSReconnect, TLAPS

\* One loop holds one socket at most, and none while it dials, backs off or is done; it
\* reads from the connection it holds.
Held ==
  /\ open \subseteq {conn}
  /\ Started = {} => conn = NoConn
  /\ \A l \in Loops :
       /\ loops[l].pc \in {"dial", "backoff", "done"} => conn = NoConn
       /\ loops[l].pc = "read" => loops[l].reading = conn

\* doneChan is closed by the loop that ends, and stopChan by a Stop that then waits.
Ended ==
  /\ doneClosed => \E l \in Loops : loops[l].pc = "done"
  /\ \A s \in Stoppers : stops[s] = "stopped" => doneClosed
  /\ stopClosed => \E s \in Stoppers : stops[s] \in {"wait", "stopped"}

\* A usable connection has a heartbeat that is asleep or about to write to this very
\* connection. One that is still to write to an earlier socket may die of it.
Pinged ==
  heartbeat /\ ~stopClosed =>
    \A l \in Loops :
      loops[l].pc \in {"dialed", "connected", "read"} /\ Usable(conn) =>
        \E h \in Hearts : hearts[h] \in {"asleep", conn}

\* What one Start brings about, until there is a second: Started only grows, so OneStart,
\* once false, stays false, and it may stand before the invariant.
AfterOneStart == OneStart => Held /\ Ended /\ Pinged /\ (OneStop => ~panicked)

IInv == TypeOK /\ AfterOneStart

-----------------------------------------------------------------------------
(* Types *)

\* The backoff delay stays within config.MaxDelay.
LEMMA DelayLemma ==
  ASSUME NEW d \in 0..MaxDelay
  PROVE  calculateNextDelay(d) \in 0..MaxDelay
  BY LimitsAssumption DEF calculateNextDelay

\* A loop that goes to another label keeps its counters.
LEMMA GotoLemma ==
  ASSUME TypeOK, NEW l \in Loops, NEW pc, Goto(l, pc),
         pc \in {"dial", "connected", "unread", "down", "waiting", "done", "dialed"}
  PROVE  /\ loops' \in [Loops -> LoopState]
         /\ \A k \in Loops : loops'[k].retries = loops[k].retries
  BY DEF TypeOK, LoopState, Goto

\* What the sockets are when the connection is closed.
LEMMA CloseLemma ==
  ASSUME TypeOK, closeConn
  PROVE  conn' = NoConn /\ open' \subseteq Sockets /\ open' \subseteq open /\ broken' \subseteq open'
  BY DEF TypeOK, closeConn

\* The variables that are not the loops'.
Rest ==
  /\ conn \in open \union {NoConn} /\ open \subseteq Sockets /\ broken \subseteq open
  /\ hearts \in [Hearts -> {"off", "asleep"} \union Sockets]
  /\ stops \in [Stoppers -> {"idle", "close", "wait", "stopped", "unheeded"}]

Flags ==
  /\ connected \in BOOLEAN
  /\ trigger \in BOOLEAN /\ stopClosed \in BOOLEAN /\ doneClosed \in BOOLEAN
  /\ up \in BOOLEAN /\ traffic \in BOOLEAN /\ panicked \in BOOLEAN

Looping ==
  /\ maxRetries \in RetryLimits /\ heartbeat \in BOOLEAN
  /\ loops \in [Loops -> LoopState]
  /\ \A l \in Loops : loops[l].retries <= maxRetries

LEMMA TypeParts == TypeOK <=> Rest /\ Flags /\ Looping
  BY DEF TypeOK, Rest, Flags, Looping

LEMMA FlagsStep ==
  ASSUME TypeOK, [Next]_vars
  PROVE  Flags'
<1> USE TypeParts DEF Flags
<1>1. ASSUME NEW l \in Loops, Start(l) \/ LoopStep(l) PROVE Flags'
  BY <1>1, Zenon
  DEF Start, LoopStep, Connects, DialFails, BackoffTimer, Connected, ReadBegins, ReadFails,
      Disconnected, Down, Redial, Ends, config, sockets, channels, network
<1>2. ASSUME NEW l \in Loops, LoopStops(l) PROVE Flags'
  BY <1>2 DEF LoopStops, BackoffStops, WaitStops, Ends, config, sockets, channels, network
<1>3. ASSUME NEW s \in Stoppers, StopLooks(s) \/ StopStep(s) PROVE Flags'
  BY <1>3 DEF StopLooks, StopStep, StopCloses, StopReturns, config, sockets, channels, network
<1>4. ASSUME NEW h \in Hearts, HeartStep(h) PROVE Flags'
  BY <1>4, Zenon
  DEF HeartStep, HeartStops, HeartTicks, HeartWrites, config, sockets, channels, network
<1>5. CASE TriggerReconnect \/ NetworkChanges \/ \E s \in Sockets : Drop(s)
  BY <1>5 DEF TriggerReconnect, NetworkChanges, Drop, config, sockets, channels, network
<1>6. CASE UNCHANGED vars
  BY <1>6 DEF vars, channels, network
<1> QED BY <1>1, <1>2, <1>3, <1>4, <1>5, <1>6 DEF Next

LEMMA LoopingStep ==
  ASSUME TypeOK, [Next]_vars
  PROVE  Looping'
<1>n. maxRetries \in Nat /\ 0 \in 0..MaxDelay
  <2>1. maxRetries \in RetryLimits
    BY DEF TypeOK
  <2>2. MaxDelay \in Nat /\ \A n \in RetryLimits : n \in Nat
    BY LimitsAssumption
  <2>3. 0 \in 0..MaxDelay
    BY <2>2
  <2> QED BY <2>1, <2>2, <2>3
<1> USE TypeParts DEF Looping
<1>1. ASSUME NEW l \in Loops, Start(l) \/ Connects(l) \/ Disconnected(l) PROVE Looping'
  BY <1>1, GotoLemma DEF Start, Connects, Disconnected, config
<1>2. ASSUME NEW l \in Loops, DialFails(l) PROVE Looping'
  <2>1. CASE Ends(l)
    BY <1>2, <2>1, GotoLemma DEF DialFails, Ends, config
  <2>2. CASE ~(maxRetries > 0 /\ loops[l].retries >= maxRetries)
    <3> DEFINE n == IF maxRetries = 0 THEN 0 ELSE loops[l].retries + 1
    <3>1. loops' = [loops EXCEPT ![l].pc = "backoff", ![l].retries = n]
      BY <1>2, <2>2 DEF DialFails
    <3>2. loops[l].retries \in Nat
      BY DEF LoopState
    <3>3. n \in Nat /\ n <= maxRetries
      BY <1>n, <2>2, <3>2
    <3> HIDE DEF n
    <3> QED BY <1>2, <3>1, <3>3 DEF DialFails, config, LoopState
  <2> QED BY <1>2, <2>1, <2>2 DEF DialFails
<1>3. ASSUME NEW l \in Loops, BackoffTimer(l) \/ Redial(l) PROVE Looping'
  <2>1. loops' = [loops EXCEPT ![l].pc = "dial", ![l].delay = calculateNextDelay(loops[l].delay)]
    BY <1>3 DEF BackoffTimer, Redial, LoopState
  <2>2. calculateNextDelay(loops[l].delay) \in 0..MaxDelay
    BY DelayLemma DEF LoopState
  <2> QED BY <1>3, <2>1, <2>2 DEF BackoffTimer, Redial, config, LoopState
<1>4. ASSUME NEW l \in Loops, Connected(l) PROVE Looping'
  <2>1. loops' = [loops EXCEPT ![l] = [loops[l] EXCEPT !.pc = "connected", !.retries = 0,
                                                       !.delay = 0]]
    BY <1>4 DEF Connected
  <2>2. loops'[l] \in LoopState /\ loops'[l].retries = 0
    BY <2>1, <1>n DEF LoopState
  <2>3. \A k \in Loops \ {l} : loops'[k] = loops[k]
    BY <2>1
  <2>4. loops' \in [Loops -> LoopState]
    BY <2>1, <2>2
  <2>5. \A k \in Loops : loops'[k].retries <= maxRetries
    BY <2>2, <2>3, <1>n
  <2> QED BY <1>4, <2>4, <2>5 DEF Connected, config
<1>5. ASSUME NEW l \in Loops, ReadBegins(l) \/ ReadFails(l) PROVE Looping'
  <2>1. \E pc \in {"read", "unread"}, r \in Sockets \union {NoConn} :
          loops' = [loops EXCEPT ![l].pc = pc, ![l].reading = r]
    BY <1>5 DEF ReadBegins, ReadFails, Rest
  <2> QED BY <1>5, <2>1 DEF ReadBegins, ReadFails, config, LoopState
<1>6. ASSUME NEW l \in Loops, Down(l) \/ LoopStops(l) PROVE Looping'
  BY <1>6, GotoLemma DEF Down, LoopStops, BackoffStops, WaitStops, Ends, config
<1>7. ASSUME NEW s \in Stoppers, StopLooks(s) \/ StopStep(s) PROVE Looping'
  BY <1>7 DEF StopLooks, StopStep, StopCloses, StopReturns, config
<1>8. ASSUME NEW h \in Hearts, HeartStep(h) PROVE Looping'
  BY <1>8 DEF HeartStep, HeartStops, HeartTicks, HeartWrites, config
<1>9. CASE TriggerReconnect \/ NetworkChanges \/ (\E s \in Sockets : Drop(s)) \/ UNCHANGED vars
  BY <1>9 DEF TriggerReconnect, NetworkChanges, Drop, vars, config
<1> QED
  BY <1>1, <1>2, <1>3, <1>4, <1>5, <1>6, <1>7, <1>8, <1>9 DEF Next, LoopStep

LEMMA RestStep ==
  ASSUME TypeOK, [Next]_vars
  PROVE  Rest'
<1> USE TypeParts DEF Rest
<1>1. ASSUME NEW l \in Loops, Connects(l) PROVE Rest'
  <2>1. PICK s \in Unused : conn' = s /\ open' = open \union {s} /\ broken' = broken
    BY <1>1 DEF Connects
  <2>2. s \in Sockets
    BY DEF Unused
  <2>3. hearts' \in [Hearts -> {"off", "asleep"} \union Sockets]
    BY <1>1 DEF Connects
  <2> QED BY <1>1, <2>1, <2>2, <2>3 DEF Connects
<1>2. ASSUME NEW l \in Loops, Down(l) \/ LoopStops(l) \/ Redial(l) PROVE Rest'
  <2>1. closeConn \/ UNCHANGED sockets
    BY <1>2 DEF Down, LoopStops, BackoffStops, WaitStops, Redial
  <2>2. UNCHANGED <<hearts, stops>>
    BY <1>2 DEF Down, LoopStops, BackoffStops, WaitStops, Redial
  <2> QED BY <2>1, <2>2, CloseLemma DEF sockets
<1>3. ASSUME NEW l \in Loops, Start(l) \/ LoopStep(l), ~Connects(l), ~Down(l), ~Redial(l)
      PROVE  Rest'
  BY <1>3 DEF Start, LoopStep, DialFails, BackoffTimer, Connected, ReadBegins, ReadFails,
              Disconnected, sockets
<1>4. ASSUME NEW s \in Stoppers, StopLooks(s) \/ StopStep(s) PROVE Rest'
  BY <1>4 DEF StopLooks, StopStep, StopCloses, StopReturns, sockets
<1>5. ASSUME NEW h \in Hearts, HeartStep(h) PROVE Rest'
  <2>1. hearts' = [hearts EXCEPT ![h] = "off"] \/ hearts' = [hearts EXCEPT ![h] = "asleep"]
        \/ (conn # NoConn /\ hearts' = [hearts EXCEPT ![h] = conn])
    BY <1>5 DEF HeartStep, HeartStops, HeartTicks, HeartWrites
  <2> QED BY <1>5, <2>1 DEF HeartStep, HeartStops, HeartTicks, HeartWrites, sockets
<1>6. CASE TriggerReconnect \/ NetworkChanges \/ UNCHANGED vars
  BY <1>6 DEF TriggerReconnect, NetworkChanges, vars, sockets
<1>7. ASSUME NEW s \in Sockets, Drop(s) PROVE Rest'
  BY <1>7 DEF Drop, Usable
<1> QED BY <1>1, <1>2, <1>3, <1>4, <1>5, <1>6, <1>7 DEF Next, LoopStep

LEMMA TypeStep ==
  ASSUME TypeOK, [Next]_vars
  PROVE  TypeOK'
<1>1. Rest' /\ Flags' /\ Looping'
  BY FlagsStep, LoopingStep, RestStep
<1> QED BY <1>1 DEF TypeOK, Rest, Flags, Looping

-----------------------------------------------------------------------------
(* One Start *)

\* A loop that moves has been started, and leaves the others alone.
LEMMA LoopLemma ==
  ASSUME TypeOK, NEW l \in Loops, Start(l) \/ LoopStep(l) \/ LoopStops(l)
  PROVE  /\ loops'[l].pc # "off"
         /\ ~Start(l) => loops[l].pc # "off"
         /\ \A k \in Loops \ {l} : loops'[k] = loops[k]
<1> USE DEF TypeOK, LoopState, Goto, Ends
<1>1. CASE Start(l) \/ Connects(l) \/ DialFails(l)
  BY <1>1 DEF Start, Connects, DialFails
<1>2. CASE BackoffTimer(l) \/ ReadBegins(l) \/ ReadFails(l)
  BY <1>2 DEF BackoffTimer, ReadBegins, ReadFails
<1>3. CASE Connected(l)
  <2>1. loops[l].pc = "dialed" /\ loops'[l] = [loops[l] EXCEPT !.pc = "connected",
                                                 !.retries = 0, !.delay = 0]
    BY <1>3 DEF Connected
  <2> QED BY <1>3, <2>1 DEF Connected
<1>4. CASE Disconnected(l) \/ Down(l) \/ Redial(l) \/ LoopStops(l)
  BY <1>4 DEF Disconnected, Down, Redial, LoopStops, BackoffStops, WaitStops
<1> QED BY <1>1, <1>2, <1>3, <1>4 DEF LoopStep

LEMMA OthersLemma ==
  ASSUME [Next]_vars, ~(\E l \in Loops : Start(l) \/ LoopStep(l) \/ LoopStops(l))
  PROVE  UNCHANGED <<heartbeat, loops, conn, open, doneClosed>> /\ broken \subseteq broken'
  BY DEF Next, vars, StopLooks, StopStep, StopCloses, StopReturns, TriggerReconnect, HeartStep,
         HeartStops, HeartTicks, HeartWrites, NetworkChanges, Drop, config, sockets, channels

\* A second Start is not taken back, nor is a second Stop.
LEMMA OneStartLemma ==
  ASSUME TypeOK, [Next]_vars, OneStart'
  PROVE  OneStart
<1>1. \A k \in Loops : loops[k].pc # "off" => loops'[k].pc # "off"
  BY LoopLemma, OthersLemma
<1> QED BY <1>1 DEF OneStart, Started

LEMMA OneStopLemma ==
  ASSUME TypeOK, [Next]_vars, OneStop'
  PROVE  OneStop
<1>1. \A s \in Stoppers : stops[s] # "idle" => stops'[s] # "idle"
  <2>1. ASSUME NEW s \in Stoppers, StopLooks(s) \/ StopStep(s)
        PROVE  \A t \in Stoppers : stops[t] # "idle" => stops'[t] # "idle"
    BY <2>1 DEF TypeOK, StopLooks, StopStep, StopCloses, StopReturns
  <2>2. UNCHANGED stops \/ \E s \in Stoppers : StopLooks(s) \/ StopStep(s)
    BY DEF Next, vars, Start, LoopStep, Connects, DialFails, BackoffTimer, Connected,
           ReadBegins, ReadFails, Disconnected, Down, Redial, LoopStops, BackoffStops,
           WaitStops, TriggerReconnect, HeartStep, HeartStops, HeartTicks, HeartWrites,
           NetworkChanges, Drop
  <2> QED BY <2>1, <2>2
<1> QED BY <1>1 DEF OneStop

\* With one Start, every loop but the one that moves is off.
LEMMA AloneLemma ==
  ASSUME TypeOK, [Next]_vars, OneStart', NEW l \in Loops,
         Start(l) \/ LoopStep(l) \/ LoopStops(l)
  PROVE  \A k \in Loops \ {l} : loops[k].pc = "off" /\ loops'[k] = loops[k]
<1>1. loops'[l].pc # "off" /\ \A k \in Loops \ {l} : loops'[k] = loops[k]
  BY LoopLemma
<1> QED BY <1>1 DEF OneStart, Started

LEMMA HeldStep ==
  ASSUME TypeOK, Held, OneStart', [Next]_vars
  PROVE  Held'
<1>1. ASSUME NEW l \in Loops, Start(l) \/ LoopStep(l) \/ LoopStops(l)
      PROVE  Held'
  <2>a. \A k \in Loops \ {l} : loops[k].pc = "off" /\ loops'[k].pc = "off"
    BY <1>1, AloneLemma
  <2>b. Started' # {}
    BY <1>1, LoopLemma DEF Started
  <2>c. loops \in [Loops -> LoopState] /\ open \subseteq Sockets /\ NoConn \notin Sockets
    BY SocketsAssumption DEF TypeOK
  <2> SUFFICES /\ open' \subseteq {conn'}
               /\ loops'[l].pc \in {"dial", "backoff", "done"} => conn' = NoConn
               /\ loops'[l].pc = "read" => loops'[l].reading = conn'
    BY <2>a, <2>b DEF Held
  <2>1. CASE Start(l)
    <3>1. Started = {}
      BY <2>1, <2>a DEF Start, Started
    <3> QED BY <2>1, <2>c, <3>1 DEF Start, Held, Goto, LoopState, sockets
  <2>2. CASE Connects(l)
    <3>1. PICK s \in Unused : conn' = s /\ open' = open \union {s}
      BY <2>2 DEF Connects
    <3>2. open = {}
      BY <2>2, <2>c DEF Connects, Held
    <3>3. loops'[l].pc = "dialed"
      BY <2>2, <2>c DEF Connects, Goto, LoopState
    <3> QED BY <3>1, <3>2, <3>3
  <2>3. CASE DialFails(l) \/ BackoffStops(l) \/ BackoffTimer(l)
    <3>1. UNCHANGED sockets /\ loops[l].pc \in {"dial", "backoff"} /\ loops'[l].pc # "read"
      BY <2>3, <2>c DEF DialFails, BackoffStops, BackoffTimer, Ends, Goto, LoopState
    <3> QED BY <3>1 DEF Held, sockets
  <2>4. CASE Connected(l) \/ ReadFails(l) \/ Disconnected(l)
    <3>1. UNCHANGED sockets /\ loops'[l].pc \in {"connected", "unread", "down"}
      <4>1. CASE Connected(l)
        <5>1. loops'[l] = [loops[l] EXCEPT !.pc = "connected", !.retries = 0, !.delay = 0]
          BY <4>1, <2>c DEF Connected
        <5>2. loops'[l].pc = "connected"
          BY <5>1, <2>c DEF LoopState
        <5> QED BY <4>1, <5>2 DEF Connected
      <4>2. CASE ReadFails(l) \/ Disconnected(l)
        BY <4>2, <2>c DEF ReadFails, Disconnected, Goto, LoopState
      <4> QED BY <2>4, <4>1, <4>2
    <3> QED BY <3>1 DEF Held, sockets
  <2>5. CASE ReadBegins(l)
    <3>1. UNCHANGED sockets /\ loops'[l].pc \in {"read", "unread"} /\ loops'[l].reading = conn
      BY <2>5, <2>c DEF ReadBegins, LoopState
    <3> QED BY <3>1 DEF Held, sockets
  <2>6. CASE Down(l) \/ WaitStops(l) \/ Redial(l)
    <3>1. CASE closeConn
      <4>1. loops'[l].pc # "read"
        BY <2>6, <2>c DEF Down, WaitStops, Redial, Ends, Goto, LoopState
      <4> QED BY <3>1, <4>1 DEF closeConn, Held
    <3>2. CASE ~closeConn
      <4>1. UNCHANGED sockets /\ loops'[l].pc = "waiting"
        BY <2>6, <3>2, <2>c DEF Down, WaitStops, Redial, Goto, LoopState
      <4> QED BY <4>1 DEF Held, sockets
    <3> QED BY <3>1, <3>2
  <2> QED BY <1>1, <2>1, <2>2, <2>3, <2>4, <2>5, <2>6 DEF LoopStep, LoopStops
<1>2. CASE UNCHANGED <<loops, conn, open>>
  BY <1>2 DEF Held, Started
<1> QED BY <1>1, <1>2, OthersLemma

LEMMA LoopEndsLemma ==
  ASSUME TypeOK, NEW l \in Loops, Start(l) \/ LoopStep(l) \/ LoopStops(l)
  PROVE  /\ loops[l].pc # "done"
         /\ Ends(l) \/ UNCHANGED <<doneClosed, panicked>>
         /\ UNCHANGED <<stops, stopClosed, heartbeat>>
<1>1. CASE Start(l) \/ Connects(l) \/ BackoffTimer(l) \/ Connected(l)
  BY <1>1 DEF Start, Connects, BackoffTimer, Connected, channels, config
<1>2. CASE DialFails(l) \/ Down(l) \/ LoopStops(l)
  BY <1>2 DEF DialFails, Down, LoopStops, BackoffStops, WaitStops, channels, config
<1>3. CASE ReadBegins(l) \/ ReadFails(l) \/ Disconnected(l) \/ Redial(l)
  BY <1>3 DEF ReadBegins, ReadFails, Disconnected, Redial, channels, config
<1> QED BY <1>1, <1>2, <1>3 DEF LoopStep

LEMMA EndedStep ==
  ASSUME TypeOK, Ended, [Next]_vars
  PROVE  Ended'
<1> USE DEF Ended
<1>1. ASSUME NEW l \in Loops, Start(l) \/ LoopStep(l) \/ LoopStops(l)
      PROVE  Ended'
  <2>1. /\ loops[l].pc # "done" /\ UNCHANGED <<stops, stopClosed>>
        /\ Ends(l) \/ UNCHANGED doneClosed
    BY <1>1, LoopEndsLemma
  <2>2. CASE Ends(l)
    BY <2>1, <2>2 DEF Ends, Goto, TypeOK, LoopState
  <2>3. CASE UNCHANGED doneClosed
    <3>1. \A k \in Loops \ {l} : loops'[k] = loops[k]
      BY <1>1, LoopLemma
    <3> QED BY <2>1, <2>3, <3>1
  <2> QED BY <2>1, <2>2, <2>3
<1>2. ASSUME NEW s \in Stoppers, StopLooks(s) \/ StopStep(s)
      PROVE  Ended'
  <2>1. UNCHANGED <<loops, doneClosed>>
    BY <1>2 DEF StopLooks, StopStep, StopCloses, StopReturns, channels
  <2>2. stops' = [stops EXCEPT ![s] = stops'[s]] /\ stops \in [Stoppers -> {"idle", "close",
          "wait", "stopped", "unheeded"}]
    BY <1>2 DEF StopLooks, StopStep, StopCloses, StopReturns, TypeOK
  <2>3. CASE StopLooks(s)
    BY <2>1, <2>2, <2>3 DEF StopLooks, channels
  <2>4. CASE StopCloses(s)
    BY <2>1, <2>2, <2>4 DEF StopCloses
  <2>5. CASE StopReturns(s)
    BY <2>1, <2>2, <2>5 DEF StopReturns, channels
  <2> QED BY <1>2, <2>3, <2>4, <2>5 DEF StopStep
<1>3. CASE UNCHANGED <<loops, doneClosed, stops, stopClosed>>
  BY <1>3
<1>4. ASSUME NEW h \in Hearts, HeartStep(h)
      PROVE  UNCHANGED <<loops, doneClosed, stops, stopClosed>>
  BY <1>4 DEF HeartStep, HeartStops, HeartTicks, HeartWrites, channels
<1> QED
  BY <1>1, <1>2, <1>3, <1>4 DEF Next, TriggerReconnect, NetworkChanges, Drop, vars, channels

\* No channel is closed twice as long as there is one Start and one Stop.
LEMMA CalmStep ==
  ASSUME TypeOK, Ended, OneStart', OneStop', ~panicked, [Next]_vars
  PROVE  ~panicked'
<1>1. ASSUME NEW l \in Loops, Start(l) \/ LoopStep(l) \/ LoopStops(l)
      PROVE  ~panicked'
  <2>1. CASE Ends(l)
    <3>1. loops[l].pc # "done" /\ \A k \in Loops \ {l} : loops[k].pc = "off"
      BY <1>1, LoopEndsLemma, AloneLemma
    <3>2. ~doneClosed
      BY <3>1 DEF Ended
    <3> QED BY <2>1, <3>2 DEF Ends
  <2>2. CASE UNCHANGED panicked
    BY <2>2
  <2> QED BY <1>1, <2>1, <2>2, LoopEndsLemma
<1>2. ASSUME NEW s \in Stoppers, StopCloses(s)
      PROVE  ~panicked'
  <2>1. stops[s] = "close" /\ panicked' = stopClosed
    BY <1>2 DEF StopCloses
  <2>2. \A t \in Stoppers \ {s} : stops[t] = "idle"
    BY <2>1, OneStopLemma DEF OneStop
  <2> QED BY <2>1, <2>2 DEF Ended
<1>3. ASSUME NEW s \in Stoppers, StopLooks(s) \/ StopReturns(s)
      PROVE  ~panicked'
  BY <1>3 DEF StopLooks, StopReturns
<1>4. ASSUME NEW h \in Hearts, HeartStep(h)
      PROVE  ~panicked'
  BY <1>4 DEF HeartStep, HeartStops, HeartTicks, HeartWrites
<1> QED
  BY <1>1, <1>2, <1>3, <1>4
  DEF Next, StopStep, TriggerReconnect, NetworkChanges, Drop, vars

-----------------------------------------------------------------------------
(* Heartbeats *)

LEMMA PingedStep ==
  ASSUME TypeOK, Held, Pinged, OneStart', [Next]_vars
  PROVE  Pinged'
<1>t. /\ hearts \in [Hearts -> {"off", "asleep"} \union Sockets] /\ open \subseteq Sockets
      /\ "off" \notin Sockets /\ "asleep" \notin Sockets /\ NoConn \notin Sockets
  BY SocketsAssumption DEF TypeOK
<1>1. ASSUME NEW l \in Loops, Start(l) \/ LoopStep(l) \/ LoopStops(l)
      PROVE  Pinged'
  <2>a. UNCHANGED <<stopClosed, heartbeat>> /\ \A k \in Loops \ {l} : loops'[k].pc = "off"
    BY <1>1, AloneLemma, LoopEndsLemma
  <2>1. CASE Connects(l)
    <3> SUFFICES ASSUME heartbeat PROVE \E h \in Hearts : hearts'[h] = "asleep"
      BY <2>a DEF Pinged
    <3>1. PICK h \in Hearts : hearts' = [hearts EXCEPT ![h] = "asleep"]
      BY <2>1 DEF Connects
    <3> QED BY <3>1, <1>t
  <2>2. CASE loops'[l].pc \notin {"dialed", "connected", "read"}
    BY <2>2, <2>a DEF Pinged
  <2>3. CASE Connected(l) \/ ReadBegins(l)
    <3>1. loops[l].pc \in {"dialed", "connected"} /\ UNCHANGED <<sockets, hearts>>
      BY <2>3 DEF Connected, ReadBegins
    <3> QED BY <2>a, <3>1 DEF Pinged, sockets, Usable
  <2>4. ASSUME ~Connects(l), ~Connected(l), ~ReadBegins(l)
        PROVE  loops'[l].pc \notin {"dialed", "connected", "read"}
    <3>t. loops \in [Loops -> LoopState]
      BY DEF TypeOK
    <3>1. CASE Start(l) \/ DialFails(l) \/ BackoffTimer(l) \/ LoopStops(l)
      BY <3>1, <3>t DEF Start, DialFails, BackoffTimer, LoopStops, BackoffStops, WaitStops, Ends,
                        Goto, LoopState
    <3>2. CASE ReadFails(l) \/ Disconnected(l) \/ Down(l) \/ Redial(l)
      BY <3>2, <3>t DEF ReadFails, Disconnected, Down, Redial, Ends, Goto, LoopState
    <3> QED BY <1>1, <2>4, <3>1, <3>2 DEF LoopStep
  <2> QED BY <2>1, <2>2, <2>3, <2>4
<1>2. ASSUME NEW h \in Hearts, HeartStep(h)
      PROVE  Pinged'
  <2>1. UNCHANGED <<heartbeat, loops, stopClosed, conn, open, broken>>
    BY <1>2 DEF HeartStep, HeartStops, HeartTicks, HeartWrites, config, sockets, channels
  <2>2. CASE HeartStops(h)
    BY <2>1, <2>2 DEF HeartStops, Pinged
  <2>3. CASE HeartTicks(h)
    BY <2>1, <2>3, <1>t DEF HeartTicks, Pinged, Usable
  <2>4. CASE HeartWrites(h)
    BY <2>1, <2>4, <1>t DEF HeartWrites, Pinged, Usable
  <2> QED BY <1>2, <2>2, <2>3, <2>4 DEF HeartStep
<1>3. ASSUME UNCHANGED <<heartbeat, loops, conn, open, hearts>>, broken \subseteq broken',
             stopClosed => stopClosed'
      PROVE  Pinged'
  BY <1>3 DEF Pinged, Usable
<1>4. ASSUME NEW s \in Stoppers, StopLooks(s) \/ StopStep(s)
      PROVE  UNCHANGED hearts /\ (stopClosed => stopClosed')
  BY <1>4 DEF StopLooks, StopStep, StopCloses, StopReturns, channels
<1>5. ASSUME TriggerReconnect \/ NetworkChanges \/ (\E s \in Sockets : Drop(s)) \/ UNCHANGED vars
      PROVE  UNCHANGED hearts /\ (stopClosed => stopClosed')
  BY <1>5 DEF TriggerReconnect, NetworkChanges, Drop, vars, channels
<1>6. \/ \E l \in Loops : Start(l) \/ LoopStep(l) \/ LoopStops(l)
      \/ \E h \in Hearts : HeartStep(h)
      \/ UNCHANGED hearts /\ (stopClosed => stopClosed')
  BY <1>4, <1>5 DEF Next
<1> QED BY <1>1, <1>2, <1>3, <1>6, OthersLemma

-----------------------------------------------------------------------------
(* The theorems *)

LEMMA InvariantInit == Init => IInv
<1> SUFFICES ASSUME Init PROVE IInv
  OBVIOUS
<1>1. \A n \in RetryLimits : n \in Nat
  BY LimitsAssumption
<1>2. Looping
  <2>1. NoLoop \in LoopState /\ NoLoop.retries = 0
    BY LimitsAssumption DEF NoLoop, LoopState
  <2> QED BY <1>1, <2>1 DEF Init, Looping
<1>3. Rest /\ Flags
  BY DEF Init, Rest, Flags
<1>4. \A l \in Loops : loops[l].pc = "off"
  BY DEF Init, NoLoop
<1>5. Held
  BY <1>4 DEF Init, Held
<1>6. Ended /\ Pinged /\ ~panicked
  BY <1>4 DEF Init, Ended, Pinged
<1> QED BY <1>2, <1>3, <1>5, <1>6, TypeParts DEF IInv, AfterOneStart

LEMMA InvariantStep == IInv /\ [Next]_vars => IInv'
<1> SUFFICES ASSUME IInv, [Next]_vars PROVE IInv'
  OBVIOUS
<1>1. TypeOK'
  BY TypeStep DEF IInv
<1>2. ASSUME OneStart' PROVE Held' /\ Ended' /\ Pinged' /\ (OneStop' => ~panicked')
  <2>1. Held /\ Ended /\ Pinged /\ (OneStop => ~panicked)
    BY <1>2, OneStartLemma DEF IInv, AfterOneStart
  <2>2. OneStop' => ~panicked'
    BY <1>2, <2>1, OneStopLemma, CalmStep DEF IInv
  <2> QED BY <1>2, <2>1, <2>2, HeldStep, EndedStep, PingedStep DEF IInv
<1> QED BY <1>1, <1>2 DEF IInv, AfterOneStart

\* The manager, its loops and heartbeats keep their types, and no loop counts more
\* retries than config.MaxRetries (ws_reconnect.go run), however often Start is called.
THEOREM ManagerTypes == Spec => []TypeOK
<1>1. IInv => TypeOK
  BY DEF IInv
<1> QED BY <1>1, InvariantInit, InvariantStep, PTL DEF Spec

\* With one Start, every socket the process holds open is m.conn: no reconnect, drop or
\* stop leaks the one before it (ws_reconnect.go connect, closeConn).
THEOREM NoLeak == Spec => []NoSocketLeaked
<1>1. IInv => NoSocketLeaked
  BY DEF IInv, AfterOneStart, Held, NoSocketLeaked
<1> QED BY <1>1, InvariantInit, InvariantStep, PTL DEF Spec

\* A Stop that waited for doneChan returns to a process with no loop and no open socket,
\* and one Stop after one Start never closes a closed channel (ws_reconnect.go Stop).
THEOREM NothingLeft == Spec => []StopLeavesNothing
<1>1. ASSUME IInv PROVE StopLeavesNothing
  <2> SUFFICES ASSUME OneStart
               PROVE  /\ (\E s \in Stoppers : stops[s] = "stopped") => Running = {} /\ open = {}
                      /\ OneStop => ~panicked
    BY DEF StopLeavesNothing
  <2>1. Held /\ Ended /\ (OneStop => ~panicked)
    BY <1>1 DEF IInv, AfterOneStart
  <2>2. ASSUME NEW s \in Stoppers, stops[s] = "stopped"
        PROVE  Running = {} /\ open = {}
    <3>1. PICK l \in Loops : loops[l].pc = "done"
      BY <2>1, <2>2 DEF Ended
    <3>2. \A k \in Loops \ {l} : loops[k].pc = "off"
      BY <3>1 DEF OneStart, Started
    <3>3. conn = NoConn
      BY <2>1, <3>1 DEF Held
    <3>4. open = {}
      BY <1>1, <2>1, <3>3, SocketsAssumption DEF Held, IInv, TypeOK
    <3> QED BY <3>1, <3>2, <3>4 DEF Running
  <2> QED BY <2>1, <2>2
<1> QED BY <1>1, InvariantInit, InvariantStep, PTL DEF Spec

\* A usable connection that is being read always has a heartbeat goroutine, although a
\* heartbeat is not bound to the connection that started it and may die of an older one
\* (ws_reconnect.go heartbeatLoop).
THEOREM AlwaysPinged == Spec => []LiveConnectionBeats
<1>1. ASSUME IInv PROVE LiveConnectionBeats
  <2> SUFFICES ASSUME OneStart, heartbeat, ~stopClosed, NEW l \in Loops,
                      loops[l].pc = "read", Usable(loops[l].reading)
               PROVE  Beating # {}
    BY DEF LiveConnectionBeats
  <2>1. loops[l].reading = conn
    BY <1>1 DEF IInv, AfterOneStart, Held
  <2>2. PICK h \in Hearts : hearts[h] \in {"asleep", conn}
    BY <1>1, <2>1 DEF IInv, AfterOneStart, Pinged
  <2>3. conn \in Sockets
    BY <1>1, <2>1 DEF Usable, IInv, TypeOK
  <2> QED BY <2>2, <2>3, SocketsAssumption DEF Beating
<1> QED BY <1>1, InvariantInit, InvariantStep, PTL DEF Spec

=============================================================================
