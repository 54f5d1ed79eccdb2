-------------------------- MODULE LiveRunnerProofs --------------------------
(***************************************************************************)
(* Proofs about LiveRunner, for any orders, retries, limits of age, fills  *)
(* and length of the stream.                                               *)
(***************************************************************************)
EXTENDS LiveRunner, SequenceTheorems, TLAPS

\* Run counts the dials that failed since the last connection, and is gone with one more
\* than MaxRetries.
Counted ==
  /\ ws.pc \in {"dial", "sleep"} => refused = ws.retries
  /\ ws.pc = "read" => refused = 0 /\ ws.retries = 0
  /\ ws.pc = "gone" => refused = MaxRetries + 1

\* A round that ends without a renewal has failed twice; the key lives on into the next.
Renewed ==
  /\ keeper = "idle" /\ key.rounds > 0 => unkept = 2
  /\ keeper = "second" => unkept > 0
  /\ key.rounds = 2 => unkept = 2
  /\ key.expired => unkept = 2

\* Until the book is written again, the mid a tick works with is as old as the book. What
\* comes after a cancel has been decided before it.
InStep ==
  /\ ticker.pc \in {"read", "rest", "ready"} =>
       /\ ticker.mid /\ ~ticker.changed => ticker.age = book.stamp
       /\ ticker.pc = "ready" => ticker.mid
       /\ ticker.next = "none"
  /\ ticker.pc = "cancel" => ticker.next # "none"

\* The report of the last fill is lost, or has been read, or is the last account update
\* on its way.
IsLast(i) ==
  /\ stream[i].kind = "account" /\ stream[i].fills = fills
  /\ \A j \in 1..Len(stream) : j > i => stream[j].kind # "account"

Reported ==
  \/ unseen
  \/ inv = fills /\ \A i \in 1..Len(stream) : stream[i].kind # "account"
  \/ \E i \in 1..Len(stream) : IsLast(i)

\* No report is of a fill yet to come.
InOrder == \A i \in 1..Len(stream) : stream[i].fills <= fills

IInv == TypeOK /\ Counted /\ Renewed /\ InStep /\ Reported /\ InOrder

-----------------------------------------------------------------------------
(* Operators of the model *)

LEMMA AgeLemma ==
  /\ MaxAge \in Nat /\ GuardLimit \in Nat /\ MaxRetries \in Nat /\ MaxFills \in Nat
  /\ MaxStream \in Nat
  /\ \A n \in 0..MaxAge + 1 : Older(n) \in 0..MaxAge + 1
<1>1. /\ GuardLimit \in Nat /\ MaxRetries \in Nat /\ MaxFills \in Nat /\ MaxStream \in Nat
      /\ \A n \in StaleLimits : n \in Nat
  BY LimitsAssumption
<1>2. \E n \in {GuardLimit} \union StaleLimits :
        \A m \in {GuardLimit} \union StaleLimits : n >= m
  <2>1. PICK n \in StaleLimits : \A m \in StaleLimits : n >= m
    BY StaleAssumption
  <2>2. CASE n >= GuardLimit
    BY <2>1, <2>2
  <2>3. CASE ~(n >= GuardLimit)
    <3>1. \A m \in StaleLimits : GuardLimit >= m
      BY <1>1, <2>1, <2>3
    <3> QED BY <1>1, <3>1
  <2> QED BY <2>2, <2>3
<1>3. MaxAge \in {GuardLimit} \union StaleLimits
  BY <1>2, Zenon DEF MaxAge
<1>4. MaxAge \in Nat
  BY <1>1, <1>3
<1> QED BY <1>1, <1>4 DEF Older

\* What is left of the stream when its first message is read.
LEMMA TailLemma ==
  ASSUME NEW S, NEW s \in Seq(S), s # <<>>
  PROVE  /\ Tail(s) \in Seq(S) /\ Head(s) = s[1] /\ Len(s) \in Nat \ {0}
         /\ Len(Tail(s)) = Len(s) - 1
         /\ \A i \in 1..Len(Tail(s)) : Tail(s)[i] = s[i + 1]
  BY HeadTailProperties, LenProperties

\* What the stream is when messages are added.
LEMMA JoinLemma ==
  ASSUME NEW S, NEW s \in Seq(S), NEW t \in Seq(S)
  PROVE  /\ s \o t \in Seq(S) /\ Len(s \o t) = Len(s) + Len(t)
         /\ \A i \in 1..Len(s) : (s \o t)[i] = s[i]
         /\ \A i \in 1..Len(t) : (s \o t)[Len(s) + i] = t[i]
  BY ConcatProperties, LenProperties

-----------------------------------------------------------------------------
(* The parts of the invariant *)

LEMMA CountedStep ==
  ASSUME TypeOK, Counted, [Next]_vars
  PROVE  Counted'
<1>t. ws.retries \in 0..MaxRetries /\ MaxRetries \in Nat /\ ws \in [pc : {"dial", "read",
         "sleep", "gone"}, retries : 0..MaxRetries]
  BY AgeLemma DEF TypeOK
<1>1. CASE Connects
  BY <1>1 DEF Connects, Counted
<1>2. CASE DialFails
  BY <1>2, <1>t DEF DialFails, Counted
<1>3. CASE Redials \/ Disconnects
  BY <1>3, <1>t DEF Redials, Disconnects, Counted
<1>4. CASE UNCHANGED <<ws, refused>>
  BY <1>4 DEF Counted
<1> QED
  BY <1>1, <1>2, <1>3, <1>4
  DEF Next, WSStep, TickerStep, DepthArrives, UserArrives, TickFires, LooksAtAge, RestAnswers,
      Rereads, RestFails, NotReady, OnTick, Cancel, Place, Halt, TickerEnds, KeeperFires,
      KeepAliveOk, KeepAliveFails, Passes, Signal, Fills, Ends, vars, wsVars

LEMMA RenewedStep ==
  ASSUME TypeOK, Renewed, [Next]_vars
  PROVE  Renewed'
<1>t. /\ key \in [rounds : 0..2, expired : BOOLEAN] /\ unkept \in 0..2
      /\ keeper \in {"idle", "first", "second"}
  BY DEF TypeOK
<1>1. CASE KeeperFires
  <2>1. keeper' = "first" /\ unkept' = unkept /\ keeper = "idle"
    BY <1>1 DEF KeeperFires
  <2>2. CASE key.expired
    BY <1>1, <2>1, <2>2 DEF KeeperFires, Renewed
  <2>3. CASE ~key.expired /\ key.rounds = 0
    <3>1. key' = [key EXCEPT !.rounds = 1]
      BY <1>1, <2>3 DEF KeeperFires
    <3> QED BY <2>1, <2>3, <3>1, <1>t DEF Renewed
  <2>4. CASE key.rounds > 0
    BY <2>1, <2>4 DEF Renewed
  <2> QED BY <1>t, <2>2, <2>3, <2>4
<1>2. CASE KeepAliveOk
  BY <1>2, <1>t DEF KeepAliveOk, Renewed
<1>3. CASE KeepAliveFails
  <2>1. unkept' \in 1..2 /\ (unkept > 0 => unkept' = 2)
    BY <1>3, <1>t DEF KeepAliveFails
  <2> QED BY <1>3, <1>t, <2>1 DEF KeepAliveFails, Renewed
<1>4. CASE UNCHANGED keyVars
  BY <1>4 DEF Renewed, keyVars
<1> QED
  BY <1>1, <1>2, <1>3, <1>4
  DEF Next, WSStep, Connects, DialFails, Redials, Disconnects, TickerStep, DepthArrives,
      UserArrives, TickFires, LooksAtAge, RestAnswers, Rereads, RestFails, NotReady, OnTick,
      Cancel, Place, Halt, TickerEnds, Passes, Signal, Fills, Ends, vars

LEMMA InStepStep ==
  ASSUME TypeOK, InStep, [Next]_vars
  PROVE  InStep'
<1>t. ticker \in TickerState /\ NoTick \in TickerState
  BY AgeLemma DEF TypeOK, TickerState, NoTick
<1>1. ASSUME NEW complete \in BOOLEAN, SetBest(complete)
      PROVE  InStep'
  BY <1>1, <1>t DEF SetBest, InStep, TickerState
<1>2. CASE TickFires \/ Rereads
  BY <1>2, <1>t DEF TickFires, Rereads, ReadMid, NoTick, InStep, TickerState
<1>3. CASE LooksAtAge
  BY <1>3, <1>t DEF LooksAtAge, InStep, TickerState
<1>4. CASE RestFails
  BY <1>4, <1>t DEF RestFails, NoTick, InStep, TickerState
<1>5. CASE RestAnswers \/ NotReady \/ OnTick \/ Place \/ Halt
  <2>1. \/ ticker' = NoTick
        \/ ticker' = [NoTick EXCEPT !.pc = "reread"]
        \/ \E next \in {"place", "halt"} : ticker' = [NoTick EXCEPT !.pc = "cancel", !.next = next]
    BY <1>5 DEF RestAnswers, NotReady, OnTick, Place, Halt
  <2>2. CASE ticker' = NoTick \/ ticker' = [NoTick EXCEPT !.pc = "reread"]
    BY <2>2 DEF NoTick, InStep
  <2>3. ASSUME NEW next, ticker' = [NoTick EXCEPT !.pc = "cancel", !.next = next]
        PROVE  ticker'.pc = "cancel" /\ ticker'.next = next
    BY <2>3 DEF NoTick
  <2> QED BY <2>1, <2>2, <2>3 DEF InStep
<1>6. CASE Cancel \/ TickerEnds
  <2>1. ticker'.pc \notin {"read", "rest", "ready", "cancel"}
    BY <1>6, <1>t DEF Cancel, TickerEnds, TickerState
  <2> QED BY <2>1 DEF InStep
<1>7. CASE Passes
  BY <1>7, <1>t DEF Passes, InStep, TickerState, TypeOK
<1>8. CASE UNCHANGED <<book, ticker>>
  BY <1>8 DEF InStep
<1>9. ASSUME DepthArrives \/ UserArrives
      PROVE  \E complete \in BOOLEAN : SetBest(complete)
  BY <1>9 DEF DepthArrives, UserArrives
<1> QED
  BY <1>1, <1>2, <1>3, <1>4, <1>5, <1>6, <1>7, <1>8, <1>9
  DEF Next, WSStep, Connects, DialFails, Redials, Disconnects, TickerStep, KeeperFires,
      KeepAliveOk, KeepAliveFails, Signal, Fills, Ends, vars

\* Reading a message, and the messages of a fill or of an order that ends.
LEMMA StreamStep ==
  ASSUME TypeOK, Reported, InOrder, [Next]_vars
  PROVE  /\ Reported' /\ InOrder'
         /\ stream' \in Seq(Message) /\ Len(stream') <= MaxStream
         /\ fills' \in 0..MaxFills /\ inv' \in 0..fills'
<1> DEFINE Goal == /\ Reported' /\ InOrder'
                   /\ stream' \in Seq(Message) /\ Len(stream') <= MaxStream
                   /\ fills' \in 0..MaxFills /\ inv' \in 0..fills'
<1>t. /\ stream \in Seq(Message) /\ Len(stream) \in Nat /\ Len(stream) <= MaxStream
      /\ fills \in 0..MaxFills /\ inv \in 0..fills /\ MaxFills \in Nat /\ MaxStream \in Nat
  BY AgeLemma, LenProperties DEF TypeOK
<1>m. \A i \in 1..Len(stream) : stream[i] \in Message
  BY <1>t, ElementOfSeq
<1>1. CASE UserArrives
  <2>1. /\ stream # <<>> /\ stream' = Tail(stream) /\ UNCHANGED <<fills, unseen>>
        /\ IF Head(stream).kind = "account" THEN inv' = Head(stream).fills ELSE inv' = inv
    BY <1>1 DEF UserArrives
  <2>2. /\ stream' \in Seq(Message) /\ Head(stream) = stream[1] /\ Len(stream) \in Nat \ {0}
        /\ Len(stream') = Len(stream) - 1
        /\ \A i \in 1..Len(stream') : stream'[i] = stream[i + 1]
    BY <2>1, <1>t, TailLemma
  <2>3. \A i \in 1..Len(stream') : i + 1 \in 1..Len(stream)
    BY <2>2
  <2>4. inv' \in 0..fills'
    BY <1>t, <1>m, <2>1, <2>2 DEF InOrder, Message
  <2>5. InOrder'
    BY <2>1, <2>2, <2>3 DEF InOrder
  <2>6. Reported'
    <3>1. CASE unseen
      BY <2>1, <3>1 DEF Reported
    <3>2. CASE inv = fills /\ \A i \in 1..Len(stream) : stream[i].kind # "account"
      BY <2>1, <2>2, <2>3, <3>2 DEF Reported
    <3>3. ASSUME NEW i \in 1..Len(stream), IsLast(i)
          PROVE  Reported'
      <4>1. CASE i = 1
        <5>1. inv' = fills'
          BY <2>1, <2>2, <3>3, <4>1 DEF IsLast
        <5>2. \A j \in 1..Len(stream') : stream'[j].kind # "account"
          BY <2>2, <2>3, <3>3, <4>1 DEF IsLast
        <5> QED BY <5>1, <5>2 DEF Reported
      <4>2. CASE i # 1
        <5>1. i - 1 \in 1..Len(stream') /\ stream'[i - 1] = stream[i]
          BY <2>2, <4>2
        <5>2. \A j \in 1..Len(stream') : j > i - 1 => stream'[j].kind # "account"
          BY <2>2, <2>3, <3>3 DEF IsLast
        <5>3. (IsLast(i - 1))'
          BY <2>1, <3>3, <5>1, <5>2 DEF IsLast
        <5> QED BY <5>1, <5>3 DEF Reported
      <4> QED BY <4>1, <4>2
    <3> QED BY <3>1, <3>2, <3>3 DEF Reported
  <2> QED BY <1>t, <2>1, <2>2, <2>4, <2>5, <2>6
<1>2. CASE Disconnects
  <2>1. /\ stream' = <<>> /\ UNCHANGED <<fills, inv>>
        /\ unseen' = (unseen \/ \E i \in 1..Len(stream) : stream[i].kind = "account")
    BY <1>2 DEF Disconnects
  <2>2. stream' \in Seq(Message) /\ Len(stream') = 0
    BY <2>1
  <2>3. Reported'
    <3>1. CASE \E i \in 1..Len(stream) : stream[i].kind = "account"
      BY <2>1, <3>1 DEF Reported
    <3>2. CASE \A i \in 1..Len(stream) : stream[i].kind # "account"
      <4>1. unseen \/ inv = fills
        BY <3>2 DEF Reported, IsLast
      <4>2. unseen' \/ inv' = fills'
        BY <2>1, <4>1
      <4>3. \A i \in 1..Len(stream') : FALSE
        BY <2>2
      <4> QED BY <4>2, <4>3 DEF Reported
    <3> QED BY <3>1, <3>2
  <2> QED BY <1>t, <2>1, <2>2, <2>3 DEF InOrder
<1>3. ASSUME NEW o \in Orders, Fills(o)
      PROVE  Goal
  <2> DEFINE events == <<AccountUpdate(o, fills'), OrderUpdate(o, fills')>>
  <2>1. fills' = fills + 1 /\ fills' \in 0..MaxFills /\ inv' = inv
    BY <1>3, <1>t DEF Fills
  <2>2. /\ events \in Seq(Message) /\ Len(events) = 2
        /\ events[1].kind = "account" /\ events[1].fills = fills'
        /\ events[2].kind = "order" /\ events[2].fills = fills'
    BY <2>1 DEF AccountUpdate, OrderUpdate, Message
  <2>3. CASE Streaming
    <3>1. stream' = stream \o events /\ Len(stream) + Len(events) <= MaxStream
      BY <1>3, <2>3 DEF Fills, Reports
    <3> HIDE DEF events
    <3>2. /\ stream' \in Seq(Message) /\ Len(stream') = Len(stream) + 2
          /\ \A i \in 1..Len(stream) : stream'[i] = stream[i]
          /\ stream'[Len(stream) + 1] = events[1] /\ stream'[Len(stream) + 2] = events[2]
      <4>1. 1 \in 1..Len(events) /\ 2 \in 1..Len(events)
        BY <2>2
      <4>2. /\ stream \o events \in Seq(Message)
            /\ Len(stream \o events) = Len(stream) + Len(events)
            /\ \A i \in 1..Len(stream) : (stream \o events)[i] = stream[i]
            /\ \A i \in 1..Len(events) : (stream \o events)[Len(stream) + i] = events[i]
        <5>1. stream \in Seq(Message) /\ events \in Seq(Message)
          BY <1>t, <2>2
        <5> QED BY <5>1, JoinLemma
      <4> QED BY <2>2, <3>1, <4>1, <4>2
    <3>3. \A i \in 1..Len(stream') : i \in 1..Len(stream) \/ i = Len(stream) + 1
                                       \/ i = Len(stream) + 2
      BY <3>2, <1>t
    <3>4. InOrder'
      <4>1. \A i \in 1..Len(stream) : stream[i].fills \in 0..MaxFills
        BY <1>m DEF Message
      <4>2. \A i \in 1..Len(stream) : stream'[i].fills <= fills'
        BY <1>t, <2>1, <3>2, <4>1 DEF InOrder
      <4>3. fills' <= fills'
        BY <2>1
      <4> QED BY <2>2, <3>2, <3>3, <4>2, <4>3 DEF InOrder
    <3>5. \E i \in 1..Len(stream') :
            /\ stream'[i].kind = "account" /\ stream'[i].fills = fills'
            /\ \A j \in 1..Len(stream') : j > i => stream'[j].kind # "account"
      <4>1. Len(stream) + 1 \in 1..Len(stream')
        BY <1>t, <3>2
      <4>2. \A j \in 1..Len(stream') : j > Len(stream) + 1 => j = Len(stream) + 2
        BY <1>t, <3>2
      <4>3. \A j \in 1..Len(stream') : j > Len(stream) + 1 => stream'[j].kind # "account"
        BY <2>2, <3>2, <4>2
      <4> QED BY <2>2, <3>2, <4>1, <4>3
    <3>6. Reported'
      BY <3>5 DEF Reported, IsLast
    <3> QED BY <1>t, <2>1, <2>2, <3>1, <3>2, <3>4, <3>6
  <2>4. CASE ~Streaming
    <3>1. stream' = stream /\ unseen' = TRUE
      BY <1>3, <2>4 DEF Fills, Reports
    <3>2. InOrder'
      <4>1. \A i \in 1..Len(stream) : stream[i].fills \in 0..MaxFills
        BY <1>m DEF Message
      <4> QED BY <1>t, <2>1, <3>1, <4>1 DEF InOrder
    <3> QED BY <1>t, <2>1, <3>1, <3>2 DEF Reported
  <2> QED BY <2>3, <2>4
<1>4. ASSUME NEW o \in Orders, Ends(o)
      PROVE  Goal
  <2> DEFINE events == <<OrderUpdate(o, fills)>>
  <2>1. UNCHANGED <<fills, inv, unseen>>
    BY <1>4 DEF Ends
  <2>2. /\ events \in Seq(Message) /\ Len(events) = 1
        /\ events[1].kind = "order" /\ events[1].fills = fills
    BY <1>t DEF OrderUpdate, Message
  <2>3. CASE Streaming
    <3>1. stream' = stream \o events /\ Len(stream) + Len(events) <= MaxStream
      BY <1>4, <2>3 DEF Ends, Reports
    <3> HIDE DEF events
    <3>2. /\ stream' \in Seq(Message) /\ Len(stream') = Len(stream) + 1
          /\ \A i \in 1..Len(stream) : stream'[i] = stream[i]
          /\ stream'[Len(stream) + 1] = events[1]
      <4>1. 1 \in 1..Len(events)
        BY <2>2
      <4>2. /\ stream \o events \in Seq(Message)
            /\ Len(stream \o events) = Len(stream) + Len(events)
            /\ \A i \in 1..Len(stream) : (stream \o events)[i] = stream[i]
            /\ \A i \in 1..Len(events) : (stream \o events)[Len(stream) + i] = events[i]
        <5>1. stream \in Seq(Message) /\ events \in Seq(Message)
          BY <1>t, <2>2
        <5> QED BY <5>1, JoinLemma
      <4> QED BY <2>2, <3>1, <4>1, <4>2
    <3>3. \A i \in 1..Len(stream') : i \in 1..Len(stream) \/ i = Len(stream) + 1
      BY <3>2, <1>t
    <3>4. InOrder'
      <4>1. \A i \in 1..Len(stream) : stream'[i].fills <= fills'
        BY <2>1, <3>2 DEF InOrder
      <4>2. stream'[Len(stream) + 1].fills <= fills'
        BY <1>t, <2>1, <2>2, <3>2
      <4> QED BY <3>3, <4>1, <4>2 DEF InOrder
    <3>5. \A i \in 1..Len(stream) : i \in 1..Len(stream')
      BY <1>t, <3>2
    <3>6. Reported'
      <4>1. CASE unseen
        BY <2>1, <4>1 DEF Reported
      <4>2. CASE inv = fills /\ \A i \in 1..Len(stream) : stream[i].kind # "account"
        BY <2>1, <2>2, <3>2, <3>3, <4>2 DEF Reported
      <4>3. ASSUME NEW i \in 1..Len(stream), IsLast(i)
            PROVE  Reported'
        <5>1. (IsLast(i))'
          BY <2>1, <2>2, <3>2, <3>3, <4>3 DEF IsLast
        <5> QED BY <3>5, <5>1 DEF Reported
      <4> QED BY <4>1, <4>2, <4>3 DEF Reported
    <3> QED BY <1>t, <2>1, <2>2, <3>1, <3>2, <3>4, <3>6
  <2>4. CASE ~Streaming
    <3>1. stream' = stream
      BY <1>4, <2>4 DEF Ends, Reports
    <3> QED BY <1>t, <2>1, <3>1 DEF Reported, IsLast, InOrder
  <2> QED BY <2>3, <2>4
<1>5. CASE UNCHANGED position
  BY <1>5, <1>t DEF position, Reported, IsLast, InOrder
<1> QED
  BY <1>1, <1>2, <1>3, <1>4, <1>5
  DEF Next, WSStep, Connects, DialFails, Redials, TickerStep, DepthArrives, TickFires,
      LooksAtAge, RestAnswers, Rereads, RestFails, NotReady, OnTick, Cancel, Place, Halt,
      TickerEnds, KeeperFires, KeepAliveOk, KeepAliveFails, Passes, Signal, vars

-----------------------------------------------------------------------------
(* Types *)

LEMMA FeedTypes ==
  ASSUME TypeOK, Counted, [Next]_vars
  PROVE  /\ ws' \in [pc : {"dial", "read", "sleep", "gone"}, retries : 0..MaxRetries]
         /\ refused' \in 0..MaxRetries + 1
         /\ cancelled' \in BOOLEAN /\ unseen' \in BOOLEAN
<1> DEFINE WS == [pc : {"dial", "read", "sleep", "gone"}, retries : 0..MaxRetries]
<1>t. /\ ws \in WS /\ refused \in 0..MaxRetries + 1 /\ MaxRetries \in Nat
      /\ cancelled \in BOOLEAN /\ unseen \in BOOLEAN
  BY AgeLemma DEF TypeOK
<1>1. CASE Connects \/ Redials
  BY <1>1, <1>t DEF Connects, Redials, position
<1>7. CASE Disconnects
  <2>1. unseen' \in BOOLEAN
    BY <1>7 DEF Disconnects
  <2> QED BY <1>7, <1>t, <2>1 DEF Disconnects
<1>2. CASE DialFails
  <2>1. ws' \in WS /\ refused' \in 0..MaxRetries + 1
    BY <1>2, <1>t DEF DialFails, Counted
  <2>2. cancelled' \in BOOLEAN /\ UNCHANGED unseen
    BY <1>2, <1>t DEF DialFails, position
  <2> QED BY <1>t, <2>1, <2>2
<1>3. CASE UNCHANGED <<wsVars, cancelled, unseen>>
  BY <1>3, <1>t DEF wsVars
<1>4. ASSUME NEW o \in Orders, Fills(o)
      PROVE  UNCHANGED <<wsVars, cancelled>> /\ unseen' \in BOOLEAN
  BY <1>4 DEF Fills, Streaming
<1>5. CASE Signal
  BY <1>5, <1>t DEF Signal, wsVars, position
<1> HIDE DEF WS
<1>6. ASSUME NEW o \in Orders, Fills(o)
      PROVE  ws' \in WS /\ refused' \in 0..MaxRetries + 1 /\ cancelled' \in BOOLEAN
  BY <1>4, <1>6, <1>t DEF wsVars
<1> USE DEF WS
<1> QED
  BY <1>1, <1>2, <1>3, <1>4, <1>5, <1>6, <1>7
  DEF Next, WSStep, TickerStep, DepthArrives, UserArrives, TickFires, LooksAtAge, RestAnswers,
      Rereads, RestFails, NotReady, OnTick, Cancel, Place, Halt, TickerEnds, KeeperFires,
      KeepAliveOk, KeepAliveFails, Passes, Ends, vars, position

LEMMA BookTypes ==
  ASSUME TypeOK, InStep, [Next]_vars
  PROVE  book' \in [mid : BOOLEAN, stamp : 0..MaxAge + 1] /\ ticker' \in TickerState
<1> DEFINE Book == [mid : BOOLEAN, stamp : 0..MaxAge + 1]
<1>t. /\ book \in Book /\ ticker \in TickerState /\ NoTick \in TickerState
      /\ 0 \in 0..MaxAge + 1 /\ \A n \in 0..MaxAge + 1 : Older(n) \in 0..MaxAge + 1
  BY AgeLemma DEF TypeOK, TickerState, NoTick
<1>1. ASSUME NEW complete \in BOOLEAN, SetBest(complete)
      PROVE  book' \in Book /\ ticker' \in TickerState
  <2>1. \E c \in BOOLEAN : ticker' = [ticker EXCEPT !.changed = c]
    <3> DEFINE c == ticker.pc \in {"read", "rest", "ready"}
    <3>1. c \in BOOLEAN
      OBVIOUS
    <3>2. ticker' = [ticker EXCEPT !.changed = c]
      BY <1>1 DEF SetBest
    <3> HIDE DEF c
    <3> QED BY <3>1, <3>2, Zenon
  <2>2. ticker' \in TickerState
    BY <1>t, <2>1 DEF TickerState
  <2>3. book' = [mid |-> complete, stamp |-> 0]
    BY <1>1 DEF SetBest
  <2> QED BY <1>1, <1>t, <2>2, <2>3
<1>2. CASE TickFires \/ Rereads
  BY <1>2, <1>t DEF TickFires, Rereads, ReadMid, NoTick, TickerState
<1>3. CASE LooksAtAge \/ RestFails \/ TickerEnds
  BY <1>3, <1>t DEF LooksAtAge, RestFails, TickerEnds, TickerState
<1>4. CASE RestAnswers
  BY <1>4, <1>t DEF RestAnswers, TickerState
<1>5. CASE NotReady \/ Place \/ Halt
  BY <1>5, <1>t DEF NotReady, Place, Halt
<1>6. CASE OnTick
  <2>1. \/ ticker' = NoTick
        \/ \E next \in {"place", "halt"} : ticker' = [NoTick EXCEPT !.pc = "cancel", !.next = next]
    BY <1>6 DEF OnTick
  <2> QED BY <1>6, <1>t, <2>1 DEF OnTick, TickerState
<1>7. CASE Cancel
  <2>1. ticker.pc = "cancel" /\ ticker' = [ticker EXCEPT !.pc = ticker.next] /\ UNCHANGED book
    BY <1>7 DEF Cancel
  <2>2. ticker.next \in {"place", "halt"}
    BY <1>t, <2>1 DEF TickerState, InStep
  <2> QED BY <1>t, <2>1, <2>2 DEF TickerState
<1>8. CASE Passes
  BY <1>8, <1>t DEF Passes, TickerState
<1>9. CASE UNCHANGED <<book, ticker>>
  BY <1>9, <1>t
<1>10. ASSUME DepthArrives \/ UserArrives
       PROVE  \E complete \in BOOLEAN : SetBest(complete)
  BY <1>10 DEF DepthArrives, UserArrives
<1> QED
  BY <1>1, <1>2, <1>3, <1>4, <1>5, <1>6, <1>7, <1>8, <1>9, <1>10
  DEF Next, WSStep, Connects, DialFails, Redials, Disconnects, TickerStep, KeeperFires,
      KeepAliveOk, KeepAliveFails, Signal, Fills, Ends, vars

LEMMA KeyTypes ==
  ASSUME TypeOK, [Next]_vars
  PROVE  /\ key' \in [rounds : 0..2, expired : BOOLEAN]
         /\ keeper' \in {"idle", "first", "second"} /\ unkept' \in 0..2
<1>t. /\ key \in [rounds : 0..2, expired : BOOLEAN]
      /\ keeper \in {"idle", "first", "second"} /\ unkept \in 0..2
  BY DEF TypeOK
<1>1. CASE KeeperFires
  <2>1. \/ key' = key \/ key' = [key EXCEPT !.rounds = 1] \/ key' = [key EXCEPT !.rounds = 2]
        \/ key' = [rounds |-> 2, expired |-> TRUE]
    BY <1>1 DEF KeeperFires
  <2>2. key' \in [rounds : 0..2, expired : BOOLEAN]
    <3>1. CASE key' = key
      BY <1>t, <3>1
    <3>2. CASE key' = [rounds |-> 2, expired |-> TRUE]
      BY <3>2
    <3>3. CASE key' = [key EXCEPT !.rounds = 1] \/ key' = [key EXCEPT !.rounds = 2]
      BY <1>t, <3>3
    <3> QED BY <2>1, <3>1, <3>2, <3>3
  <2> QED BY <1>1, <1>t, <2>2 DEF KeeperFires
<1>2. CASE KeepAliveOk \/ KeepAliveFails
  BY <1>2, <1>t DEF KeepAliveOk, KeepAliveFails
<1>3. CASE UNCHANGED keyVars
  BY <1>3, <1>t DEF keyVars
<1> QED
  BY <1>1, <1>2, <1>3
  DEF Next, WSStep, Connects, DialFails, Redials, Disconnects, TickerStep, DepthArrives,
      UserArrives, TickFires, LooksAtAge, RestAnswers, Rereads, RestFails, NotReady, OnTick,
      Cancel, Place, Halt, TickerEnds, Passes, Signal, Fills, Ends, vars

LEMMA OrderTypes ==
  ASSUME TypeOK, [Next]_vars
  PROVE  /\ submitted' \in [Orders -> {"none", "ack", "closed"}]
         /\ exchange' \in [Orders -> {"none", "live", "over"}]
         /\ held' \in Orders \union {None}
<1>t. /\ submitted \in [Orders -> {"none", "ack", "closed"}]
      /\ exchange \in [Orders -> {"none", "live", "over"}] /\ held \in Orders \union {None}
  BY DEF TypeOK
<1>1. CASE UserArrives
  <2>1. submitted' = submitted \/ \E o : OnOrderUpdate(o)
    BY <1>1 DEF UserArrives
  <2>2. submitted' \in [Orders -> {"none", "ack", "closed"}]
    BY <1>t, <2>1 DEF OnOrderUpdate
  <2> QED BY <1>1, <1>t, <2>2 DEF UserArrives
<1>2. CASE Cancel
  BY <1>2, <1>t DEF Cancel
<1>3. CASE Place
  <2>1. Unused # {} => NextId \in Orders
    BY DEF Unused, NextId
  <2>2. CASE UNCHANGED <<submitted, exchange, held>>
    BY <1>t, <2>2
  <2>3. CASE ~UNCHANGED <<submitted, exchange, held>>
    BY <1>3, <1>t, <2>1, <2>3 DEF Place
  <2> QED BY <2>2, <2>3
<1>4. CASE Halt
  BY <1>4, <1>t DEF Halt
<1>5. ASSUME NEW o \in Orders, Fills(o) \/ Ends(o)
      PROVE  exchange' = [exchange EXCEPT ![o] = "over"] /\ UNCHANGED <<submitted, held>>
  BY <1>5 DEF Fills, Ends
<1>6. CASE \E o \in Orders : Fills(o) \/ Ends(o)
  BY <1>5, <1>6, <1>t
<1>7. CASE UNCHANGED orderVars
  BY <1>7, <1>t DEF orderVars
<1> QED
  BY <1>1, <1>2, <1>3, <1>4, <1>6, <1>7
  DEF Next, WSStep, Connects, DialFails, Redials, Disconnects, TickerStep, DepthArrives,
      TickFires, LooksAtAge, RestAnswers, Rereads, RestFails, NotReady, OnTick, TickerEnds,
      KeeperFires, KeepAliveOk, KeepAliveFails, Passes, Signal, vars

-----------------------------------------------------------------------------
(* The theorems *)

LEMMA InvariantInit == Init => IInv
<1> SUFFICES ASSUME Init PROVE IInv
  OBVIOUS
<1>1. /\ ws = [pc |-> "dial", retries |-> 0] /\ refused = 0 /\ ticker = NoTick
      /\ book \in {[mid |-> TRUE, stamp |-> 0], [mid |-> FALSE, stamp |-> MaxAge + 1]}
      /\ key = [rounds |-> 0, expired |-> FALSE] /\ keeper = "idle" /\ unkept = 0
      /\ stream = <<>> /\ fills = 0 /\ inv = 0
  BY DEF Init
<1>2. stream \in Seq(Message) /\ Len(stream) = 0
  BY <1>1
<1>3. ws \in [pc : {"dial", "read", "sleep", "gone"}, retries : 0..MaxRetries]
  BY <1>1, AgeLemma
<1>n. /\ 0 \in 0..MaxAge + 1 /\ MaxAge + 1 \in 0..MaxAge + 1 /\ 0 \in 0..MaxFills /\ 0 \in 0..0
      /\ 0 \in 0..MaxRetries + 1 /\ 0 \in 0..2 /\ 0 <= MaxStream
  BY AgeLemma
<1>4. book \in [mid : BOOLEAN, stamp : 0..MaxAge + 1]
  <2>1. CASE book = [mid |-> TRUE, stamp |-> 0]
    BY <2>1, <1>n
  <2>2. CASE book = [mid |-> FALSE, stamp |-> MaxAge + 1]
    BY <2>2, <1>n
  <2> QED BY <1>1, <2>1, <2>2
<1>8. ticker \in TickerState
  BY <1>1, <1>n DEF NoTick, TickerState
<1>9. key \in [rounds : 0..2, expired : BOOLEAN]
  BY <1>1, <1>n
<1>5. TypeOK
  <2>1. cancelled \in BOOLEAN /\ unseen \in BOOLEAN /\ held \in Orders \union {None}
    BY DEF Init
  <2>2. /\ submitted \in [Orders -> {"none", "ack", "closed"}]
        /\ exchange \in [Orders -> {"none", "live", "over"}]
    BY DEF Init
  <2> QED BY <1>1, <1>2, <1>3, <1>4, <1>8, <1>9, <1>n, <2>1, <2>2 DEF TypeOK
<1>6. Counted /\ Renewed /\ InStep
  BY <1>1 DEF Counted, Renewed, InStep, NoTick
<1>7. Reported /\ InOrder
  BY <1>1, <1>2 DEF Reported, InOrder
<1> QED BY <1>5, <1>6, <1>7 DEF IInv

LEMMA InvariantStep == IInv /\ [Next]_vars => IInv'
<1> SUFFICES ASSUME IInv, [Next]_vars PROVE IInv'
  OBVIOUS
<1>1. TypeOK'
  BY FeedTypes, BookTypes, KeyTypes, OrderTypes, StreamStep DEF IInv, TypeOK
<1>2. Counted' /\ Renewed' /\ InStep'
  BY CountedStep, RenewedStep, InStepStep DEF IInv
<1>3. Reported' /\ InOrder'
  BY StreamStep DEF IInv
<1> QED BY <1>1, <1>2, <1>3 DEF IInv

\* The goroutines of main keep their types; the tracker never holds more than what filled.
THEOREM RunnerTypes == Spec => []TypeOK
<1>1. IInv => TypeOK
  BY DEF IInv
<1> QED BY <1>1, InvariantInit, InvariantStep, PTL DEF Spec

\* The feed is given up only after MaxRetries + 1 dials in a row have failed, the listen
\* key only after two keep-alives in a row (binance_ws_real.go Run, main.go keepAliveLoop).
THEOREM NoneGivenUpAtOnce == Spec => []FailuresAreRetried
<1>1. IInv => FailuresAreRetried
  BY DEF IInv, Counted, Renewed, FailuresAreRetried
<1> QED BY <1>1, InvariantInit, InvariantStep, PTL DEF Spec

\* Once no account update is on its way, the tracker is wrong only if the report of the
\* last fill was lost, however fills, reports, drops and expiries follow one another.
THEOREM TrackerCatchesUp == Spec => []InventoryCatchesUp
<1>1. IInv => InventoryCatchesUp
  BY DEF IInv, Reported, IsLast, InventoryCatchesUp
<1> QED BY <1>1, InvariantInit, InvariantStep, PTL DEF Spec

\* OnTick quotes around a mid past its limit of age only if the book was written since.
THEOREM OldMidNewBook == Spec => OldMidMeansNewBook
<1>1. ASSUME IInv, [Next]_vars
      PROVE  [Quotes => ticker.age <= GuardLimit \/ ticker.changed]_vars
  <2> SUFFICES ASSUME Quotes, Next
               PROVE  ticker.age <= GuardLimit \/ ticker.changed
    BY <1>1 DEF Quotes, vars, IInv, InStep
  <2>1. ticker.pc = "ready" /\ ticker'.next = "place" /\ ticker.mid /\ ticker.next = "none"
    BY <1>1 DEF Quotes, IInv, InStep
  <2>2. ticker \in TickerState
    BY <1>1 DEF IInv, TypeOK
  <2>3. ticker' # ticker /\ ticker' # NoTick
    BY <2>1 DEF NoTick
  <2>4. OnTick
    <3>1. ~SetBest(TRUE) /\ ~SetBest(FALSE)
      BY <2>1, <2>2 DEF SetBest, TickerState
    <3>2. ~DepthArrives /\ ~UserArrives
      BY <3>1 DEF DepthArrives, UserArrives
    <3>3. ~Passes
      BY <2>1, <2>2 DEF Passes, TickerState
    <3> QED
      BY <2>1, <2>3, <3>2, <3>3
      DEF Next, WSStep, Connects, DialFails, Redials, Disconnects, TickerStep, TickFires,
          LooksAtAge, RestAnswers, Rereads, RestFails, NotReady, Cancel, Place, Halt,
          TickerEnds, KeeperFires, KeepAliveOk, KeepAliveFails, Signal, Fills, Ends
  <2>5. ~(book.stamp > GuardLimit)
    <3>1. ASSUME book.stamp > GuardLimit, NEW next, ticker' = [NoTick EXCEPT !.pc = "cancel",
                                                                       !.next = next]
          PROVE  next = "place"
      BY <2>1, <3>1 DEF NoTick
    <3> QED BY <2>3, <2>4, <3>1 DEF OnTick
  <2>6. book.stamp \in Nat /\ GuardLimit \in Nat
    BY <1>1, AgeLemma DEF IInv, TypeOK
  <2>7. ~ticker.changed => ticker.age = book.stamp
    BY <1>1, <2>1 DEF IInv, InStep
  <2> QED BY <2>5, <2>6, <2>7
<1> QED BY <1>1, InvariantInit, InvariantStep, PTL DEF Spec, OldMidMeansNewBook

=============================================================================
