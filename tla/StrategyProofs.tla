--------------------------- MODULE StrategyProofs ---------------------------
(***************************************************************************)
(* Theorems about QuoteCycle and HotReload: the quotes of the strategy, and *)
(* the reloader that brings it new parameters.                              *)
(***************************************************************************)
EXTENDS QuoteCycle, HotReload, TLAPS

-----------------------------------------------------------------------------
(* QuoteCycle: the bound on the position, for any limit, any quote size, one to three  *)
(* layers, any number of failures and any delay of the reports.                        *)
(*                                                                                    *)
(* What is needed besides the bound: how much the quotes already placed in this tick  *)
(* can have added to what the cancels left (Accounted), and that the order about to be *)
(* submitted respects the limit as the clamp saw it (Respects).                        *)

Accounted ==
  pc \in {"place", "submit"} =>
    \A s \in Sides : AtExchange(s) + todo[s] * MaxLayer <= left[s] + Layers * MaxLayer

Respects ==
  pc = "submit" =>
    /\ todo[order.side] >= 1
    /\ order.size = 0 \/ Toward(order.side, order.net) + order.size <= Largest

IInv == TypeOK /\ Accounted /\ Respects /\ PositionBounded

-----------------------------------------------------------------------------
LEMMA Lots ==
  /\ MaxInv \in Nat /\ MaxLayer \in Nat /\ MaxInv > 0 /\ MaxLayer > 0 /\ Layers \in 1..3
  /\ Largest \in Nat /\ Largest >= MaxInv /\ Largest >= MaxLayer
  BY LotsAssumption DEF Largest

\* One quote fewer to place is one quantity less to account for.
LEMMA OneLess ==
  /\ \A n \in Nat : n * MaxLayer \in Nat
  /\ \A n \in Int : (n - 1) * MaxLayer = n * MaxLayer - MaxLayer
  /\ \A n \in 1..3 : (n - 1) * MaxLayer \in Nat /\ (n - 1) * MaxLayer <= n * MaxLayer
  /\ Layers * MaxLayer \in Nat
<1>1. \A n \in Nat : n * MaxLayer \in Nat
  BY Lots
<1>2. \A n \in Int : (n - 1) * MaxLayer = n * MaxLayer - MaxLayer
  BY Lots
<1>3. \A n \in 1..3 : (n - 1) * MaxLayer \in Nat /\ (n - 1) * MaxLayer <= n * MaxLayer
  BY Lots
<1>4. Layers \in Nat
  BY Lots
<1> QED
  BY <1>1, <1>2, <1>3, <1>4

LEMMA ShrunkFits ==
  ASSUME NEW q \in 0..MaxLayer, NEW t \in Int, NEW max \in 1..MaxInv
  PROVE  Shrunk(q, t, max) \in 0..MaxLayer
<1>1. CASE 10 * t > 8 * max /\ t < max
  <2> DEFINE d == 2 * q * (max - t) + max
             r == d \div (2 * max)
  <2>1. (max - t) \in 1..max
    <3>1. t > 0
      BY <1>1, Lots
    <3> QED
      BY <1>1, <3>1, Lots
  <2>2. 2 * q * (max - t) \in Nat /\ 2 * q * (max - t) <= 2 * q * max
    BY <2>1, Lots
  <2>3. d \in Nat /\ d < (q + 1) * (2 * max)
    <3>1. (q + 1) * (2 * max) = 2 * q * max + 2 * max
      BY Lots
    <3> QED
      BY <2>2, <3>1, Lots
  <2>4. r \in Nat /\ r <= q
    <3>1. r \in Int /\ r * (2 * max) <= d /\ d < (r + 1) * (2 * max)
      BY <2>3, Lots
    <3>2. r >= 0
      BY <2>3, <3>1, Lots
    <3>3. ~(r >= q + 1)
      BY <2>3, <3>1, <3>2, Lots
    <3> QED
      BY <3>1, <3>2, <3>3, Lots
  <2>5. Shrunk(q, t, max) = r
    BY <1>1, Lots DEF Shrunk
  <2> QED
    BY <2>4, <2>5, Lots
<1>2. CASE ~(10 * t > 8 * max /\ t < max)
  BY <1>2, Lots DEF Shrunk
<1> QED
  BY <1>1, <1>2

LEMMA TowardInt == \A s \in Sides, q \in Int : Toward(s, q) \in Int
  BY DEF Toward

LEMMA TurnIsSide == Turn \in Sides
  BY DEF Turn, Sides

\* What the clamp lets pass has a quantity and respects the limit on its side.
LEMMA ClampRespects ==
  ASSUME NEW s \in Sides, NEW q \in 0..MaxLayer, NEW n \in Int, NEW max \in 1..MaxInv,
         Abs(n + Toward(s, q)) > Abs(n) => max > Abs(n)
  PROVE  /\ Clamped(s, q, n, max) \in 0..MaxLayer
         /\ Clamped(s, q, n, max) = 0 \/ Toward(s, n) + Clamped(s, q, n, max) <= Largest
<1>1. CASE s = "BUY"
  BY <1>1, Lots DEF Clamped, Toward, Abs
<1>2. CASE s = "SELL"
  BY <1>2, Lots DEF Clamped, Toward, Abs
<1> QED
  BY <1>1, <1>2 DEF Sides

-----------------------------------------------------------------------------
LEMMA InitHolds == Init => IInv
<1> SUFFICES ASSUME Init PROVE IInv
  OBVIOUS
<1>1. TypeOK
  BY Lots, BoundsAssumption DEF Init, TypeOK, NotSeen, NoOrder, Sides
<1>2. PositionBounded
  BY Lots, OneLess DEF Init, PositionBounded, Position, AtExchange, Toward, Sides
<1> QED
  BY <1>1, <1>2 DEF Init, IInv, Accounted, Respects

\* Steps that touch neither what is at the exchange nor what is counted.
LEMMA Quiet ==
  ASSUME IInv, TypeOK', UNCHANGED <<market, ghosts>>,
         pc' \notin {"place", "submit"}
  PROVE  IInv'
  BY DEF IInv, Accounted, Respects, PositionBounded, Position, AtExchange, market, ghosts

LEMMA KeepsParameters == IInv /\ UpdateParameters => IInv'
  BY DEF IInv, TypeOK, UpdateParameters, tick, market, ghosts, Accounted, Respects,
         PositionBounded, Position, AtExchange

LEMMA KeepsLooks == IInv /\ TickLooks => IInv'
<1> SUFFICES ASSUME IInv, TickLooks PROVE IInv'
  OBVIOUS
<1>1. TypeOK'
  BY DEF IInv, TypeOK, TickLooks, market, ghosts
<1> QED
  BY <1>1, Quiet DEF TickLooks

LEMMA KeepsQuotes == IInv /\ TickQuotes => IInv'
<1> SUFFICES ASSUME IInv, TickQuotes PROVE IInv'
  OBVIOUS
<1>1. \A s \in Sides : QuoteSize(s, config.layer) \in 0..MaxLayer
  <2> TAKE s \in Sides
  <2>1. config.layer \in 0..MaxLayer /\ Toward(s, seen.net) \in Int /\ seen.maxInv \in 1..MaxInv
    BY Lots, TowardInt DEF IInv, TypeOK
  <2>2. Shrunk(config.layer, Toward(s, seen.net), seen.maxInv) \in 0..MaxLayer
    BY <2>1, ShrunkFits
  <2> QED
    BY <2>1, <2>2 DEF QuoteSize
<1>2. TypeOK'
  BY <1>1, Lots DEF IInv, TypeOK, TickQuotes, NotSeen, market, ghosts
<1> QED
  BY <1>2, Quiet DEF TickQuotes

LEMMA KeepsCancels == IInv /\ CancelAllOrders => IInv'
<1> SUFFICES ASSUME IInv, CancelAllOrders PROVE IInv'
  OBVIOUS
<1>0. TypeOK
  BY DEF IInv
<1>1. /\ resting' \in [Sides -> Nat] /\ \A s \in Sides : resting'[s] <= resting[s]
      /\ failures' \in 0..MaxFailures
  <2>1. CASE resting' = [s \in Sides |-> 0] /\ UNCHANGED failures
    BY <1>0, <2>1 DEF TypeOK
  <2>2. CASE /\ failures < MaxFailures /\ failures' = failures + 1
             /\ resting' \in Kept
    <3>1. /\ resting' = [s \in Sides |-> IF s = "BUY" THEN resting'.BUY ELSE resting'.SELL]
          /\ resting'.BUY \in 0..resting["BUY"] /\ resting'.SELL \in 0..resting["SELL"]
      BY <2>2 DEF Kept, Sides
    <3> QED
      BY <1>0, <2>2, <3>1, BoundsAssumption DEF TypeOK, Sides
  <2> QED
    BY <2>1, <2>2 DEF CancelAllOrders
<1>2. left' = [s \in Sides |-> resting'[s] + orphans[s]]
  BY DEF CancelAllOrders
<1>3. TypeOK'
  <2>1. left' \in [Sides -> Nat]
    BY <1>0, <1>1, <1>2 DEF TypeOK
  <2> QED
    BY <1>0, <1>1, <2>1 DEF TypeOK, CancelAllOrders
<1>4. Accounted'
  <2> SUFFICES ASSUME NEW s \in Sides
               PROVE  AtExchange(s)' + todo'[s] * MaxLayer <= left'[s] + Layers * MaxLayer
    BY DEF Accounted
  <2>1. AtExchange(s)' = left'[s] /\ left'[s] \in Nat /\ todo'[s] \in 0..Layers
    BY <1>2, <1>3 DEF AtExchange, CancelAllOrders, TypeOK
  <2>2. todo'[s] * MaxLayer <= Layers * MaxLayer /\ todo'[s] * MaxLayer \in Nat /\ Layers * MaxLayer \in Nat
    BY <2>1, Lots
  <2> QED
    BY <2>1, <2>2
<1>5. PositionBounded'
  <2> SUFFICES ASSUME NEW s \in Sides
               PROVE  Toward(s, Position') + AtExchange(s)' <=
                        Largest + (Layers - 1) * MaxLayer + blind'[s]
    BY DEF PositionBounded
  <2>1. Position' = Position /\ blind' = blind /\ orphans' = orphans
    BY DEF CancelAllOrders, Position
  <2>2. AtExchange(s)' <= AtExchange(s) /\ AtExchange(s) \in Nat /\ AtExchange(s)' \in Nat
    BY <1>0, <1>1, <2>1 DEF AtExchange, TypeOK
  <2>3. Toward(s, Position) \in Int
    BY <1>0 DEF TypeOK, Position, Toward, Sides
  <2>4. Toward(s, Position) + AtExchange(s) <= Largest + (Layers - 1) * MaxLayer + blind[s]
    BY DEF IInv, PositionBounded
  <2>5. (Layers - 1) * MaxLayer \in Nat /\ blind[s] \in Nat
    BY <1>0, Lots, OneLess DEF TypeOK
  <2> QED
    BY <2>1, <2>2, <2>3, <2>4, <2>5, Lots
<1>6. Respects'
  BY DEF Respects, CancelAllOrders
<1> QED
  BY <1>3, <1>4, <1>5, <1>6 DEF IInv

LEMMA KeepsClamp == IInv /\ ClampOrder => IInv'
<1> SUFFICES ASSUME IInv, ClampOrder PROVE IInv'
  OBVIOUS
<1>0. TypeOK /\ Turn \in Sides /\ todo[Turn] \in 1..Layers /\ pc = "place"
  BY TurnIsSide, Lots DEF IInv, TypeOK, ClampOrder
<1>1. PositionBounded'
  BY DEF IInv, PositionBounded, Position, AtExchange, ClampOrder, market, ghosts
<1> DEFINE q == Clamped(Turn, size[Turn], net, config.maxInv)
<1>2. CASE /\ Abs(net + Toward(Turn, size[Turn])) > Abs(net) => config.maxInv > Abs(net)
           /\ pc' = "submit" /\ order' = [side |-> Turn, net |-> net, size |-> q]
           /\ UNCHANGED todo
  <2>1. q \in 0..MaxLayer /\ (q = 0 \/ Toward(Turn, net) + q <= Largest)
    <3>1. size[Turn] \in 0..MaxLayer /\ net \in Int /\ config.maxInv \in 1..MaxInv
      BY <1>0 DEF TypeOK
    <3> QED
      BY <1>0, <1>2, <3>1, ClampRespects
  <2> HIDE DEF q
  <2>2. order' \in [side : Sides, size : 0..MaxLayer, net : Int]
    BY <1>0, <1>2, <2>1 DEF TypeOK
  <2>3. TypeOK'
    BY <1>0, <1>2, <2>2 DEF TypeOK, ClampOrder, market, ghosts
  <2>4. Respects'
    <3>1. order'.side = Turn /\ order'.net = net /\ order'.size = q /\ todo' = todo
      BY <1>2
    <3> QED
      BY <1>0, <2>1, <3>1 DEF Respects, Largest
  <2>5. Accounted'
    BY <1>0, <1>2 DEF IInv, Accounted, AtExchange, ClampOrder, market, ghosts
  <2> QED
    BY <1>1, <2>3, <2>4, <2>5 DEF IInv
<1>3. CASE todo' = [todo EXCEPT ![Turn] = todo[Turn] - 1] /\ UNCHANGED <<pc, order>>
  <2>1. TypeOK'
    BY <1>0, <1>3, Lots DEF TypeOK, ClampOrder, market, ghosts
  <2>2. Accounted'
    <3> SUFFICES ASSUME NEW s \in Sides
                 PROVE  AtExchange(s) + todo'[s] * MaxLayer <= left[s] + Layers * MaxLayer
      BY DEF Accounted, AtExchange, ClampOrder, market, ghosts
    <3>1. AtExchange(s) + todo[s] * MaxLayer <= left[s] + Layers * MaxLayer
      BY <1>0 DEF IInv, Accounted
    <3>2. todo'[s] * MaxLayer <= todo[s] * MaxLayer
          /\ todo'[s] * MaxLayer \in Int /\ todo[s] * MaxLayer \in Int
      BY <1>0, <1>3, <2>1, OneLess, Lots DEF TypeOK
    <3>3. AtExchange(s) \in Nat /\ left[s] \in Nat /\ Layers * MaxLayer \in Nat
      BY <1>0, Lots, OneLess DEF TypeOK, AtExchange
    <3> QED
      BY <3>1, <3>2, <3>3
  <2>3. Respects'
    BY <1>0, <1>3 DEF Respects
  <2> QED
    BY <1>1, <2>1, <2>2, <2>3 DEF IInv
<1> QED
  BY <1>2, <1>3 DEF ClampOrder

LEMMA KeepsSubmit == IInv /\ Submit => IInv'
<1> SUFFICES ASSUME IInv, Submit PROVE IInv'
  OBVIOUS
<1> DEFINE s == order.side
<1>0. TypeOK /\ s \in Sides /\ order.size \in 0..MaxLayer /\ order.net \in Int
      /\ todo[s] \in 1..Layers /\ pc = "submit" /\ Unknown(s) \in Int
  <2>1. TypeOK /\ s \in Sides /\ order.size \in 0..MaxLayer /\ order.net \in Int /\ pc = "submit"
    BY DEF IInv, TypeOK, Submit
  <2>2. todo[s] \in 1..Layers
    BY <2>1, Lots DEF IInv, Respects, TypeOK
  <2>3. Unknown(s) \in Int
    BY <2>1 DEF TypeOK, Unknown, Position, Toward, Sides
  <2> QED
    BY <2>1, <2>2, <2>3
<1>1. /\ todo' = [todo EXCEPT ![s] = todo[s] - 1]
      /\ blind' = [blind EXCEPT ![s] = IF Unknown(s) > blind[s] THEN Unknown(s) ELSE blind[s]]
      /\ pc' = "place" /\ order' = NoOrder
      /\ UNCHANGED <<config, seen, size, net, unreported, left>>
  BY DEF Submit
<1>2. /\ resting' \in [Sides -> Nat] /\ orphans' \in [Sides -> Nat] /\ failures' \in 0..MaxFailures
      /\ \A t \in Sides : AtExchange(t)' <= AtExchange(t) + (IF t = s THEN order.size ELSE 0)
  <2>1. CASE resting' = [resting EXCEPT ![s] = resting[s] + order.size] /\ UNCHANGED <<orphans, failures>>
    BY <1>0, <2>1 DEF TypeOK, AtExchange
  <2>2. CASE UNCHANGED <<resting, orphans, failures>>
    BY <1>0, <2>2 DEF TypeOK, AtExchange
  <2>3. CASE /\ failures < MaxFailures /\ failures' = failures + 1
             /\ orphans' = [orphans EXCEPT ![s] = orphans[s] + order.size]
             /\ UNCHANGED resting
    BY <1>0, <2>3, BoundsAssumption DEF TypeOK, AtExchange
  <2> QED
    BY <2>1, <2>2, <2>3 DEF Submit
<1>3. blind' \in [Sides -> Nat] /\ blind'[s] >= Unknown(s) /\ \A t \in Sides : blind'[t] >= blind[t]
  BY <1>0, <1>1 DEF TypeOK
<1>4. TypeOK'
  <2>1. order' \in [side : Sides, size : 0..MaxLayer, net : Int]
    BY <1>1, Lots DEF NoOrder, Sides
  <2>2. todo' \in [Sides -> 0..Layers]
    BY <1>0, <1>1, Lots DEF TypeOK
  <2> QED
    BY <1>0, <1>1, <1>2, <1>3, <2>1, <2>2 DEF TypeOK
<1>5. ASSUME NEW t \in Sides
      PROVE  AtExchange(t) \in Nat /\ AtExchange(t)' \in Nat /\ left[t] \in Nat
             /\ todo[t] * MaxLayer \in Nat /\ Layers * MaxLayer \in Nat
             /\ AtExchange(t) + todo[t] * MaxLayer <= left[t] + Layers * MaxLayer
  <2>1. AtExchange(t) + todo[t] * MaxLayer <= left[t] + Layers * MaxLayer
    BY <1>0 DEF IInv, Accounted
  <2>2. AtExchange(t) \in Nat /\ AtExchange(t)' \in Nat /\ left[t] \in Nat /\ todo[t] \in Nat
    BY <1>0, <1>2, Lots DEF TypeOK, AtExchange
  <2>3. todo[t] * MaxLayer \in Nat
    BY <2>2, OneLess
  <2> QED
    BY <2>1, <2>2, <2>3, OneLess
<1>6. Accounted'
  <2> SUFFICES ASSUME NEW t \in Sides
               PROVE  AtExchange(t)' + todo'[t] * MaxLayer <= left[t] + Layers * MaxLayer
    BY <1>1 DEF Accounted
  <2>1. CASE t = s
    <3>1. todo'[t] * MaxLayer = todo[t] * MaxLayer - MaxLayer
      BY <1>0, <1>1, <2>1, OneLess DEF TypeOK
    <3> QED
      BY <1>0, <1>2, <1>5, <2>1, <3>1, Lots
  <2>2. CASE t # s
    <3>1. todo'[t] = todo[t]
      BY <1>0, <1>1, <2>2 DEF TypeOK
    <3> QED
      BY <1>2, <1>5, <2>2, <3>1
  <2> QED
    BY <2>1, <2>2
<1>7. PositionBounded'
  <2> SUFFICES ASSUME NEW t \in Sides
               PROVE  Toward(t, Position) + AtExchange(t)' <=
                        Largest + (Layers - 1) * MaxLayer + blind'[t]
    BY <1>1 DEF PositionBounded, Position
  <2>0. /\ Toward(t, Position) \in Int /\ blind[t] \in Nat /\ blind'[t] \in Nat
        /\ (Layers - 1) * MaxLayer \in Nat
        /\ (Layers - 1) * MaxLayer = Layers * MaxLayer - MaxLayer
        /\ Toward(t, Position) + AtExchange(t) <= Largest + (Layers - 1) * MaxLayer + blind[t]
    <3>1. Toward(t, Position) \in Int
      BY <1>0 DEF TypeOK, Position, Toward, Sides
    <3>2. Toward(t, Position) + AtExchange(t) <= Largest + (Layers - 1) * MaxLayer + blind[t]
      BY DEF IInv, PositionBounded
    <3> QED
      BY <1>0, <1>3, <3>1, <3>2, OneLess, Lots DEF TypeOK
  <2>1. CASE t # s \/ order.size = 0
    <3>1. AtExchange(t)' <= AtExchange(t)
      BY <1>0, <1>2, <1>5, <2>1
    <3> QED
      BY <1>3, <1>5, <2>0, <3>1, Lots
  <2>2. CASE t = s /\ order.size # 0
    <3>1. Toward(s, order.net) + order.size <= Largest
      BY <1>0, <2>2 DEF IInv, Respects
    <3>2. Unknown(s) = Toward(s, Position) - Toward(s, order.net) + left[s]
      BY <1>0 DEF TypeOK, Unknown, Position, Toward, Sides
    <3>3. MaxLayer <= todo[s] * MaxLayer
      BY <1>0, Lots
    <3>4. AtExchange(s) <= left[s] + Layers * MaxLayer - MaxLayer
      BY <1>0, <1>5, <3>3, Lots
    <3>5. Toward(s, order.net) \in Int
      BY <1>0, TowardInt
    <3> QED
      BY <1>0, <1>2, <1>3, <1>5, <2>0, <2>2, <3>1, <3>2, <3>4, <3>5, Lots
  <2> QED
    BY <2>1, <2>2
<1>8. Respects'
  BY <1>1 DEF Respects
<1> QED
  BY <1>4, <1>6, <1>7, <1>8 DEF IInv

LEMMA KeepsEnds == IInv /\ TickEnds => IInv'
<1> SUFFICES ASSUME IInv, TickEnds PROVE IInv'
  OBVIOUS
<1>1. TypeOK'
  BY DEF IInv, TypeOK, TickEnds, market, ghosts
<1> QED
  BY <1>1, Quiet DEF TickEnds

\* A fill moves quantity from the exchange into the position.
LEMMA KeepsFill == \A f \in Sides : IInv /\ (FillResting(f) \/ FillOrphan(f)) => IInv'
<1> SUFFICES ASSUME NEW f \in Sides, IInv, FillResting(f) \/ FillOrphan(f) PROVE IInv'
  OBVIOUS
<1>0. TypeOK
  BY DEF IInv
<1>1. PICK q \in Nat \ {0} :
        /\ unreported' = [unreported EXCEPT ![f] = unreported[f] + q]
        /\ resting' \in [Sides -> Nat] /\ orphans' \in [Sides -> Nat]
        /\ \A t \in Sides : AtExchange(t)' = AtExchange(t) - (IF t = f THEN q ELSE 0)
        /\ UNCHANGED <<config, tick, net, ghosts>>
  <2>1. CASE FillResting(f)
    <3>1. PICK q \in 1..resting[f] :
            /\ resting' = [resting EXCEPT ![f] = resting[f] - q]
            /\ unreported' = [unreported EXCEPT ![f] = unreported[f] + q]
      BY <2>1 DEF FillResting
    <3>2. UNCHANGED <<config, tick, net, orphans, ghosts>>
      BY <2>1 DEF FillResting
    <3>3. q \in Nat \ {0} /\ resting' \in [Sides -> Nat] /\ orphans' \in [Sides -> Nat]
      BY <1>0, <3>1, <3>2 DEF TypeOK
    <3>4. \A t \in Sides : AtExchange(t)' = AtExchange(t) - (IF t = f THEN q ELSE 0)
      BY <1>0, <3>1, <3>2, <3>3 DEF TypeOK, AtExchange
    <3> QED
      BY <3>1, <3>2, <3>3, <3>4
  <2>2. CASE FillOrphan(f)
    <3>1. PICK q \in 1..orphans[f] :
            /\ orphans' = [orphans EXCEPT ![f] = orphans[f] - q]
            /\ unreported' = [unreported EXCEPT ![f] = unreported[f] + q]
      BY <2>2 DEF FillOrphan
    <3>2. UNCHANGED <<config, tick, net, resting, ghosts>>
      BY <2>2 DEF FillOrphan
    <3>3. q \in Nat \ {0} /\ resting' \in [Sides -> Nat] /\ orphans' \in [Sides -> Nat]
      BY <1>0, <3>1, <3>2 DEF TypeOK
    <3>4. \A t \in Sides : AtExchange(t)' = AtExchange(t) - (IF t = f THEN q ELSE 0)
      BY <1>0, <3>1, <3>2, <3>3 DEF TypeOK, AtExchange
    <3> QED
      BY <3>1, <3>2, <3>3, <3>4
  <2> QED
    BY <2>1, <2>2
<1>2. TypeOK'
  BY <1>0, <1>1 DEF TypeOK, tick, ghosts
<1>3. \A t \in Sides : AtExchange(t) \in Nat /\ todo[t] * MaxLayer \in Nat /\ left[t] \in Nat
  BY <1>0, OneLess DEF TypeOK, AtExchange
<1>4. Accounted'
  <2> SUFFICES ASSUME NEW t \in Sides, pc \in {"place", "submit"}
               PROVE  AtExchange(t)' + todo[t] * MaxLayer <= left[t] + Layers * MaxLayer
    BY <1>1 DEF Accounted, tick, ghosts
  <2>1. AtExchange(t) + todo[t] * MaxLayer <= left[t] + Layers * MaxLayer
    BY DEF IInv, Accounted
  <2>2. AtExchange(t)' <= AtExchange(t) /\ AtExchange(t)' \in Int
    BY <1>1, <1>3
  <2>3. Layers * MaxLayer \in Int
    BY OneLess
  <2> QED
    BY <1>3, <2>1, <2>2, <2>3
<1>5. PositionBounded'
  <2> SUFFICES ASSUME NEW t \in Sides
               PROVE  Toward(t, Position') + AtExchange(t)' <= Largest + (Layers - 1) * MaxLayer + blind[t]
    BY <1>1 DEF PositionBounded, ghosts
  <2>1. Toward(t, Position) + AtExchange(t) <= Largest + (Layers - 1) * MaxLayer + blind[t]
    BY DEF IInv, PositionBounded
  <2>2. Toward(t, Position) \in Int /\ Toward(t, Position') \in Int
        /\ Toward(t, Position') <= Toward(t, Position) + (IF t = f THEN q ELSE 0)
    BY <1>0, <1>1, <1>2 DEF TypeOK, Position, Toward, Sides
  <2>3. (Layers - 1) * MaxLayer \in Nat /\ blind[t] \in Nat
    BY <1>0, OneLess, Lots DEF TypeOK
  <2> QED
    BY <1>1, <1>3, <2>1, <2>2, <2>3, Lots
<1>6. Respects'
  BY <1>1 DEF IInv, Respects, tick, Largest
<1> QED
  BY <1>2, <1>4, <1>5, <1>6 DEF IInv

\* A report changes what is known of the position, not the position.
LEMMA KeepsUpdate == \A f \in Sides : IInv /\ Update(f) => IInv'
<1> SUFFICES ASSUME NEW f \in Sides, IInv, Update(f) PROVE IInv'
  OBVIOUS
<1>0. TypeOK
  BY DEF IInv
<1>1. PICK q \in 1..unreported[f] :
        /\ net' = net + Toward(f, q)
        /\ unreported' = [unreported EXCEPT ![f] = unreported[f] - q]
  BY DEF Update
<1>2. TypeOK'
  BY <1>0, <1>1 DEF TypeOK, Update, Toward, tick, ghosts
<1>3. Position' = Position
  BY <1>0, <1>1 DEF TypeOK, Position, Toward, Sides
<1> QED
  BY <1>2, <1>3 DEF IInv, Update, Accounted, Respects, PositionBounded, AtExchange, tick, ghosts

LEMMA KeepsStutter == IInv /\ UNCHANGED vars => IInv'
  BY DEF IInv, TypeOK, vars, tick, market, ghosts, Accounted, Respects, PositionBounded,
         Position, AtExchange

THEOREM Inductive == Spec => []IInv
<1>1. IInv /\ [Next]_vars => IInv'
  <2>1. IInv /\ TickStep => IInv'
    BY KeepsLooks, KeepsQuotes, KeepsCancels, KeepsClamp, KeepsSubmit, KeepsEnds DEF TickStep
  <2> QED
    BY <2>1, KeepsParameters, KeepsFill, KeepsUpdate, KeepsStutter DEF Next
<1> QED
  BY InitHolds, <1>1, PTL DEF Spec

\* The state of the cycle is well typed; above all, no quote is larger than the largest
\* configured one, and none has a negative quantity.
THEOREM QuotesAreSound == Spec => []TypeOK
<1>1. IInv => TypeOK
  BY DEF IInv
<1> QED
  BY Inductive, <1>1, PTL

\* Whatever fills, fails, is reported late or reconfigured: with everything at the
\* exchange filled, the position exceeds the limit by no more than the other quotes of
\* one tick and what no Submit could see.
THEOREM Bounded == Spec => []PositionBounded
<1>1. IInv => PositionBounded
  BY DEF IInv
<1> QED
  BY Inductive, <1>1, PTL

-----------------------------------------------------------------------------
(* HotReload, for any number of Starts, Stops and ApplyParameters, and any bound on    *)
(* the writes.                                                                         *)

\* Whoever is in the reload holds h.mu, and nobody else does.
Locked ==
  /\ mu # NoOne => watch[mu] \in {"reload", "handling", "stuck"}
  /\ \A w \in Watchers : watch[w] \in {"reload", "handling", "stuck"} => mu = w

\* The version a handler has read is not older than the one loaded.
Forward ==
  \A w \in Watchers : got[w] <= file /\ (watch[w] = "handling" => loaded <= got[w])

\* doneChan is closed by a goroutine that has ended; a Stop that returned in time has
\* seen it closed; and a reloader that is not enabled has no goroutine.
Done ==
  /\ doneClosed => \E w \in Watchers : watch[w] = "ended"
  /\ \A s \in Stoppers : stops[s] = "stopped" => doneClosed \/ ~enabled
  /\ ~enabled => \A w \in Watchers : watch[w] = "off"

\* Only a Stop closes stopChan, and with one Start and one Stop no channel twice.
Closed ==
  /\ stopClosed => \E s \in Stoppers : stops[s] \in {"wait", "stopped", "timedout"}
  /\ OneStart /\ OneStop => ~panicked

\* Unless one was dropped, a change that is not loaded still has an event, or a
\* goroutine that will read it or has read it.
Pending ==
  ~missed /\ file # loaded =>
    \/ events > 0
    \/ \E w \in Watchers : watch[w] \in {"lock", "reload", "stuck"}
    \/ \E w \in Watchers : watch[w] = "handling" /\ got[w] = file

HRInv == HRTypeOK /\ Locked /\ Forward /\ Done /\ Closed /\ Pending

\* The goroutine, by itself: everything about Stop stays as it is.
LEMMA TypeWatch ==
  ASSUME HRTypeOK, Forward, NEW w \in Watchers, Start(w) \/ WatchStep(w) \/ LoopEnds(w)
  PROVE  HRTypeOK'
<1> USE DEF HRTypeOK, Forward, settings, reload, disk, ends, Goto
<1>1. CASE Start(w)
  BY <1>1 DEF Start
<1>2. CASE TakesEvent(w)
  BY <1>2 DEF TakesEvent
<1>3. CASE Cooling(w)
  BY <1>3 DEF Cooling
<1>4. CASE Locks(w)
  BY <1>4 DEF Locks
<1>5. CASE HandlerReads(w)
  BY <1>5 DEF HandlerReads
<1>6. CASE HandlerFails(w)
  BY <1>6 DEF HandlerFails
<1>7. CASE HandlerReenters(w)
  BY <1>7 DEF HandlerReenters
<1>8. CASE HandlerApplies(w)
  <2>1. got[w] \in 0..MaxWrites /\ got[w] <= file /\ file \in 0..MaxWrites
    OBVIOUS
  <2>2. loaded' \in 0..file' /\ file' \in 0..MaxWrites
    BY <1>8, <2>1, WritesAssumption DEF HandlerApplies
  <2> QED
    BY <1>8, <2>2 DEF HandlerApplies
<1>9. CASE NothingReloads(w)
  BY <1>9 DEF NothingReloads
<1>10. CASE LoopEnds(w)
  BY <1>10 DEF LoopEnds
<1> QED
  BY <1>1, <1>2, <1>3, <1>4, <1>5, <1>6, <1>7, <1>8, <1>9, <1>10 DEF WatchStep, Handles

LEMMA LockedWatch ==
  ASSUME HRTypeOK, Locked, NEW w \in Watchers, Start(w) \/ WatchStep(w) \/ LoopEnds(w)
  PROVE  Locked'
<1> USE NoOneAssumption DEF HRTypeOK, Locked, settings, reload, disk, ends, Goto
<1>1. CASE Start(w)
  BY <1>1 DEF Start
<1>2. CASE TakesEvent(w)
  BY <1>2 DEF TakesEvent
<1>3. CASE Cooling(w)
  BY <1>3 DEF Cooling
<1>4. CASE Locks(w)
  BY <1>4 DEF Locks
<1>5. CASE HandlerReads(w)
  BY <1>5 DEF HandlerReads
<1>6. CASE HandlerFails(w)
  BY <1>6 DEF HandlerFails
<1>7. CASE HandlerReenters(w)
  BY <1>7 DEF HandlerReenters
<1>8. CASE HandlerApplies(w)
  BY <1>8 DEF HandlerApplies
<1>9. CASE NothingReloads(w)
  BY <1>9 DEF NothingReloads
<1>10. CASE LoopEnds(w)
  BY <1>10 DEF LoopEnds
<1> QED
  BY <1>1, <1>2, <1>3, <1>4, <1>5, <1>6, <1>7, <1>8, <1>9, <1>10 DEF WatchStep, Handles

LEMMA ForwardWatch ==
  ASSUME HRTypeOK, Locked, Forward, NEW w \in Watchers, Start(w) \/ WatchStep(w) \/ LoopEnds(w)
  PROVE  Forward'
<1> USE DEF HRTypeOK, Locked, Forward, settings, reload, disk, ends, Goto
<1>1. CASE Start(w)
  BY <1>1 DEF Start
<1>2. CASE TakesEvent(w)
  BY <1>2 DEF TakesEvent
<1>3. CASE Cooling(w)
  BY <1>3 DEF Cooling
<1>4. CASE Locks(w)
  BY <1>4 DEF Locks
<1>5. CASE HandlerReads(w)
  BY <1>5 DEF HandlerReads
<1>6. CASE HandlerFails(w)
  BY <1>6 DEF HandlerFails
<1>7. CASE HandlerReenters(w)
  BY <1>7 DEF HandlerReenters
<1>8. CASE HandlerApplies(w)
  BY <1>8 DEF HandlerApplies
<1>9. CASE NothingReloads(w)
  BY <1>9 DEF NothingReloads
<1>10. CASE LoopEnds(w)
  BY <1>10 DEF LoopEnds
<1> QED
  BY <1>1, <1>2, <1>3, <1>4, <1>5, <1>6, <1>7, <1>8, <1>9, <1>10 DEF WatchStep, Handles

LEMMA DoneWatch ==
  ASSUME HRTypeOK, Done, NEW w \in Watchers, Start(w) \/ WatchStep(w) \/ LoopEnds(w)
  PROVE  Done'
<1> USE DEF HRTypeOK, Done, settings, reload, disk, ends, Goto
<1>1. CASE Start(w)
  BY <1>1 DEF Start
<1>2. CASE TakesEvent(w)
  BY <1>2 DEF TakesEvent
<1>3. CASE Handles(w)
  BY <1>3 DEF Handles, Cooling, NothingReloads, Locks, HandlerReads, HandlerFails,
              HandlerReenters, HandlerApplies
<1>4. CASE LoopEnds(w)
  BY <1>4 DEF LoopEnds
<1> QED
  BY <1>1, <1>2, <1>3, <1>4 DEF WatchStep

\* A goroutine that ends finds doneChan closed only by another, after a second Start.
LEMMA ClosedWatch ==
  ASSUME HRTypeOK, Done, Closed, NEW w \in Watchers, Start(w) \/ WatchStep(w) \/ LoopEnds(w)
  PROVE  Closed'
<1> USE DEF HRTypeOK, Goto, settings, reload, disk, ends
<1>1. UNCHANGED <<stopClosed, stops>>
  BY DEF Start, WatchStep, Handles, LoopEnds, TakesEvent, Cooling, NothingReloads, Locks,
         HandlerReads, HandlerFails, HandlerReenters, HandlerApplies
<1>2. Started \subseteq Started'
  BY DEF Started, Start, WatchStep, Handles, LoopEnds, TakesEvent, Cooling, NothingReloads, Locks,
         HandlerReads, HandlerFails, HandlerReenters, HandlerApplies
<1>3. OneStart' /\ OneStop' => OneStart /\ OneStop
  BY <1>1, <1>2 DEF OneStart, OneStop
<1>4. CASE LoopEnds(w)
  <2>1. OneStart => ~doneClosed
    BY <1>4 DEF Done, OneStart, Started, LoopEnds
  <2> QED
    BY <1>1, <1>3, <1>4, <2>1 DEF Closed, LoopEnds
<1>5. CASE ~LoopEnds(w)
  <2>1. UNCHANGED panicked
    BY <1>5 DEF Start, WatchStep, Handles, TakesEvent, Cooling, NothingReloads, Locks,
                HandlerReads, HandlerFails, HandlerReenters, HandlerApplies
  <2> QED
    BY <1>1, <1>3, <2>1 DEF Closed
<1> QED
  BY <1>4, <1>5

LEMMA PendingWatch ==
  ASSUME HRTypeOK, Locked, Forward, Pending,
         NEW w \in Watchers, Start(w) \/ WatchStep(w) \/ LoopEnds(w)
  PROVE  Pending'
<1> USE DEF HRTypeOK, Pending, settings, reload, disk, ends, Goto
<1>1. CASE Start(w)
  BY <1>1 DEF Start
<1>2. CASE TakesEvent(w)
  BY <1>2 DEF TakesEvent
<1>3. CASE Cooling(w)
  BY <1>3 DEF Cooling
<1>4. CASE Locks(w)
  BY <1>4 DEF Locks
<1>5. CASE HandlerReads(w)
  BY <1>5 DEF HandlerReads
<1>6. CASE HandlerFails(w)
  BY <1>6 DEF HandlerFails
<1>7. CASE HandlerReenters(w)
  BY <1>7 DEF HandlerReenters
<1>8. CASE HandlerApplies(w)
  BY <1>8 DEF HandlerApplies, Locked, Forward
<1>9. CASE NothingReloads(w)
  BY <1>9 DEF NothingReloads
<1>10. CASE LoopEnds(w)
  BY <1>10 DEF LoopEnds
<1> QED
  BY <1>1, <1>2, <1>3, <1>4, <1>5, <1>6, <1>7, <1>8, <1>9, <1>10 DEF WatchStep, Handles

-----------------------------------------------------------------------------
(* Stop, the callers, the clock and the file *)

LEMMA StopKeeps ==
  ASSUME HRInv, NEW s \in Stoppers, StopLooks(s) \/ StopStep(s) \/ StopDisabled(s)
  PROVE  HRInv'
<1> USE DEF HRInv, HRTypeOK, settings, reload, disk, ends, ClosesWatcher
<1>1. HRTypeOK'
  <2>1. CASE StopLooks(s) \/ StopCloses(s)
    BY <2>1 DEF StopLooks, StopCloses
  <2>2. CASE StopSeesDone(s) \/ StopTimesOut(s) \/ StopDisabled(s)
    <3>1. stops' \in [Stoppers -> {"idle", "close", "wait", "stopped", "timedout"}]
      BY <2>2 DEF StopSeesDone, StopTimesOut, StopDisabled
    <3>2. missed' \in BOOLEAN
      BY <2>2 DEF StopSeesDone, StopTimesOut, StopDisabled
    <3>3. watcherOpen' = FALSE /\ watched' = FALSE /\ events' = 0
      BY <2>2 DEF StopSeesDone, StopTimesOut, StopDisabled
    <3>4. UNCHANGED <<settings, reload, file, stopClosed, doneClosed, cancelled, api, panicked>>
      BY <2>2 DEF StopSeesDone, StopTimesOut, StopDisabled
    <3>5. /\ watch' = watch /\ got' = got /\ mu' = mu /\ loaded' = loaded /\ file' = file
          /\ api' = api /\ events' = 0
      BY <3>3, <3>4
    <3>6. /\ enabled' = enabled /\ handler' = handler /\ cooled' = cooled /\ stopClosed' = stopClosed
          /\ doneClosed' = doneClosed /\ cancelled' = cancelled /\ panicked' = panicked
      BY <3>4
    <3>7. /\ enabled' \in BOOLEAN /\ handler' \in BOOLEAN /\ cooled' \in BOOLEAN /\ watched' \in BOOLEAN
          /\ stopClosed' \in BOOLEAN /\ doneClosed' \in BOOLEAN /\ panicked' \in BOOLEAN
          /\ watcherOpen' \in BOOLEAN /\ cancelled' \in BOOLEAN
      BY <3>3, <3>6
    <3>8. /\ watch' \in [Watchers -> {"off", "select", "lock", "reload", "handling", "stuck", "ended"}]
          /\ got' \in [Watchers -> 0..MaxWrites] /\ mu' \in Watchers \union {NoOne}
          /\ file' \in 0..MaxWrites /\ loaded' \in 0..file' /\ events' \in 0..2
          /\ api' \in [Apis -> {"idle", "validate", "apply", "applied", "refused"}]
      BY <3>5
    <3> QED
      BY <3>1, <3>2, <3>7, <3>8
  <2> QED
    BY <2>1, <2>2 DEF StopStep
<1>2. Locked' /\ Forward'
  BY DEF Locked, Forward, StopLooks, StopStep, StopCloses, StopSeesDone, StopTimesOut,
         StopDisabled
<1>3. Done'
  BY DEF Done, StopLooks, StopStep, StopCloses, StopSeesDone, StopTimesOut, StopDisabled
<1>4. Pending'
  BY DEF Pending, StopLooks, StopStep, StopCloses, StopSeesDone, StopTimesOut, StopDisabled
<1>5. Closed'
  <2>1. OneStart' /\ OneStop' => OneStart /\ OneStop
    BY DEF OneStart, OneStop, Started, StopLooks, StopStep, StopCloses, StopSeesDone,
           StopTimesOut, StopDisabled
  <2>2. CASE StopCloses(s)
    <3>1. OneStop' => ~stopClosed
      BY <2>2 DEF Closed, OneStop, StopCloses
    <3> QED
      BY <2>1, <2>2, <3>1 DEF Closed, StopCloses
  <2>3. CASE ~StopCloses(s)
    BY <2>1, <2>3 DEF Closed, StopLooks, StopStep, StopSeesDone, StopTimesOut, StopDisabled
  <2> QED
    BY <2>2, <2>3
<1> QED
  BY <1>1, <1>2, <1>3, <1>4, <1>5

LEMMA DiskKeeps ==
  ASSUME HRInv, DiskStep
  PROVE  HRInv'
<1> USE WritesAssumption DEF HRInv, HRTypeOK, settings, reload, disk, ends
<1>1. CASE Write
  <2>1. HRTypeOK'
    <3>1. file' \in 0..MaxWrites /\ loaded' \in 0..file' /\ events' \in 0..2
      BY <1>1 DEF Write
    <3>2. missed' \in BOOLEAN
      BY <1>1 DEF Write
    <3> QED
      BY <1>1, <3>1, <3>2 DEF Write
  <2>2. Locked' /\ Forward' /\ Done' /\ Closed'
    BY <1>1 DEF Write, Locked, Forward, Done, Closed, OneStart, OneStop, Started
  <2>3. Pending'
    BY <1>1 DEF Write, Pending
  <2> QED
    BY <2>1, <2>2, <2>3
<1>2. CASE Replace
  <2>1. HRTypeOK'
    <3>1. file' \in 0..MaxWrites /\ loaded' \in 0..file'
      BY <1>2 DEF Replace
    <3> QED
      BY <1>2, <3>1 DEF Replace
  <2>2. Locked' /\ Forward' /\ Done' /\ Closed'
    BY <1>2 DEF Replace, Locked, Forward, Done, Closed, OneStart, OneStop, Started
  <2>3. Pending'
    BY <1>2 DEF Replace, Pending
  <2> QED
    BY <2>1, <2>2, <2>3
<1> QED
  BY <1>1, <1>2 DEF DiskStep

\* The registration of the handler, ApplyParameters, the clock and the context touch
\* nothing the invariant relates.
LEMMA OthersKeep ==
  ASSUME HRInv,
         \/ \E a \in Apis : Calls(a) \/ ApiStep(a)
         \/ SetReloadHandler \/ Cool \/ Cancel
         \/ UNCHANGED hrVars
  PROVE  HRInv'
<1> USE DEF HRInv, settings, reload, disk, ends
<1>1. UNCHANGED <<enabled, watch, got, mu, loaded, file, events, missed, stopClosed, doneClosed,
                  stops, panicked>>
  BY DEF hrVars, Calls, ApiStep, ValidateParameters, ApplyParameters, SetReloadHandler,
         Cool, Cancel
<1>2. HRTypeOK'
  <2>1. CASE \E a \in Apis : Calls(a) \/ ApiStep(a)
    BY <2>1 DEF HRTypeOK, Calls, ApiStep, ValidateParameters, ApplyParameters
  <2>2. CASE SetReloadHandler
    BY <2>2 DEF HRTypeOK, SetReloadHandler
  <2>3. CASE Cool
    BY <2>3 DEF HRTypeOK, Cool
  <2>4. CASE Cancel
    BY <2>4 DEF HRTypeOK, Cancel
  <2>5. CASE UNCHANGED hrVars
    BY <2>5 DEF HRTypeOK, hrVars
  <2> QED
    BY <2>1, <2>2, <2>3, <2>4, <2>5
<1>3. Locked' /\ Forward' /\ Done' /\ Closed' /\ Pending'
  BY <1>1 DEF Locked, Forward, Done, Closed, Pending, OneStart, OneStop, Started
<1> QED
  BY <1>2, <1>3

LEMMA StartsKept == HRInit => HRInv
<1> SUFFICES ASSUME HRInit
             PROVE  HRInv
  OBVIOUS
<1> USE NoOneAssumption, WritesAssumption DEF HRInit
<1>1. HRTypeOK
  <2>1. file \in 0..MaxWrites /\ loaded \in 0..file /\ events \in 0..2
    OBVIOUS
  <2>2. got \in [Watchers -> 0..MaxWrites]
    OBVIOUS
  <2> QED
    BY <2>1, <2>2 DEF HRTypeOK
<1>2. Locked /\ Forward /\ Done /\ Pending
  BY DEF Locked, Forward, Done, Pending
<1>3. Closed
  BY DEF Closed
<1> QED
  BY <1>1, <1>2, <1>3 DEF HRInv

LEMMA StepsKeep == HRInv /\ [HRNext]_hrVars => HRInv'
<1> SUFFICES ASSUME HRInv, [HRNext]_hrVars
             PROVE  HRInv'
  OBVIOUS
<1>1. CASE \E w \in Watchers : Start(w) \/ WatchStep(w) \/ LoopEnds(w)
  <2>1. PICK w \in Watchers : Start(w) \/ WatchStep(w) \/ LoopEnds(w)
    BY <1>1
  <2>2. HRTypeOK' /\ Locked' /\ Forward'
    BY <2>1, TypeWatch, LockedWatch, ForwardWatch DEF HRInv
  <2>3. Done' /\ Closed' /\ Pending'
    BY <2>1, DoneWatch, ClosedWatch, PendingWatch DEF HRInv
  <2> QED
    BY <2>2, <2>3 DEF HRInv
<1>2. CASE \E s \in Stoppers : StopLooks(s) \/ StopStep(s) \/ StopDisabled(s)
  BY <1>2, StopKeeps
<1>3. CASE DiskStep
  BY <1>3, DiskKeeps
<1>4. CASE \/ \E a \in Apis : Calls(a) \/ ApiStep(a)
           \/ SetReloadHandler \/ Cool \/ Cancel \/ UNCHANGED hrVars
  BY <1>4, OthersKeep
<1> QED
  BY <1>1, <1>2, <1>3, <1>4 DEF HRNext

THEOREM ReloaderInductive == HRSpec => []HRInv
  BY StartsKept, StepsKeep, PTL DEF HRSpec

-----------------------------------------------------------------------------
\* Every variable of the reloader has its type, and what is loaded is a version the file
\* has had.
THEOREM ReloaderTypes == HRSpec => []HRTypeOK
<1>1. HRInv => HRTypeOK
  BY DEF HRInv
<1> QED
  BY <1>1, ReloaderInductive, PTL

\* The parameters are those of the file unless a change was dropped, for any number of
\* goroutines: the write that overtakes a handler is not among those dropped.
THEOREM NothingElseGoesStale == HRSpec => []StaleOnlyIfMissed
<1>1. HRInv => StaleOnlyIfMissed
  BY DEF HRInv, HRTypeOK, Pending, StaleOnlyIfMissed, Handling
<1> QED
  BY <1>1, ReloaderInductive, PTL

\* After a Stop that returned in time nothing reloads and h.mu is free; one Start and
\* one Stop close no channel twice.
THEOREM QuietAfterStop == HRSpec => []StoppedIsQuiet
<1>1. HRInv => StoppedIsQuiet
  <2> SUFFICES ASSUME HRInv, OneStart
               PROVE  /\ (\E s \in Stoppers : stops[s] = "stopped") => Running = {} /\ mu = NoOne
                      /\ OneStop => ~panicked
    BY DEF StoppedIsQuiet
  <2>1. OneStop => ~panicked
    BY DEF HRInv, Closed
  <2>2. ASSUME NEW s \in Stoppers, stops[s] = "stopped"
        PROVE  \A w \in Watchers : watch[w] \in {"off", "ended"}
    <3>1. doneClosed \/ ~enabled
      BY <2>2 DEF HRInv, Done
    <3>2. CASE ~enabled
      BY <3>2 DEF HRInv, Done
    <3>3. CASE doneClosed
      <4>1. PICK v \in Watchers : watch[v] = "ended"
        BY <3>3 DEF HRInv, Done
      <4>2. \A w \in Watchers : watch[w] # "off" => w = v
        BY <4>1 DEF OneStart, Started
      <4> QED
        BY <4>1, <4>2
    <3> QED
      BY <3>1, <3>2, <3>3
  <2>3. (\E s \in Stoppers : stops[s] = "stopped") => Running = {} /\ mu = NoOne
    BY <2>2 DEF HRInv, Locked, HRTypeOK, Running
  <2> QED
    BY <2>1, <2>3
<1> QED
  BY <1>1, ReloaderInductive, PTL
=============================================================================
