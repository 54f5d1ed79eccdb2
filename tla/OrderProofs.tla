---------------------------- MODULE OrderProofs ----------------------------
(***************************************************************************)
(* Proofs about the order package: OrderManager, for every set of orders   *)
(* and of goroutines, and FillTracker, for every history of fills and any  *)
(* limits.                                                                 *)
(***************************************************************************)
EXTENDS OrderManager, FillTracker, SequenceTheorems, FiniteSetTheorems, TLAPS

-----------------------------------------------------------------------------
(* OrderManager *)

\* The exchange has said st of the order; an end it has said is the order's end.
Reported(o, st) ==
  /\ exchange[o] \notin {"none", "refused"}
  /\ st \in Outcomes \ {"none", "refused"}
  /\ st \in FinalStates => exchange[o] = st

\* An order is in the map, and can be known to the exchange, only after Submit
\* registered it; the exchange decides on a placement once.
Registration ==
  \A o \in Orders :
    /\ status[o] = "none" <=> submit[o] = "idle"
    /\ exchange[o] # "none" => submit[o] # "idle"
    /\ <<"place", o>> \in network => exchange[o] = "none" /\ submit[o] # "idle"

\* Whatever is on its way to updateStatus, the exchange has said at some time.
StreamReports ==
  \A o \in Orders : \A i \in 1..Len(stream[o]) : Reported(o, stream[o][i])

SweepReports ==
  \A s \in Sweepers \union Listers :
    /\ sweep[s].pc \in {"fetched", "conflict"} =>
         sweep[s].order \in Orders /\ Reported(sweep[s].order, sweep[s].seen)
    /\ \A o \in Orders : sweep[s].listed[o] # "none" => Reported(o, sweep[s].listed[o])
    /\ s \in Listers => \A o \in sweep[s].todo : sweep[s].listed[o] # "none"

\* The book repeats a report, or Submit's own writes.
Book ==
  \A o \in Orders :
    \/ status[o] \in {"none", "NEW"}
    \/ status[o] = "REJECTED" /\ submit[o] = "failed"
    \/ Reported(o, status[o])

IInv == TypeOK /\ Registration /\ StreamReports /\ SweepReports /\ Book

-----------------------------------------------------------------------------
(* Lemmas about the state machine and updateStatus. *)

\* ValidateTransition (state_machine.go) never leads out of Status, never from a
\* final status to another status, and never back.
LEMMA TransitionLemma ==
  ASSUME NEW from \in Status, NEW to, ValidTransition(from, to)
  PROVE  /\ to \in Status
         /\ from \in FinalStates => to = from
         /\ from # to /\ from # "CANCELING" /\ to # "CANCELING" => Rank(to) > Rank(from)
         /\ to = "REJECTED" => from \in {"PENDING", "NEW", "REJECTED"}
<1>1. from = to \/ <<from, to>> \in Transitions
  BY DEF ValidTransition
<1>2. CASE from = to
  BY <1>2 DEF Status, ActiveStates, FinalStates
<1>3. CASE <<from, to>> \in Transitions
  <2>1. \/ from = "PENDING" /\ to \in {"NEW", "REJECTED"}
        \/ from = "NEW" /\ to \in {"ACK", "PARTIAL", "FILLED", "CANCELING", "CANCELED",
                                    "REJECTED", "EXPIRED"}
        \/ from = "ACK" /\ to \in {"PARTIAL", "FILLED", "CANCELING", "CANCELED", "EXPIRED"}
        \/ from = "PARTIAL" /\ to \in {"PARTIAL", "FILLED", "CANCELING", "CANCELED", "EXPIRED"}
        \/ from = "CANCELING" /\ to \in {"CANCELED", "FILLED", "PARTIAL"}
    BY <1>3 DEF Transitions
  <2>2. /\ Rank("PENDING") = 1 /\ Rank("NEW") = 2 /\ Rank("ACK") = 3 /\ Rank("PARTIAL") = 4
        /\ Rank("FILLED") = 5 /\ Rank("CANCELED") = 5 /\ Rank("REJECTED") = 5
        /\ Rank("EXPIRED") = 5
    BY DEF Rank
  <2>3. ASSUME from # to, from # "CANCELING", to # "CANCELING" PROVE Rank(to) > Rank(from)
    <3>1. CASE from = "PENDING"
      <4>1. Rank(to) \in {2, 5} /\ Rank(from) = 1
        BY <2>1, <2>2, <2>3, <3>1
      <4> QED BY <4>1
    <3>2. CASE from = "NEW"
      <4>1. Rank(to) \in {3, 4, 5} /\ Rank(from) = 2
        BY <2>1, <2>2, <2>3, <3>2
      <4> QED BY <4>1
    <3>3. CASE from = "ACK"
      <4>1. Rank(to) \in {4, 5} /\ Rank(from) = 3
        BY <2>1, <2>2, <2>3, <3>3
      <4> QED BY <4>1
    <3>4. CASE from = "PARTIAL"
      <4>1. Rank(to) = 5 /\ Rank(from) = 4
        BY <2>1, <2>2, <2>3, <3>4
      <4> QED BY <4>1
    <3> QED BY <2>1, <2>3, <3>1, <3>2, <3>3, <3>4
  <2>4. /\ to \in Status
        /\ from \in FinalStates => to = from
        /\ to = "REJECTED" => from \in {"PENDING", "NEW", "REJECTED"}
    BY <2>1 DEF Status, ActiveStates, FinalStates
  <2> QED BY <2>3, <2>4
<1> QED BY <1>1, <1>2, <1>3

\* updateStatus (manager.go) changes at most the order it is called for, and only
\* to the status it is called with.
LEMMA UpdateLemma ==
  ASSUME TypeOK, NEW o \in Orders, NEW st, UpdateStatus(o, st)
  PROVE  /\ status' \in [Orders -> {"none"} \union Status]
         /\ \A q \in Orders \ {o} : status'[q] = status[q]
         /\ \/ status'[o] = status[o]
            \/ Known(o) /\ status'[o] = st /\ ValidTransition(status[o], st)
         /\ \A q \in Orders : status'[q] = "none" <=> status[q] = "none"
<1>0. status \in [Orders -> {"none"} \union Status]
  BY DEF TypeOK
<1>n. "none" \notin Status
  BY DEF Status, ActiveStates, FinalStates
<1>1. CASE UpdateAccepted(o, st)
  <2>1. status[o] \in Status
    BY <1>0, <1>1 DEF UpdateAccepted, Known
  <2>2. st \in Status
    BY <1>1, <2>1, TransitionLemma DEF UpdateAccepted
  <2>3. status' = [status EXCEPT ![o] = st]
    BY <1>1 DEF UpdateStatus
  <2> QED BY <1>0, <1>1, <2>1, <2>2, <2>3, <1>n DEF UpdateAccepted
<1>2. CASE ~UpdateAccepted(o, st)
  BY <1>0, <1>2 DEF UpdateStatus
<1> QED BY <1>1, <1>2

-----------------------------------------------------------------------------
(* Type correctness. *)

LEMMA TypeInit == Init => TypeOK
  BY NoOrderAssumption DEF Init, TypeOK, Idle, Outcomes, Status, SweepRecord

LEMMA TypeStep == TypeOK /\ [Next]_vars => TypeOK'
<1> SUFFICES ASSUME TypeOK, [Next]_vars PROVE TypeOK'
  OBVIOUS
<1> USE DEF TypeOK
<1>s. ASSUME NEW s \in Sweepers \union Listers, NEW r \in SweepRecord,
             sweep' = [sweep EXCEPT ![s] = r]
      PROVE  sweep' \in [Sweepers \union Listers -> SweepRecord]
  BY <1>s
<1>idle. Idle \in SweepRecord
  BY DEF SweepRecord, Idle, Outcomes
<1>r. ASSUME NEW s \in Sweepers \union Listers
      PROVE  /\ sweep[s] \in SweepRecord
             /\ sweep[s] = [pc |-> sweep[s].pc, todo |-> sweep[s].todo, order |-> sweep[s].order,
                            seen |-> sweep[s].seen, listed |-> sweep[s].listed]
             /\ Onward(s) \in SweepRecord
  <2>1. sweep[s] \in SweepRecord
    OBVIOUS
  <2> QED BY <2>1 DEF SweepRecord, Onward, Outcomes
<1>0. CASE UNCHANGED vars
  BY <1>0 DEF vars
<1>1. ASSUME NEW o \in Orders, SubmitRegister(o) PROVE TypeOK'
  BY <1>1 DEF SubmitRegister, Status, ActiveStates
<1>2. ASSUME NEW o \in Orders, SubmitAck(o) PROVE TypeOK'
  BY <1>2, UpdateLemma DEF SubmitAck
<1>3. ASSUME NEW o \in Orders, SubmitReject(o) PROVE TypeOK'
  BY <1>3, UpdateLemma DEF SubmitReject
<1>4. ASSUME NEW o \in Orders, StreamUpdate(o) PROVE TypeOK'
  <2>1. stream[o] \in Seq({"PARTIAL", "FILLED", "CANCELED", "EXPIRED"}) /\ stream[o] # <<>>
    BY <1>4 DEF StreamUpdate
  <2>2. Tail(stream[o]) \in Seq({"PARTIAL", "FILLED", "CANCELED", "EXPIRED"})
    BY <2>1
  <2> QED BY <1>4, <2>2, UpdateLemma DEF StreamUpdate
<1>5. ASSUME NEW c \in Cancellers, NEW o \in Orders, CancelSend(c, o) PROVE TypeOK'
  BY <1>5 DEF CancelSend
<1>6. ASSUME NEW c \in Cancellers, CancelOk(c) PROVE TypeOK'
  BY <1>6, UpdateLemma DEF CancelOk
<1>7. ASSUME NEW c \in Cancellers, CancelError(c) PROVE TypeOK'
  BY <1>7 DEF CancelError
<1>8. ASSUME NEW s \in Sweepers, ReconcileStart(s) PROVE TypeOK'
  BY <1>8 DEF ReconcileStart, Idle, ActiveOrders, Outcomes, SweepRecord
<1>9. ASSUME NEW s \in Sweepers, NEW o \in Orders, FetchOk(s, o) PROVE TypeOK'
  BY <1>9 DEF FetchOk, SweepRecord
<1>10. ASSUME NEW s \in Sweepers, NEW o \in Orders, FetchError(s, o) PROVE TypeOK'
  BY <1>10 DEF FetchError, SweepRecord
<1>11. ASSUME NEW s \in Listers, ListOpenOrders(s) PROVE TypeOK'
  BY <1>11 DEF ListOpenOrders, Idle, Outcomes, SweepRecord
<1>12. ASSUME NEW s \in Listers, MatchLocalOrders(s) PROVE TypeOK'
  <2> DEFINE matched == {o \in ActiveOrders : sweep[s].listed[o] # "none"}
             shown == [o \in Orders |-> IF o \in matched THEN sweep[s].listed[o] ELSE "none"]
  <2>1. sweep' = [sweep EXCEPT ![s] =
           [sweep[s] EXCEPT !.pc = "scan", !.todo = matched, !.listed = shown]]
    BY <1>12 DEF MatchLocalOrders
  <2>2. matched \in SUBSET Orders
    BY DEF ActiveOrders
  <2>3. shown \in [Orders -> Outcomes]
    BY <1>r DEF SweepRecord, Outcomes
  <2> HIDE DEF matched, shown
  <2>4. [sweep[s] EXCEPT !.pc = "scan", !.todo = matched, !.listed = shown] \in SweepRecord
    BY <1>r, <2>2, <2>3 DEF SweepRecord
  <2>5. sweep' \in [Sweepers \union Listers -> SweepRecord]
    BY <1>s, <2>1, <2>4
  <2> QED BY <1>12, <2>5 DEF MatchLocalOrders
<1>13. ASSUME NEW s \in Listers, NEW o \in Orders, MatchNext(s, o) PROVE TypeOK'
  <2> DEFINE shown == [sweep[s].listed EXCEPT ![o] = "none"]
  <2>1. sweep' = [sweep EXCEPT ![s] =
           [sweep[s] EXCEPT !.pc = "fetched", !.todo = sweep[s].todo \ {o}, !.order = o,
                            !.seen = sweep[s].listed[o], !.listed = shown]]
    BY <1>13 DEF MatchNext
  <2>2. shown \in [Orders -> Outcomes] /\ sweep[s].listed[o] \in Outcomes
    BY <1>r DEF SweepRecord, Outcomes
  <2> HIDE DEF shown
  <2>3. [sweep[s] EXCEPT !.pc = "fetched", !.todo = sweep[s].todo \ {o}, !.order = o,
                        !.seen = sweep[s].listed[o], !.listed = shown] \in SweepRecord
    BY <1>r, <2>2 DEF SweepRecord
  <2>4. sweep' \in [Sweepers \union Listers -> SweepRecord]
    BY <1>s, <2>1, <2>3
  <2> QED BY <1>13, <2>4 DEF MatchNext
<1>14. ASSUME NEW s \in Sweepers \union Listers, ReconcileEnd(s) PROVE TypeOK'
  BY <1>14, <1>idle DEF ReconcileEnd
<1>15. ASSUME NEW s \in Sweepers \union Listers, Compare(s) PROVE TypeOK'
  <2>1. sweep' = [sweep EXCEPT ![s] = Onward(s)]
        \/ sweep' = [sweep EXCEPT ![s] = [sweep[s] EXCEPT !.pc = "conflict"]]
    BY <1>15 DEF Compare
  <2>2. [sweep[s] EXCEPT !.pc = "conflict"] \in SweepRecord
    BY <1>r DEF SweepRecord
  <2>3. sweep' \in [Sweepers \union Listers -> SweepRecord]
    BY <1>s, <1>r, <2>1, <2>2
  <2> QED BY <1>15, <2>3 DEF Compare
<1>16. ASSUME NEW s \in Sweepers \union Listers, Resolve(s) PROVE TypeOK'
  <2>1. status' \in [Orders -> {"none"} \union Status]
    <3>1. CASE sweep[s].order \in Orders
      BY <1>16, <3>1, UpdateLemma DEF Resolve
    <3>2. CASE sweep[s].order \notin Orders
      BY <1>16, <3>2 DEF Resolve, UpdateStatus
    <3> QED BY <3>1, <3>2
  <2>2. sweep' = [sweep EXCEPT ![s] = Onward(s)] \/ sweep' = [sweep EXCEPT ![s] = Idle]
    BY <1>16 DEF Resolve
  <2>3. sweep' \in [Sweepers \union Listers -> SweepRecord]
    BY <1>s, <1>r, <1>idle, <2>2
  <2> QED BY <1>16, <2>1, <2>3 DEF Resolve
<1>17. ASSUME NEW o \in Orders, PlaceArrives(o) PROVE TypeOK'
  BY <1>17 DEF PlaceArrives, Outcomes
<1>18. ASSUME NEW o \in Orders, ExchangeEvent(o) PROVE TypeOK'
  BY <1>18 DEF ExchangeEvent, ExchangeMoves, Outcomes
<1>19. ASSUME NEW o \in Orders, CancelArrives(o) PROVE TypeOK'
  <2>1. CASE ExchangeMoves(o, "CANCELED")
    BY <1>19, <2>1 DEF CancelArrives, ExchangeMoves, Outcomes
  <2>2. CASE UNCHANGED <<exchange, stream>>
    BY <1>19, <2>2 DEF CancelArrives
  <2> QED BY <1>19, <2>1, <2>2 DEF CancelArrives
<1>20. CASE StreamLost
  BY <1>20 DEF StreamLost
<1> QED
  BY <1>0, <1>1, <1>2, <1>3, <1>4, <1>5, <1>6, <1>7, <1>8, <1>9, <1>10, <1>11, <1>12,
     <1>13, <1>14, <1>15, <1>16, <1>17, <1>18, <1>19, <1>20
  DEF Next, ManagerNext, ReconcilerNext, ExchangeNext

\* Every variable of the order layer keeps its type (manager.go, reconciler.go).
THEOREM TypeCorrect == Spec => []TypeOK
  BY TypeInit, TypeStep, PTL DEF Spec

-----------------------------------------------------------------------------
(* The steps, as the book sees them. *)

\* updateStatus is called with something the exchange has said (by Submit after
\* an acknowledgement, by Cancel, the user stream or the reconciler).
Report(o, st) ==
  /\ UpdateStatus(o, st)
  /\ Reported(o, st)
  /\ UNCHANGED <<exchange, network>>
  /\ \/ UNCHANGED submit
     \/ submit[o] = "placing" /\ submit' = [submit EXCEPT ![o] = "placed"]

\* The exchange answers a placement, or moves a live order.
Decides(o, v) ==
  /\ exchange' = [exchange EXCEPT ![o] = v]
  /\ \/ /\ <<"place", o>> \in network
        /\ network' = network \ {<<"place", o>>}
        /\ v \in {"ACK", "refused"}
     \/ /\ Live(o)
        /\ network' \subseteq network
        /\ v \in {"PARTIAL", "FILLED", "EXPIRED", "CANCELED"}
  /\ UNCHANGED <<status, submit>>

\* Neither the book nor the exchange changes; no placement is sent.
Quiet ==
  /\ UNCHANGED <<status, submit, exchange>>
  /\ \A o \in Orders : <<"place", o>> \in network' => <<"place", o>> \in network

\* Every step of the order layer is one of five kinds.
Kinds ==
  \/ \E o \in Orders : SubmitRegister(o) \/ SubmitReject(o)
  \/ \E o \in Orders : \E st : Report(o, st)
  \/ \E o \in Orders : \E v : Decides(o, v)
  \/ Quiet

LEMMA StepKinds ==
  ASSUME TypeOK, StreamReports, SweepReports, [Next]_vars
  PROVE  Kinds
<1>0. CASE UNCHANGED vars
  BY <1>0 DEF vars, Quiet, Kinds
<1>1. ASSUME NEW o \in Orders, SubmitRegister(o) \/ SubmitReject(o) PROVE Kinds
  BY <1>1 DEF Kinds
<1>2. ASSUME NEW o \in Orders, SubmitAck(o) PROVE Kinds
  <2>1. Reported(o, "ACK")
    BY <1>2 DEF SubmitAck, Reported, Outcomes, FinalStates
  <2>2. Report(o, "ACK")
    BY <1>2, <2>1 DEF SubmitAck, Report
  <2> QED BY <2>2 DEF Kinds
<1>3. ASSUME NEW o \in Orders, StreamUpdate(o) PROVE Kinds
  <2>1. stream[o] \in Seq({"PARTIAL", "FILLED", "CANCELED", "EXPIRED"}) /\ stream[o] # <<>>
    BY <1>3 DEF StreamUpdate, TypeOK
  <2>2. 1 \in 1..Len(stream[o]) /\ Head(stream[o]) = stream[o][1]
    BY <2>1
  <2>3. Reported(o, Head(stream[o]))
    BY <2>2 DEF StreamReports
  <2>4. Report(o, Head(stream[o]))
    BY <1>3, <2>3 DEF StreamUpdate, Report
  <2> QED BY <2>4 DEF Kinds
<1>4. ASSUME NEW c \in Cancellers, NEW o \in Orders, CancelSend(c, o) PROVE Kinds
  BY <1>4 DEF CancelSend, Quiet, Kinds
<1>5. ASSUME NEW c \in Cancellers, CancelOk(c) PROVE Kinds
  <2>1. cancelling[c] \in Orders
    BY <1>5 DEF CancelOk, TypeOK
  <2>2. Reported(cancelling[c], "CANCELED")
    BY <1>5 DEF CancelOk, Reported, Outcomes
  <2>3. Report(cancelling[c], "CANCELED")
    BY <1>5, <2>2 DEF CancelOk, Report
  <2> QED BY <2>1, <2>3 DEF Kinds
<1>6. ASSUME NEW c \in Cancellers, CancelError(c) PROVE Kinds
  BY <1>6 DEF CancelError, Quiet, Kinds
<1>7. ASSUME NEW s \in Sweepers \union Listers, Resolve(s) PROVE Kinds
  <2>1. sweep[s].order \in Orders /\ Reported(sweep[s].order, sweep[s].seen)
    BY <1>7 DEF Resolve, SweepReports
  <2>2. Report(sweep[s].order, sweep[s].seen)
    BY <1>7, <2>1 DEF Resolve, Report
  <2> QED BY <2>1, <2>2 DEF Kinds
<1>8. ASSUME NEW s \in Sweepers \union Listers, NEW o \in Orders,
             FetchOk(s, o) \/ FetchError(s, o) \/ MatchNext(s, o)
      PROVE  Kinds
  BY <1>8 DEF FetchOk, FetchError, MatchNext, Quiet, Kinds
<1>9. ASSUME NEW s \in Sweepers \union Listers,
             \/ ReconcileStart(s) \/ ListOpenOrders(s) \/ MatchLocalOrders(s)
             \/ ReconcileEnd(s) \/ Compare(s)
      PROVE  Kinds
  BY <1>9 DEF ReconcileStart, ListOpenOrders, MatchLocalOrders, ReconcileEnd, Compare, Quiet, Kinds
<1>10. ASSUME NEW o \in Orders, PlaceArrives(o) PROVE Kinds
  <2>1. PICK v \in {"ACK", "refused"} : exchange' = [exchange EXCEPT ![o] = v]
    BY <1>10 DEF PlaceArrives
  <2>2. Decides(o, v)
    BY <1>10, <2>1 DEF PlaceArrives, Decides
  <2> QED BY <2>2 DEF Kinds
<1>11. ASSUME NEW o \in Orders, ExchangeEvent(o) PROVE Kinds
  <2>1. PICK v \in {"PARTIAL", "FILLED", "EXPIRED"} : ExchangeMoves(o, v)
    BY <1>11 DEF ExchangeEvent
  <2>2. Decides(o, v)
    BY <1>11, <2>1 DEF ExchangeEvent, ExchangeMoves, Decides
  <2> QED BY <2>2 DEF Kinds
<1>12. ASSUME NEW o \in Orders, CancelArrives(o) PROVE Kinds
  <2>1. CASE ExchangeMoves(o, "CANCELED")
    <3>1. Decides(o, "CANCELED")
      BY <1>12, <2>1 DEF CancelArrives, ExchangeMoves, Decides
    <3> QED BY <3>1 DEF Kinds
  <2>2. CASE UNCHANGED <<exchange, stream>>
    BY <1>12, <2>2 DEF CancelArrives, Quiet, Kinds
  <2> QED BY <1>12, <2>1, <2>2 DEF CancelArrives
<1>13. CASE StreamLost
  BY <1>13 DEF StreamLost, Quiet, Kinds
<1>14. CASE ManagerNext
  BY <1>14, <1>1, <1>2, <1>3, <1>4, <1>5, <1>6 DEF ManagerNext
<1>15. CASE ReconcilerNext
  BY <1>15, <1>7, <1>8, <1>9 DEF ReconcilerNext
<1>16. CASE ExchangeNext
  BY <1>16, <1>10, <1>11, <1>12, <1>13 DEF ExchangeNext
<1> QED BY <1>0, <1>14, <1>15, <1>16 DEF Next

\* The exchange never takes back what it has said: what was reported stays true.
LEMMA ExchangeKeepsItsWord ==
  ASSUME TypeOK, Registration, StreamReports, SweepReports, [Next]_vars, NEW o \in Orders
  PROVE  \A st : Reported(o, st) => Reported(o, st)'
<1> SUFFICES ASSUME NEW st, Reported(o, st) PROVE Reported(o, st)'
  OBVIOUS
<1>1. CASE exchange'[o] = exchange[o]
  BY <1>1 DEF Reported
<1>2. ASSUME NEW q \in Orders, NEW v, Decides(q, v) PROVE Reported(o, st)'
  <2>1. CASE q # o
    BY <1>2, <2>1 DEF Decides, Reported, TypeOK
  <2>2. CASE q = o
    <3>1. exchange'[o] = v
      BY <1>2, <2>2 DEF Decides, TypeOK
    <3>2. <<"place", o>> \notin network
      BY DEF Registration, Reported
    <3>3. Live(o) /\ v \in {"PARTIAL", "FILLED", "EXPIRED", "CANCELED"}
      BY <1>2, <2>2, <3>2 DEF Decides
    <3> QED BY <3>1, <3>3 DEF Live, Reported, FinalStates
  <2> QED BY <2>1, <2>2
<1> QED
  BY <1>1, <1>2, StepKinds DEF Kinds, SubmitRegister, SubmitReject, Report, Quiet

-----------------------------------------------------------------------------
(* The inductive invariant. *)

LEMMA InvariantInit == Init => IInv
<1> SUFFICES ASSUME Init PROVE IInv
  OBVIOUS
<1>1. TypeOK
  BY TypeInit
<1>2. Registration /\ StreamReports /\ SweepReports /\ Book
  BY DEF Init, Idle, Registration, StreamReports, SweepReports, Book
<1> QED BY <1>1, <1>2 DEF IInv

LEMMA RegistrationStep ==
  ASSUME IInv, [Next]_vars
  PROVE  Registration'
<1> USE DEF IInv
<1>1. ASSUME NEW o \in Orders, SubmitRegister(o) PROVE Registration'
  BY <1>1 DEF SubmitRegister, Registration, TypeOK
<1>2. ASSUME NEW o \in Orders, SubmitReject(o) PROVE Registration'
  BY <1>2, UpdateLemma DEF SubmitReject, Registration, TypeOK
<1>3. ASSUME NEW o \in Orders, NEW st, Report(o, st) PROVE Registration'
  BY <1>3, UpdateLemma DEF Report, Registration, TypeOK
<1>4. ASSUME NEW o \in Orders, NEW v, Decides(o, v) PROVE Registration'
  <2>1. ASSUME NEW q \in Orders
        PROVE  /\ status'[q] = "none" <=> submit'[q] = "idle"
               /\ exchange'[q] # "none" => submit'[q] # "idle"
    BY <1>4, <2>1 DEF Decides, Live, Registration, TypeOK
  <2>2. ASSUME NEW q \in Orders, <<"place", q>> \in network'
        PROVE  exchange'[q] = "none" /\ submit'[q] # "idle"
    <3>1. <<"place", q>> \in network
      BY <1>4, <2>2 DEF Decides
    <3>2. q # o
      BY <1>4, <2>2, <3>1 DEF Decides, Live, Registration
    <3> QED BY <1>4, <3>1, <3>2 DEF Decides, Registration, TypeOK
  <2> QED BY <2>1, <2>2 DEF Registration
<1>5. CASE Quiet
  BY <1>5 DEF Quiet, Registration
<1> QED BY <1>1, <1>2, <1>3, <1>4, <1>5, StepKinds DEF Kinds

LEMMA BookStep ==
  ASSUME IInv, [Next]_vars
  PROVE  Book'
<1> USE DEF IInv
<1>k. \A o \in Orders : \A st : Reported(o, st) => Reported(o, st)'
  BY ExchangeKeepsItsWord
<1>1. ASSUME NEW o \in Orders, SubmitRegister(o) PROVE Book'
  <2>1. status' = [status EXCEPT ![o] = "NEW"] /\ exchange' = exchange
        /\ submit' = [submit EXCEPT ![o] = "placing"] /\ submit[o] = "idle"
    BY <1>1 DEF SubmitRegister
  <2> QED BY <2>1 DEF Book, Reported, TypeOK
<1>2. ASSUME NEW o \in Orders, SubmitReject(o) PROVE Book'
  <2>1. /\ exchange' = exchange
        /\ submit' = [submit EXCEPT ![o] = "failed"]
        /\ \A q \in Orders \ {o} : status'[q] = status[q]
        /\ status'[o] \in {status[o], "REJECTED"}
    BY <1>2, UpdateLemma DEF SubmitReject
  <2> QED BY <2>1 DEF Book, Reported, TypeOK
<1>3. ASSUME NEW o \in Orders, NEW st, Report(o, st) PROVE Book'
  <2>1. /\ exchange' = exchange
        /\ \A q \in Orders : submit[q] = "failed" => submit'[q] = "failed"
        /\ \A q \in Orders \ {o} : status'[q] = status[q]
        /\ status'[o] \in {status[o], st}
        /\ Reported(o, st)
    BY <1>3, UpdateLemma DEF Report, TypeOK
  <2> QED BY <2>1 DEF Book, Reported
<1>4. ASSUME UNCHANGED <<status, submit>> PROVE Book'
  <2>1. ASSUME NEW o \in Orders
        PROVE  \/ status'[o] \in {"none", "NEW"}
               \/ status'[o] = "REJECTED" /\ submit'[o] = "failed"
               \/ Reported(o, status[o])'
    BY <1>4, <1>k DEF Book, Reported
  <2> QED BY <1>4, <2>1 DEF Book, Reported
<1> QED BY <1>1, <1>2, <1>3, <1>4, StepKinds DEF Kinds, Decides, Quiet

LEMMA StreamStep ==
  ASSUME IInv, [Next]_vars
  PROVE  StreamReports'
<1> USE DEF IInv
<1> DEFINE Says == {"PARTIAL", "FILLED", "CANCELED", "EXPIRED"}
<1>k. \A o \in Orders : \A st : Reported(o, st) => Reported(o, st)'
  BY ExchangeKeepsItsWord
<1>t. stream \in [Orders -> Seq(Says)]
  BY DEF TypeOK
<1>1. CASE UNCHANGED stream
  BY <1>1, <1>k DEF StreamReports, Reported
<1>2. ASSUME NEW o \in Orders, StreamUpdate(o) PROVE StreamReports'
  <2>1. stream[o] \in Seq(Says) /\ stream[o] # <<>>
    BY <1>2, <1>t DEF StreamUpdate
  <2>2. /\ Len(Tail(stream[o])) = Len(stream[o]) - 1
        /\ \A i \in 1..Len(Tail(stream[o])) :
             i + 1 \in 1..Len(stream[o]) /\ Tail(stream[o])[i] = stream[o][i + 1]
    BY <2>1
  <2>3. stream' = [stream EXCEPT ![o] = Tail(stream[o])] /\ exchange' = exchange
    BY <1>2 DEF StreamUpdate
  <2>4. ASSUME NEW q \in Orders, NEW i \in 1..Len(stream'[q]) PROVE Reported(q, stream'[q][i])
    <3>1. CASE q = o
      BY <1>t, <2>2, <2>3, <2>4, <3>1 DEF StreamReports
    <3>2. CASE q # o
      BY <1>t, <2>3, <2>4, <3>2 DEF StreamReports
    <3> QED BY <3>1, <3>2
  <2> QED BY <2>3, <2>4 DEF StreamReports, Reported
<1>3. ASSUME NEW o \in Orders, NEW st \in Says, ExchangeMoves(o, st) PROVE StreamReports'
  <2>1. stream' = [stream EXCEPT ![o] = Append(stream[o], st)]
        /\ exchange' = [exchange EXCEPT ![o] = st]
    BY <1>3 DEF ExchangeMoves
  <2>2. Reported(o, st)'
    BY <1>3, <2>1 DEF Reported, Outcomes, TypeOK
  <2>3. ASSUME NEW q \in Orders, NEW i \in 1..Len(stream'[q])
        PROVE  \/ i \in 1..Len(stream[q]) /\ stream'[q][i] = stream[q][i]
               \/ q = o /\ stream'[q][i] = st
    <3>1. CASE q = o
      <4>1. stream'[q] = Append(stream[o], st) /\ stream[o] \in Seq(Says)
        BY <1>t, <2>1, <3>1
      <4> QED BY <2>3, <3>1, <4>1
    <3>2. CASE q # o
      BY <1>t, <2>1, <2>3, <3>2
    <3> QED BY <3>1, <3>2
  <2> QED BY <1>k, <2>2, <2>3 DEF StreamReports, Reported
<1>4. CASE StreamLost
  BY <1>4 DEF StreamLost, StreamReports
<1>5. CASE ManagerNext
  BY <1>5, <1>1, <1>2
  DEF ManagerNext, SubmitRegister, SubmitAck, SubmitReject, CancelSend, CancelOk, CancelError
<1>6. CASE ReconcilerNext
  BY <1>6, <1>1
  DEF ReconcilerNext, ReconcileStart, FetchOk, FetchError, ListOpenOrders, MatchLocalOrders,
      MatchNext, ReconcileEnd, Compare, Resolve
<1>7. CASE ExchangeNext
  BY <1>7, <1>1, <1>3, <1>4 DEF ExchangeNext, PlaceArrives, ExchangeEvent, CancelArrives
<1> QED BY <1>1, <1>5, <1>6, <1>7 DEF Next, vars

LEMMA SweepStep ==
  ASSUME IInv, [Next]_vars
  PROVE  SweepReports'
<1> USE DEF IInv
<1> DEFINE Fine(s, r) ==
      /\ r.pc \in {"fetched", "conflict"} => r.order \in Orders /\ Reported(r.order, r.seen)
      /\ \A o \in Orders : r.listed[o] # "none" => Reported(o, r.listed[o])
      /\ s \in Listers => \A o \in r.todo : r.listed[o] # "none"
<1>k. \A o \in Orders : \A st : Reported(o, st) => Reported(o, st)'
  BY ExchangeKeepsItsWord
<1>t. \A s \in Sweepers \union Listers : sweep[s] \in SweepRecord
  BY DEF TypeOK
<1>f. \A s \in Sweepers \union Listers : Fine(s, sweep[s])
  BY DEF SweepReports
\* One goroutine moves to the record r, and the exchange stands still.
<1>m. ASSUME NEW s \in Sweepers \union Listers, NEW r, Fine(s, r),
             sweep' = [sweep EXCEPT ![s] = r], exchange' = exchange
      PROVE  SweepReports'
  <2>1. ASSUME NEW q \in Sweepers \union Listers PROVE Fine(q, sweep'[q])
    BY <1>f, <1>m DEF TypeOK
  <2> QED BY <1>m, <2>1 DEF SweepReports, Reported
<1> HIDE DEF Fine
<1>i. \A s \in Sweepers \union Listers : Fine(s, Idle)
  BY DEF Fine, Idle
<1>o. ASSUME NEW s \in Sweepers \union Listers PROVE Fine(s, Onward(s))
  BY <1>t, <1>f DEF Fine, Onward, SweepRecord
<1>1. CASE UNCHANGED sweep
  BY <1>1, <1>k DEF SweepReports, Reported
<1>2. ASSUME NEW s \in Sweepers, ReconcileStart(s) PROVE SweepReports'
  <2> DEFINE r == [Idle EXCEPT !.pc = "scan", !.todo = ActiveOrders]
  <2>1. sweep' = [sweep EXCEPT ![s] = r] /\ exchange' = exchange
    BY <1>2 DEF ReconcileStart
  <2>2. s \notin Listers
    BY ReconcilersAssumption
  <2>3. Fine(s, r)
    BY <2>2 DEF Fine, Idle
  <2> QED BY <1>m, <2>1, <2>3
<1>3. ASSUME NEW s \in Sweepers, NEW o \in Orders, FetchOk(s, o) PROVE SweepReports'
  <2> DEFINE r == [sweep[s] EXCEPT !.pc = "fetched", !.todo = sweep[s].todo \ {o},
                                   !.order = o, !.seen = exchange[o]]
  <2>1. sweep' = [sweep EXCEPT ![s] = r] /\ exchange' = exchange
    BY <1>3, <1>t DEF FetchOk, TypeOK, SweepRecord
  <2>2. Reported(o, exchange[o])
    BY <1>3 DEF FetchOk, Reported, TypeOK
  <2>3. Fine(s, r)
    BY <2>2, <1>t, <1>f, ReconcilersAssumption DEF Fine, SweepRecord
  <2> QED BY <1>m, <2>1, <2>3
<1>4. ASSUME NEW s \in Sweepers, NEW o \in Orders, FetchError(s, o) PROVE SweepReports'
  <2> DEFINE r == [sweep[s] EXCEPT !.todo = sweep[s].todo \ {o}]
  <2>1. sweep' = [sweep EXCEPT ![s] = r] /\ exchange' = exchange
    BY <1>4, <1>t DEF FetchError, TypeOK, SweepRecord
  <2>2. Fine(s, r)
    BY <1>t, <1>f, ReconcilersAssumption DEF Fine, SweepRecord
  <2> QED BY <1>m, <2>1, <2>2
<1>5. ASSUME NEW s \in Listers, ListOpenOrders(s) PROVE SweepReports'
  <2> DEFINE shown == [o \in Orders |-> IF Live(o) THEN exchange[o] ELSE "none"]
             r == [Idle EXCEPT !.pc = "listed", !.listed = shown]
  <2>1. sweep' = [sweep EXCEPT ![s] = r] /\ exchange' = exchange
    BY <1>5 DEF ListOpenOrders
  <2>2. \A o \in Orders : shown[o] # "none" => Reported(o, shown[o])
    BY DEF Live, Reported, Outcomes, FinalStates
  <2> HIDE DEF shown
  <2>3. Fine(s, r)
    BY <2>2 DEF Fine, Idle
  <2> QED BY <1>m, <2>1, <2>3
<1>6. ASSUME NEW s \in Listers, MatchLocalOrders(s) PROVE SweepReports'
  <2> DEFINE matched == {o \in ActiveOrders : sweep[s].listed[o] # "none"}
             shown == [o \in Orders |-> IF o \in matched THEN sweep[s].listed[o] ELSE "none"]
             r == [sweep[s] EXCEPT !.pc = "scan", !.todo = matched, !.listed = shown]
  <2>1. sweep' = [sweep EXCEPT ![s] = r] /\ exchange' = exchange
    BY <1>6 DEF MatchLocalOrders
  <2>2. /\ \A o \in Orders : shown[o] # "none" => Reported(o, shown[o])
        /\ \A o \in matched : shown[o] # "none"
    BY <1>f DEF Fine, ActiveOrders
  <2> HIDE DEF matched, shown
  <2>3. Fine(s, r)
    BY <2>2, <1>t DEF Fine, SweepRecord
  <2> QED BY <1>m, <2>1, <2>3
<1>7. ASSUME NEW s \in Listers, NEW o \in Orders, MatchNext(s, o) PROVE SweepReports'
  <2> DEFINE shown == [sweep[s].listed EXCEPT ![o] = "none"]
             r == [sweep[s] EXCEPT !.pc = "fetched", !.todo = sweep[s].todo \ {o}, !.order = o,
                                   !.seen = sweep[s].listed[o], !.listed = shown]
  <2>1. sweep' = [sweep EXCEPT ![s] = r] /\ exchange' = exchange
    BY <1>7 DEF MatchNext
  <2>2. /\ \A q \in Orders : shown[q] # "none" => Reported(q, shown[q])
        /\ \A q \in sweep[s].todo \ {o} : shown[q] # "none"
        /\ Reported(o, sweep[s].listed[o])
    BY <1>7, <1>t, <1>f DEF MatchNext, Fine, SweepRecord
  <2> HIDE DEF shown
  <2>3. Fine(s, r)
    BY <2>2, <1>t DEF Fine, SweepRecord
  <2> QED BY <1>m, <2>1, <2>3
<1>8. ASSUME NEW s \in Sweepers \union Listers, ReconcileEnd(s) PROVE SweepReports'
  BY <1>8, <1>m, <1>i DEF ReconcileEnd
<1>9. ASSUME NEW s \in Sweepers \union Listers, Compare(s) PROVE SweepReports'
  <2>1. sweep[s].pc = "fetched" /\ exchange' = exchange
    BY <1>9 DEF Compare
  <2>2. \/ sweep' = [sweep EXCEPT ![s] = Onward(s)]
        \/ sweep' = [sweep EXCEPT ![s] = [sweep[s] EXCEPT !.pc = "conflict"]]
    BY <1>9 DEF Compare
  <2>3. Fine(s, [sweep[s] EXCEPT !.pc = "conflict"])
    BY <2>1, <1>t, <1>f DEF Fine, SweepRecord
  <2> QED BY <1>m, <1>o, <2>1, <2>2, <2>3
<1>10. ASSUME NEW s \in Sweepers \union Listers, Resolve(s) PROVE SweepReports'
  <2>1. /\ exchange' = exchange
        /\ \/ sweep' = [sweep EXCEPT ![s] = Onward(s)]
           \/ sweep' = [sweep EXCEPT ![s] = Idle]
    BY <1>10 DEF Resolve
  <2> QED BY <1>m, <1>o, <1>i, <2>1
<1>11. CASE ManagerNext
  BY <1>11, <1>1
  DEF ManagerNext, SubmitRegister, SubmitAck, SubmitReject, StreamUpdate, CancelSend,
      CancelOk, CancelError
<1>12. CASE ReconcilerNext
  BY <1>12, <1>2, <1>3, <1>4, <1>5, <1>6, <1>7, <1>8, <1>9, <1>10 DEF ReconcilerNext
<1>13. CASE ExchangeNext
  BY <1>13, <1>1 DEF ExchangeNext, PlaceArrives, ExchangeEvent, CancelArrives, StreamLost
<1> QED BY <1>1, <1>11, <1>12, <1>13 DEF Next, vars

LEMMA InvariantStep == IInv /\ [Next]_vars => IInv'
<1> SUFFICES ASSUME IInv, [Next]_vars PROVE IInv'
  OBVIOUS
<1>1. TypeOK'
  BY TypeStep DEF IInv
<1> QED BY <1>1, RegistrationStep, StreamStep, SweepStep, BookStep DEF IInv

-----------------------------------------------------------------------------
(* What the invariant gives. *)

\* The book closes an order only the way the exchange did (manager.go updateStatus).
THEOREM ClosedTruthfully == Spec => []ClosedAsTheExchangeDid
<1>1. IInv => ClosedAsTheExchangeDid
  BY DEF IInv, Book, ClosedAsTheExchangeDid, Reported, FinalStates
<1> QED BY <1>1, InvariantInit, InvariantStep, PTL DEF Spec

\* A confirmed live order is always in GetActiveOrders (manager.go Submit, Cancel,
\* Update; reconciler.go resolveConflict).
THEOREM ConfirmedInSight == Spec => []ConfirmedOrdersStayInSight
<1>1. IInv => ConfirmedOrdersStayInSight
  <2> SUFFICES ASSUME IInv, NEW o \in Orders, submit[o] = "placed", Live(o) PROVE Active(o)
    BY DEF ConfirmedOrdersStayInSight
  <2>1. status[o] # "none"
    BY DEF IInv, Registration
  <2>2. status[o] = "NEW" \/ Reported(o, status[o])
    BY <2>1 DEF IInv, Book
  <2> QED BY <2>1, <2>2 DEF Reported, Active, Known, Live, FinalStates
<1> QED BY <1>1, InvariantInit, InvariantStep, PTL DEF Spec

\* No writer takes an order back (state_machine.go ValidateTransition, whoever
\* calls updateStatus and however late).
THEOREM NeverBack == Spec => OrdersNeverGoBack
<1>1. ASSUME IInv, [Next]_vars
      PROVE  [\A o \in Orders : status'[o] # status[o] => Rank(status'[o]) > Rank(status[o])]_status
  <2> SUFFICES ASSUME NEW o \in Orders, status'[o] # status[o]
               PROVE  Rank(status'[o]) > Rank(status[o])
    OBVIOUS
  <2>t. TypeOK /\ status[o] \in {"none"} \union Status
    BY <1>1 DEF IInv, TypeOK
  <2>b. status[o] # "CANCELING"
    BY <1>1 DEF IInv, Book, Reported, Outcomes
  <2>1. ASSUME NEW q \in Orders, SubmitRegister(q) PROVE Rank(status'[o]) > Rank(status[o])
    <3>1. status[o] = "none" /\ status'[o] = "NEW"
      BY <1>1, <2>1, <2>t DEF SubmitRegister, IInv, Registration, TypeOK
    <3>2. Rank("none") = 0 /\ Rank("NEW") = 2
      BY DEF Rank
    <3> QED BY <3>1, <3>2
  <2>2. ASSUME NEW q \in Orders, NEW st, st # "CANCELING", UpdateStatus(q, st)
        PROVE  Rank(status'[o]) > Rank(status[o])
    <3>1. q = o /\ Known(o) /\ status'[o] = st /\ ValidTransition(status[o], st)
      BY <2>2, <2>t, UpdateLemma
    <3>2. status[o] \in Status
      BY <2>t, <3>1 DEF Known
    <3> QED BY <2>2, <2>b, <3>1, <3>2, TransitionLemma
  <2>3. ASSUME NEW q \in Orders, NEW st, Report(q, st)
        PROVE  Rank(status'[o]) > Rank(status[o])
    BY <2>2, <2>3 DEF Report, Reported, Outcomes
  <2> QED BY <1>1, <2>1, <2>2, <2>3, StepKinds
          DEF IInv, Kinds, SubmitReject, Decides, Quiet
<1> QED BY <1>1, InvariantInit, InvariantStep, PTL DEF Spec, OrdersNeverGoBack

-----------------------------------------------------------------------------
(* Refinement of OrderLifecycle. *)

LEMMA LifecycleInit == Init => Lifecycle!Init
  BY DEF Init, Lifecycle!Init, FateOf, ViewOf

\* A step that leaves the fates alone and moves one view does what the book may do.
LEMMA ViewStep ==
  ASSUME TypeOK, NEW o \in Orders, UNCHANGED exchange,
         \A q \in Orders \ {o} : status'[q] = status[q],
         status' \in [Orders -> {"none"} \union Status],
         \/ ViewOf(status'[o]) = ViewOf(status[o])
         \/ ViewOf(status[o]) = "none" /\ ViewOf(status'[o]) = "unconfirmed"
         \/ ViewOf(status[o]) = "unconfirmed" /\ ViewOf(status'[o]) = "rejected"
         \/ /\ ViewOf(status[o]) = "unconfirmed" /\ ViewOf(status'[o]) = "confirmed"
            /\ FateOf(exchange[o]) # "none"
         \/ /\ ViewOf(status[o]) \in {"unconfirmed", "confirmed"}
            /\ FateOf(exchange[o]) \in {"filled", "canceled", "expired"}
            /\ ViewOf(status'[o]) = FateOf(exchange[o])
  PROVE  [Lifecycle!Next]_(Lifecycle!vars)
<1> DEFINE view == [q \in Orders |-> ViewOf(status[q])]
           nview == [q \in Orders |-> ViewOf(status'[q])]
           fate == [q \in Orders |-> FateOf(exchange[q])]
<1>1. nview = [view EXCEPT ![o] = ViewOf(status'[o])]
  OBVIOUS
<1>2. view[o] = ViewOf(status[o]) /\ fate[o] = FateOf(exchange[o])
  OBVIOUS
<1>3. fate' = fate /\ view' = nview
  OBVIOUS
<1> HIDE DEF view, nview, fate
<1>4. CASE ViewOf(status'[o]) = ViewOf(status[o])
  <2>1. nview = view
    BY <1>4 DEF nview, view
  <2> QED BY <2>1, <1>3 DEF Lifecycle!vars, view, fate
<1>5. CASE ViewOf(status[o]) = "none" /\ ViewOf(status'[o]) = "unconfirmed"
  <2>1. Lifecycle!Announce(o)
    BY <1>1, <1>2, <1>3, <1>5 DEF Lifecycle!Announce, view, fate
  <2> QED BY <2>1 DEF Lifecycle!Next
<1>6. CASE ViewOf(status[o]) = "unconfirmed" /\ ViewOf(status'[o]) = "rejected"
  <2>1. Lifecycle!WriteOff(o)
    BY <1>1, <1>2, <1>3, <1>6 DEF Lifecycle!WriteOff, view, fate
  <2> QED BY <2>1 DEF Lifecycle!Next
<1>7. CASE /\ ViewOf(status[o]) = "unconfirmed" /\ ViewOf(status'[o]) = "confirmed"
           /\ FateOf(exchange[o]) # "none"
  <2>1. Lifecycle!Confirm(o)
    BY <1>1, <1>2, <1>3, <1>7 DEF Lifecycle!Confirm, view, fate
  <2> QED BY <2>1 DEF Lifecycle!Next
<1>8. CASE /\ ViewOf(status[o]) \in {"unconfirmed", "confirmed"}
           /\ FateOf(exchange[o]) \in {"filled", "canceled", "expired"}
           /\ ViewOf(status'[o]) = FateOf(exchange[o])
  <2>1. Lifecycle!Close(o)
    BY <1>1, <1>2, <1>3, <1>8 DEF Lifecycle!Close, Lifecycle!Ends, view, fate
  <2> QED BY <2>1 DEF Lifecycle!Next
<1> QED BY <1>4, <1>5, <1>6, <1>7, <1>8

\* A step that leaves the views alone and moves one fate does what the exchange may do.
LEMMA FateStep ==
  ASSUME TypeOK, NEW o \in Orders, NEW v, UNCHANGED status,
         exchange' = [exchange EXCEPT ![o] = v],
         \/ FateOf(v) = FateOf(exchange[o])
         \/ FateOf(exchange[o]) = "none" /\ FateOf(v) = "open" /\ ViewOf(status[o]) # "none"
         \/ FateOf(exchange[o]) = "open" /\ FateOf(v) \in {"filled", "canceled", "expired"}
  PROVE  [Lifecycle!Next]_(Lifecycle!vars)
<1> DEFINE view == [q \in Orders |-> ViewOf(status[q])]
           nfate == [q \in Orders |-> FateOf(exchange'[q])]
           fate == [q \in Orders |-> FateOf(exchange[q])]
<1>1. nfate = [fate EXCEPT ![o] = FateOf(v)]
  BY DEF TypeOK
<1>2. view[o] = ViewOf(status[o]) /\ fate[o] = FateOf(exchange[o])
  OBVIOUS
<1>3. fate' = nfate /\ view' = view
  OBVIOUS
<1> HIDE DEF view, nfate, fate
<1>4. CASE FateOf(v) = FateOf(exchange[o])
  <2>1. nfate = fate
    BY <1>1, <1>4 DEF nfate, fate
  <2> QED BY <2>1, <1>3 DEF Lifecycle!vars, view, fate
<1>5. CASE FateOf(exchange[o]) = "none" /\ FateOf(v) = "open" /\ ViewOf(status[o]) # "none"
  <2>1. Lifecycle!Accept(o)
    BY <1>1, <1>2, <1>3, <1>5 DEF Lifecycle!Accept, view, fate
  <2> QED BY <2>1 DEF Lifecycle!Next
<1>6. CASE FateOf(exchange[o]) = "open" /\ FateOf(v) \in {"filled", "canceled", "expired"}
  <2>1. Lifecycle!Finish(o, FateOf(v)) /\ FateOf(v) \in Lifecycle!Ends
    BY <1>1, <1>2, <1>3, <1>6 DEF Lifecycle!Finish, Lifecycle!Ends, view, fate
  <2> QED BY <2>1 DEF Lifecycle!Next
<1> QED BY <1>4, <1>5, <1>6

LEMMA LifecycleStep == IInv /\ [Next]_vars => [Lifecycle!Next]_(Lifecycle!vars)
<1> SUFFICES ASSUME IInv, [Next]_vars PROVE [Lifecycle!Next]_(Lifecycle!vars)
  OBVIOUS
<1>t. TypeOK
  BY DEF IInv
<1>v. /\ ViewOf("none") = "none" /\ ViewOf("NEW") = "unconfirmed"
      /\ ViewOf("PENDING") = "unconfirmed" /\ ViewOf("REJECTED") = "rejected"
      /\ ViewOf("ACK") = "confirmed" /\ ViewOf("PARTIAL") = "confirmed"
      /\ ViewOf("CANCELING") = "confirmed" /\ ViewOf("FILLED") = "filled"
      /\ ViewOf("CANCELED") = "canceled" /\ ViewOf("EXPIRED") = "expired"
  BY DEF ViewOf, FateOf
<1>f. /\ FateOf("none") = "none" /\ FateOf("refused") = "none" /\ FateOf("ACK") = "open"
      /\ FateOf("PARTIAL") = "open" /\ FateOf("FILLED") = "filled"
      /\ FateOf("CANCELED") = "canceled" /\ FateOf("EXPIRED") = "expired"
  BY DEF FateOf
<1>1. ASSUME NEW o \in Orders, SubmitRegister(o) PROVE [Lifecycle!Next]_(Lifecycle!vars)
  <2>1. status[o] = "none" /\ status' = [status EXCEPT ![o] = "NEW"] /\ exchange' = exchange
    BY <1>1 DEF SubmitRegister, IInv, Registration
  <2>2. /\ status' \in [Orders -> {"none"} \union Status]
        /\ status'[o] = "NEW"
        /\ \A q \in Orders \ {o} : status'[q] = status[q]
    BY <2>1, <1>t DEF TypeOK, Status, ActiveStates
  <2> QED BY <2>1, <2>2, <1>t, <1>v, ViewStep
<1>2. ASSUME NEW o \in Orders, SubmitReject(o) PROVE [Lifecycle!Next]_(Lifecycle!vars)
  <2>1. UpdateStatus(o, "REJECTED") /\ exchange' = exchange
    BY <1>2 DEF SubmitReject
  <2>2. /\ status' \in [Orders -> {"none"} \union Status]
        /\ \A q \in Orders \ {o} : status'[q] = status[q]
    BY <2>1, <1>t, UpdateLemma
  <2>3. \/ status'[o] = status[o]
        \/ status[o] \in {"PENDING", "NEW", "REJECTED"} /\ status'[o] = "REJECTED"
    BY <2>1, <1>t, UpdateLemma, TransitionLemma DEF TypeOK, Known
  <2> QED BY <2>1, <2>2, <2>3, <1>t, <1>v, ViewStep
<1>3. ASSUME NEW o \in Orders, NEW st, Report(o, st) PROVE [Lifecycle!Next]_(Lifecycle!vars)
  <2>1. UpdateStatus(o, st) /\ exchange' = exchange /\ Reported(o, st)
    BY <1>3 DEF Report
  <2>2. /\ status' \in [Orders -> {"none"} \union Status]
        /\ \A q \in Orders \ {o} : status'[q] = status[q]
    BY <2>1, <1>t, UpdateLemma
  <2>3. CASE status'[o] = status[o]
    BY <2>1, <2>2, <2>3, <1>t, ViewStep
  <2>4. CASE status'[o] # status[o]
    <3>1. Known(o) /\ status'[o] = st /\ ValidTransition(status[o], st)
      BY <2>1, <2>4, <1>t, UpdateLemma
    <3>2. status[o] \in Status \ FinalStates
      BY <2>4, <3>1, <1>t, TransitionLemma DEF TypeOK, Known
    <3>3. ViewOf(status[o]) \in {"unconfirmed", "confirmed"}
      BY <3>2, <1>v DEF Status, ActiveStates
    <3>4. FateOf(exchange[o]) # "none"
      BY <2>1, <1>f, <1>t DEF Reported, TypeOK, Outcomes
    <3>5. CASE st \in FinalStates
      <4>1. exchange[o] = st /\ st \in {"FILLED", "CANCELED", "EXPIRED"}
        BY <2>1, <3>5 DEF Reported, Outcomes, FinalStates
      <4>2. ViewOf(status'[o]) = FateOf(exchange[o])
            /\ FateOf(exchange[o]) \in {"filled", "canceled", "expired"}
        BY <3>1, <4>1, <1>v, <1>f
      <4> QED BY <2>1, <2>2, <3>3, <4>2, <1>t, ViewStep
    <3>6. CASE st \in {"ACK", "PARTIAL"}
      <4>1. ViewOf(status'[o]) = "confirmed"
        BY <3>1, <3>6, <1>v
      <4> QED BY <2>1, <2>2, <3>3, <3>4, <4>1, <1>t, ViewStep
    <3> QED BY <2>1, <3>5, <3>6 DEF Reported, Outcomes, FinalStates
  <2> QED BY <2>3, <2>4
<1>4. ASSUME NEW o \in Orders, NEW v, Decides(o, v) PROVE [Lifecycle!Next]_(Lifecycle!vars)
  <2>1. exchange' = [exchange EXCEPT ![o] = v] /\ status' = status
    BY <1>4 DEF Decides
  <2>2. CASE <<"place", o>> \in network /\ v \in {"ACK", "refused"}
    <3>1. exchange[o] = "none" /\ status[o] # "none" /\ status[o] \in Status
      BY <2>2, <1>t DEF IInv, Registration, TypeOK
    <3>2. ViewOf(status[o]) # "none"
      BY <3>1, <1>v DEF Status, ActiveStates, FinalStates
    <3> QED BY <2>1, <2>2, <3>1, <3>2, <1>t, <1>f, FateStep
  <2>3. CASE Live(o) /\ v \in {"PARTIAL", "FILLED", "EXPIRED", "CANCELED"}
    <3>1. FateOf(exchange[o]) = "open" /\ FateOf(v) \in {"open", "filled", "canceled", "expired"}
      BY <2>3, <1>f DEF Live
    <3> QED BY <2>1, <3>1, <1>t, FateStep
  <2> QED BY <1>4, <2>2, <2>3 DEF Decides
<1>5. CASE Quiet
  BY <1>5 DEF Quiet, Lifecycle!vars
<1> QED BY <1>1, <1>2, <1>3, <1>4, <1>5, StepKinds DEF IInv, Kinds

\* Manager and Reconciler implement OrderLifecycle (manager.go, reconciler.go), for
\* any number of orders, of cancelling goroutines and of reconcilers.
THEOREM Refinement == Spec => ImplementsLifecycle
  BY LifecycleInit, LifecycleStep, InvariantInit, InvariantStep, PTL
  DEF Spec, ImplementsLifecycle, Lifecycle!Spec

-----------------------------------------------------------------------------
(* FillTracker *)

InTimeOrder(fills) == \A i, j \in 1..Len(fills) : i < j => fills[i] <= fills[j]
LastFill == history[Len(history)]

\* What the tracker keeps is the end of the history.
Cut == Len(history) - Len(recentFills)
KeptFills ==
  /\ Len(recentFills) <= Len(history)
  /\ \A i \in 1..Len(recentFills) : recentFills[i] = history[Cut + i]
  /\ history # <<>> => recentFills # <<>>

\* What it has cut off was before the window, or too much.
CutRightly ==
  Cut > 0 => Len(recentFills) = MaxHistory \/ ~Within(history[Cut], Window, LastFill)

RateOfLastFill ==
  recentFillRate = IF history = <<>> THEN 0 ELSE CountWithin(recentFills, Window, LastFill)

FillInv ==
  /\ now \in Nat /\ enabled \in BOOLEAN
  /\ rateLimit \in Nat /\ countLimit \in Nat
  /\ recentFills \in Seq(0..now) /\ history \in Seq(0..now)
  /\ Len(recentFills) <= MaxHistory
  /\ InTimeOrder(history) /\ totalFills = Len(history)
  /\ KeptFills /\ CutRightly /\ RateOfLastFill

LEMMA Elements ==
  ASSUME NEW S, NEW s \in Seq(S)
  PROVE  Len(s) \in Nat /\ DOMAIN s = 1..Len(s) /\ \A i \in 1..Len(s) : s[i] \in S
  OBVIOUS

LEMMA Appended ==
  ASSUME NEW m \in Nat, NEW s \in Seq(0..m), NEW t, t = Append(s, m)
  PROVE  /\ t \in Seq(0..m) /\ t # <<>> /\ Len(t) = Len(s) + 1 /\ t[Len(s) + 1] = m
         /\ \A i \in 1..Len(s) : t[i] = s[i]
<1>1. m \in 0..m
  OBVIOUS
<1> QED
  BY <1>1, AppendProperties

LEMMA IntervalLength ==
  ASSUME NEW a \in Int, NEW b \in Int, a <= b + 1
  PROVE  IsFiniteSet(a..b) /\ Cardinality(a..b) = b - a + 1
<1>1. IsFiniteSet(a..b) /\ Cardinality(a..b) = IF a > b THEN 0 ELSE b - a + 1
  BY FS_Interval
<1>2. CASE a > b
  BY <1>1, <1>2
<1>3. CASE a <= b
  BY <1>1, <1>3
<1> QED
  BY <1>2, <1>3

\* Fills in the order of time that are within d of a time are the last ones.
LEMMA CountLemma ==
  ASSUME NEW m \in Nat, NEW fills \in Seq(0..m), InTimeOrder(fills), NEW d \in Nat, NEW at \in Nat
  PROVE  /\ CountWithin(fills, d, at) \in 0..Len(fills)
         /\ \A i \in 1..Len(fills) :
              Within(fills[i], d, at) <=> i > Len(fills) - CountWithin(fills, d, at)
<1> DEFINE L == Len(fills)
           W == {i \in 1..L : Within(fills[i], d, at)}
           n == CountWithin(fills, d, at)
<1>1. L \in Nat /\ DOMAIN fills = 1..L /\ \A i \in 1..L : fills[i] \in 0..m
  BY Elements
<1>2. n = Cardinality(W) /\ W \in SUBSET (1..L)
  BY <1>1 DEF CountWithin
<1>3. \A i \in W : \A j \in i..L : j \in W
  <2> SUFFICES ASSUME NEW i \in W, NEW j \in i..L PROVE j \in W
    OBVIOUS
  <2>1. i \in 1..L /\ j \in 1..L /\ fills[i] \in Nat /\ fills[j] \in Nat
    BY <1>1
  <2>2. fills[i] <= fills[j] /\ fills[i] + d > at
    BY <2>1 DEF InTimeOrder, Within
  <2>3. fills[j] + d > at
    BY <2>1, <2>2
  <2> QED
    BY <2>1, <2>3 DEF Within
<1>4. \A i \in 1..L : i \in W <=> Within(fills[i], d, at)
  OBVIOUS
<1> HIDE DEF L, W, n
<1>5. IsFiniteSet(1..L) /\ Cardinality(1..L) = L
  <2>1. L - 1 + 1 = L /\ 1 \in Int /\ L \in Int /\ 1 <= L + 1
    BY <1>1
  <2> QED
    BY <2>1, IntervalLength
<1>6. IsFiniteSet(W) /\ n \in Nat /\ n <= L
  BY <1>2, <1>5, FS_Subset, FS_CardinalityType
<1> DEFINE first == L - n + 1
<1>7. first \in Int /\ first >= 1 /\ first <= L + 1 /\ L - first + 1 = n /\ L \in Int
  BY <1>1, <1>6
<1>8. IsFiniteSet(first..L) /\ Cardinality(first..L) = n
  BY <1>7, IntervalLength
<1>9. \A i \in W : i >= first
  <2> SUFFICES ASSUME NEW i \in W PROVE i >= first
    OBVIOUS
  <2>1. i \in 1..L /\ i \in Int /\ i <= L + 1
    BY <1>1, <1>2
  <2>2. (i..L) \in SUBSET W
    BY <1>3
  <2>3. Cardinality(i..L) = L - i + 1
    BY <1>7, <2>1, IntervalLength
  <2>4. Cardinality(i..L) <= n
    BY <2>2, <1>2, <1>6, FS_Subset
  <2> QED
    BY <1>1, <1>6, <2>1, <2>3, <2>4
<1>10. W = first..L
  <2>1. W \in SUBSET (first..L)
    BY <1>2, <1>7, <1>9
  <2> QED
    BY <2>1, <1>2, <1>8, FS_Subset
<1>11. \A i \in 1..L : Within(fills[i], d, at) <=> i > L - n
  BY <1>1, <1>4, <1>6, <1>10
<1>12. n \in 0..L
  BY <1>1, <1>6
<1> QED
  BY <1>11, <1>12 DEF L, n

\* Two rows of numbers, one the end of the other, have the same number of late ones, up
\* to the length of the shorter.
LEMMA SameEnd ==
  ASSUME NEW L \in Nat, NEW K \in 0..L, NEW c \in 0..L, NEW r \in 0..K,
         \A i \in 1..K : i > K - r <=> L - K + i > L - c
  PROVE  (c <= K => r = c) /\ (c > K => r = K)
<1>1. ASSUME r < K, r < c PROVE FALSE
  <2>1. K - r \in 1..K
    BY <1>1
  <2>2. ~(K - r > K - r) /\ L - K + (K - r) > L - c
    BY <1>1
  <2> QED
    BY <2>1, <2>2
<1>2. ASSUME c < r PROVE FALSE
  <2>1. K - c \in 1..K
    BY <1>2
  <2>2. K - c > K - r /\ ~(L - K + (K - c) > L - c)
    BY <1>2
  <2> QED
    BY <2>1, <2>2
<1> QED
  BY <1>1, <1>2

Capped(n) == IF n <= MaxHistory THEN n ELSE MaxHistory

\* The tracker counts what the history counts, up to MaxHistory.
LEMMA KeptCount ==
  ASSUME FillInv, NEW d \in Nat, d <= Window, NEW at \in Nat, history # <<>> => LastFill <= at
  PROVE  /\ CountWithin(history, d, at) \in Nat
         /\ CountWithin(recentFills, d, at) = Capped(CountWithin(history, d, at))
<1> DEFINE L == Len(history)  K == Len(recentFills)
           c == CountWithin(history, d, at)  r == CountWithin(recentFills, d, at)
<1>1. /\ L \in Nat /\ K \in Nat /\ now \in Nat
      /\ (\A i \in 1..L : history[i] \in 0..now)
      /\ (\A i \in 1..K : recentFills[i] \in 0..now)
  BY Elements DEF FillInv
<1>2. MaxHistory \in Nat /\ Window \in Nat
  BY HistoryAssumption, WindowAssumption
<1>3. /\ K <= L /\ K <= MaxHistory
      /\ \A i \in 1..K : recentFills[i] = history[L - K + i]
      /\ L - K > 0 => K = MaxHistory \/ ~Within(history[L - K], Window, LastFill)
  BY DEF FillInv, KeptFills, CutRightly, Cut
<1>4. InTimeOrder(history) /\ history \in Seq(0..now) /\ recentFills \in Seq(0..now)
  BY DEF FillInv
<1>5. \A i, j \in 1..L : i < j => history[i] <= history[j]
  BY <1>4 DEF InTimeOrder
<1>6. L > 0 => LastFill <= at /\ LastFill = history[L]
  BY DEF LastFill
<1>7. c \in 0..L /\ \A i \in 1..L : Within(history[i], d, at) <=> i > L - c
  BY <1>1, <1>4, CountLemma
<1>8. InTimeOrder(recentFills)
  <2> SUFFICES ASSUME NEW i \in 1..K, NEW j \in 1..K, i < j PROVE recentFills[i] <= recentFills[j]
    BY DEF InTimeOrder
  <2>1. L - K + i \in 1..L /\ L - K + j \in 1..L /\ L - K + i < L - K + j
    BY <1>1, <1>3
  <2> QED
    BY <2>1, <1>3, <1>5
<1>9. r \in 0..K /\ \A i \in 1..K : Within(recentFills[i], d, at) <=> i > K - r
  BY <1>1, <1>4, <1>8, CountLemma
<1> HIDE DEF L, K, c, r
<1>10. \A i \in 1..K : (i > K - r <=> L - K + i > L - c)
  <2> TAKE i \in 1..K
  <2>1. L - K + i \in 1..L
    BY <1>1, <1>3
  <2> QED
    BY <2>1, <1>3, <1>7, <1>9
<1>11. (c <= K => r = c) /\ (c > K => r = K)
  <2>1. K \in 0..L
    BY <1>1, <1>3
  <2> QED
    BY <2>1, <1>1, <1>7, <1>9, <1>10, SameEnd
<1>12. ASSUME c > K PROVE K = MaxHistory
  <2>1. L - K \in 1..L /\ L \in 1..L /\ L - K > L - c /\ L > 0
    BY <1>1, <1>3, <1>7, <1>12
  <2>2. Within(history[L - K], d, at)
    BY <2>1, <1>7
  <2>3. history[L - K] \in Nat /\ LastFill \in Nat /\ LastFill <= at
    BY <2>1, <1>1, <1>6
  <2>4. Within(history[L - K], Window, LastFill)
    BY <2>2, <2>3, <1>2 DEF Within
  <2> QED
    BY <2>1, <2>4, <1>3
<1>13. c \in Nat /\ r = Capped(c)
  BY <1>1, <1>2, <1>3, <1>7, <1>11, <1>12 DEF Capped
<1> QED
  BY <1>13 DEF c, r

\* Fills in the order of time, the last of them now: what cleanOldFills keeps are the last
\* of them, as many as are within the window, and no more than MaxHistory.
LEMMA CleanLemma ==
  ASSUME now \in Nat, NEW fills \in Seq(0..now), InTimeOrder(fills),
         fills # <<>>, fills[Len(fills)] = now
  PROVE  LET n == CountWithin(fills, Window, now)
         IN  /\ n \in 1..Len(fills)
             /\ cleanOldFills(fills) \in Seq(0..now)
             /\ Len(cleanOldFills(fills)) = Capped(n)
             /\ \A i \in 1..Capped(n) : cleanOldFills(fills)[i] = fills[Len(fills) - Capped(n) + i]
<1> DEFINE L == Len(fills)
           n == CountWithin(fills, Window, now)
           v == validFills(fills)
           kept == cleanOldFills(fills)
<1>1. L \in Nat \ {0} /\ DOMAIN fills = 1..L /\ (\A i \in 1..L : fills[i] \in 0..now)
  BY Elements, EmptySeq
<1>2. Window \in Nat \ {0} /\ MaxHistory \in Nat \ {0}
  BY WindowAssumption, HistoryAssumption
<1>3. n \in 0..L /\ \A i \in 1..L : Within(fills[i], Window, now) <=> i > L - n
  BY <1>2, CountLemma
<1>4. fills[L] = now
  OBVIOUS
<1>5. valid(fills) = {i \in 1..L : Within(fills[i], Window, now)}
  BY <1>1 DEF valid
<1>6. v = IF valid(fills) = {} THEN fills ELSE SubSeq(fills, validStart(fills), L)
  BY DEF validFills
<1>7. kept = IF Len(v) > MaxHistory THEN SubSeq(v, Len(v) - MaxHistory + 1, Len(v)) ELSE v
  BY DEF cleanOldFills, Last
<1> HIDE DEF L, n, v, kept
<1>8. n \in 1..L
  <2>1. L \in 1..L /\ Within(fills[L], Window, now)
    BY <1>1, <1>2, <1>4 DEF Within
  <2> QED
    BY <2>1, <1>1, <1>3
<1> DEFINE first == L - n + 1
<1>9. first \in 1..L /\ L - first + 1 = n
  BY <1>1, <1>8
<1>10. \A i \in 1..L : i \in valid(fills) <=> first <= i
  BY <1>1, <1>3, <1>5, <1>8
<1>11. valid(fills) \subseteq 1..L
  BY <1>5
<1> HIDE DEF first
<1>12. validStart(fills) = first
  <2>1. first \in valid(fills) /\ \A j \in valid(fills) : first <= j
    BY <1>9, <1>10, <1>11
  <2>2. \A i \in valid(fills) : (\A j \in valid(fills) : i <= j) => i = first
    BY <2>1, <1>9, <1>11, <1>1
  <2> QED
    BY <2>1, <2>2 DEF validStart
<1>13. v \in Seq(0..now) /\ Len(v) = n /\ \A i \in 1..n : v[i] = fills[first + i - 1]
  <2>1. v = SubSeq(fills, first, L)
    <3>1. first \in valid(fills)
      BY <1>1, <1>9, <1>10
    <3> QED
      BY <3>1, <1>6, <1>12
  <2>2. \A i \in first..L : fills[i] \in 0..now
    BY <1>1, <1>9
  <2>3. first \in Int /\ L \in Int /\ first <= L
    BY <1>1, <1>9
  <2> QED
    BY <2>1, <2>2, <2>3, <1>9, SubSeqProperties
<1>14. CASE n <= MaxHistory
  <2>1. kept = v /\ Capped(n) = n
    BY <1>1, <1>2, <1>7, <1>8, <1>13, <1>14 DEF Capped
  <2>2. \A i \in 1..n : first + i - 1 = L - n + i
    BY <1>1, <1>8 DEF first
  <2>3. n \in 1..L /\ kept \in Seq(0..now) /\ Len(kept) = Capped(n)
        /\ \A i \in 1..Capped(n) : kept[i] = fills[L - Capped(n) + i]
    BY <2>1, <2>2, <1>8, <1>13
  <2> QED
    BY <2>3 DEF kept, L, n
<1>15. CASE n > MaxHistory
  <2> DEFINE start == n - MaxHistory + 1
  <2>1. start \in 1..n /\ n - start + 1 = MaxHistory /\ n \in Int /\ start <= n /\ start \in Int
    BY <1>1, <1>2, <1>8, <1>15
  <2>2. kept = SubSeq(v, start, n) /\ Capped(n) = MaxHistory
    BY <1>1, <1>2, <1>7, <1>8, <1>13, <1>15 DEF Capped
  <2>3. \A i \in 1..MaxHistory : start + i - 1 \in 1..n /\ first + (start + i - 1) - 1 = L - MaxHistory + i
    BY <1>1, <1>2, <1>8, <1>15 DEF first
  <2> HIDE DEF start
  <2>4. \A i \in start..n : v[i] \in 0..now
    <3>1. \A i \in 1..n : v[i] \in 0..now
      BY <1>13, Elements
    <3> QED
      BY <3>1, <2>1, <1>1, <1>8
  <2>5. kept \in Seq(0..now) /\ Len(kept) = MaxHistory
        /\ \A i \in 1..MaxHistory : kept[i] = v[start + i - 1]
    BY <2>1, <2>2, <2>4, SubSeqProperties
  <2>6. n \in 1..L /\ kept \in Seq(0..now) /\ Len(kept) = Capped(n)
        /\ \A i \in 1..Capped(n) : kept[i] = fills[L - Capped(n) + i]
    <3>1. \A i \in 1..MaxHistory : kept[i] = fills[L - MaxHistory + i]
      <4> TAKE i \in 1..MaxHistory
      <4>1. kept[i] = v[start + i - 1] /\ start + i - 1 \in 1..n
        BY <2>3, <2>5
      <4>2. v[start + i - 1] = fills[first + (start + i - 1) - 1]
        BY <4>1, <1>13
      <4> QED
        BY <4>1, <4>2, <2>3
    <3> QED
      BY <3>1, <2>2, <2>5, <1>8
  <2> QED
    BY <2>6 DEF kept, L, n
<1> QED
  BY <1>1, <1>2, <1>8, <1>14, <1>15

LEMMA FillInvInit == FTInit => FillInv
<1> SUFFICES ASSUME FTInit PROVE FillInv
  OBVIOUS
<1>1. Len(recentFills) = 0 /\ Len(history) = 0
      /\ recentFills \in Seq(0..now) /\ history \in Seq(0..now)
  BY EmptySeq DEF FTInit
<1>2. InTimeOrder(history) /\ KeptFills /\ CutRightly /\ RateOfLastFill
  BY <1>1 DEF FTInit, InTimeOrder, KeptFills, CutRightly, RateOfLastFill, Cut
<1>3. now \in Nat /\ enabled \in BOOLEAN /\ rateLimit \in Nat /\ countLimit \in Nat
      /\ totalFills = 0
  BY DEF FTInit
<1>4. Len(recentFills) <= MaxHistory /\ totalFills = Len(history)
  BY <1>1, <1>3, HistoryAssumption
<1> QED
  BY <1>1, <1>2, <1>3, <1>4 DEF FillInv

\* A fill keeps the invariant: it is the last of both sequences, and what is cut off with
\* it is before the window that ends with it, or too much.
LEMMA RecordLemma ==
  ASSUME FillInv, RecordFill, UNCHANGED <<now, limits>>
  PROVE  FillInv'
<1> DEFINE L == Len(history)  K == Len(recentFills)
           a == Append(recentFills, now)
           n == CountWithin(a, Window, now)
           m == Capped(n)
<1>1. /\ L \in Nat /\ K \in Nat /\ now \in Nat
      /\ (\A i \in 1..L : history[i] \in 0..now)
      /\ (\A i \in 1..K : recentFills[i] \in 0..now)
  BY Elements DEF FillInv
<1>2. MaxHistory \in Nat \ {0} /\ Window \in Nat \ {0}
  BY HistoryAssumption, WindowAssumption
<1>3. /\ K <= L /\ K <= MaxHistory
      /\ \A i \in 1..K : recentFills[i] = history[L - K + i]
      /\ L - K > 0 => K = MaxHistory \/ ~Within(history[L - K], Window, LastFill)
      /\ \A i, j \in 1..L : i < j => history[i] <= history[j]
  BY DEF FillInv, KeptFills, CutRightly, Cut, InTimeOrder
<1>4. L > 0 => LastFill = history[L]
  BY DEF LastFill
<1>5. now \in 0..now /\ history \in Seq(0..now) /\ recentFills \in Seq(0..now)
  BY <1>1 DEF FillInv
<1>6. /\ a \in Seq(0..now) /\ a # <<>> /\ Len(a) = K + 1 /\ a[K + 1] = now
      /\ \A i \in 1..K : a[i] = recentFills[i]
  BY <1>1, <1>5, Appended
<1>7. /\ history' \in Seq(0..now) /\ history' # <<>> /\ Len(history') = L + 1
      /\ history'[L + 1] = now /\ \A i \in 1..L : history'[i] = history[i]
  <2>1. history' = Append(history, now)
    BY DEF RecordFill
  <2> QED
    BY <2>1, <1>1, <1>5, Appended
<1>8. recentFills' = cleanOldFills(a) /\ totalFills' = totalFills + 1 /\ totalFills = L
      /\ now' = now /\ UNCHANGED <<enabled, rateLimit, countLimit>>
      /\ recentFillRate' = CountWithin(recentFills', Window, now)
  BY DEF RecordFill, limits, FillInv
<1>9. \A i \in 1..(K + 1) : a[i] = history'[L - K + i]
  <2> TAKE i \in 1..(K + 1)
  <2>1. CASE i = K + 1
    BY <2>1, <1>1, <1>6, <1>7
  <2>2. CASE i \in 1..K
    <3>1. L - K + i \in 1..L
      BY <2>2, <1>1, <1>3
    <3> QED
      BY <3>1, <2>2, <1>3, <1>6, <1>7
  <2> QED
    BY <2>1, <2>2, <1>1
<1>10. \A i, j \in 1..(L + 1) : i < j => history'[i] <= history'[j]
  <2> SUFFICES ASSUME NEW i \in 1..(L + 1), NEW j \in 1..(L + 1), i < j
               PROVE  history'[i] <= history'[j]
    OBVIOUS
  <2>1. i \in 1..L /\ history'[i] = history[i] /\ history[i] \in 0..now
    BY <1>1, <1>7
  <2>2. CASE j \in 1..L
    BY <2>1, <2>2, <1>3, <1>7
  <2>3. CASE j = L + 1
    BY <2>1, <2>3, <1>7, <1>1
  <2> QED
    BY <2>2, <2>3, <1>1
<1>11. InTimeOrder(a)
  <2> SUFFICES ASSUME NEW i \in 1..(K + 1), NEW j \in 1..(K + 1), i < j PROVE a[i] <= a[j]
    BY <1>6 DEF InTimeOrder
  <2>1. L - K + i \in 1..(L + 1) /\ L - K + j \in 1..(L + 1) /\ L - K + i < L - K + j
    BY <1>1, <1>3
  <2> QED
    BY <2>1, <1>9, <1>10
<1>12. /\ n \in 1..(K + 1)
       /\ recentFills' \in Seq(0..now) /\ Len(recentFills') = m
       /\ \A i \in 1..m : recentFills'[i] = a[K + 1 - m + i]
  <2>1. a[Len(a)] = now
    BY <1>6
  <2>2. /\ n \in 1..Len(a)
        /\ cleanOldFills(a) \in Seq(0..now) /\ Len(cleanOldFills(a)) = m
        /\ \A i \in 1..m : cleanOldFills(a)[i] = a[Len(a) - m + i]
    BY <2>1, <1>1, <1>6, <1>11, CleanLemma
  <2>3. Len(a) = K + 1 /\ recentFills' = cleanOldFills(a)
    BY <1>6, <1>8
  <2> HIDE DEF a, m, n, K
  <2> QED
    BY <2>2, <2>3, <1>1
<1>13. \A i \in 1..(K + 1) : Within(a[i], Window, now) <=> i > K + 1 - n
  <2>1. Window \in Nat /\ now \in Nat /\ Len(a) = K + 1
    BY <1>1, <1>2, <1>6
  <2>2. \A i \in 1..Len(a) : Within(a[i], Window, now) <=> i > Len(a) - n
    BY <2>1, <1>6, <1>11, CountLemma
  <2> HIDE DEF a, n, K
  <2> QED
    BY <2>1, <2>2, <1>1, <1>12
<1> HIDE DEF L, K, a, n
<1>14. m \in 1..(K + 1) /\ m <= MaxHistory /\ (m < MaxHistory => m = n)
  BY <1>1, <1>2, <1>12 DEF Capped
<1> HIDE DEF m
<1>15. \A i \in 1..m : recentFills'[i] = history'[L + 1 - m + i]
  <2> TAKE i \in 1..m
  <2>1. K + 1 - m + i \in 1..(K + 1) /\ L - K + (K + 1 - m + i) = L + 1 - m + i
    BY <1>1, <1>14
  <2> QED
    BY <2>1, <1>9, <1>12
<1>16. L + 1 - m > 0 => m = MaxHistory \/ ~Within(history'[L + 1 - m], Window, now)
  <2> SUFFICES ASSUME L + 1 - m > 0, m # MaxHistory
               PROVE  ~Within(history'[L + 1 - m], Window, now)
    OBVIOUS
  <2>1. m = n
    BY <1>2, <1>14, <1>1
  <2>2. CASE n < K + 1
    <3>1. K + 1 - n \in 1..(K + 1) /\ L - K + (K + 1 - n) = L + 1 - m
      BY <2>1, <2>2, <1>1, <1>12
    <3>2. ~Within(a[K + 1 - n], Window, now)
      BY <3>1, <1>13, <1>1, <1>12
    <3> QED
      BY <3>1, <3>2, <1>9
  <2>3. CASE n = K + 1
    <3>1. L + 1 - m = L - K /\ L - K \in 1..L /\ K < MaxHistory /\ L \in 1..L
      BY <2>1, <2>3, <1>1, <1>2, <1>3, <1>14
    <3>2. ~Within(history[L - K], Window, LastFill) /\ LastFill = history[L]
      BY <3>1, <1>3, <1>4, <1>1, <1>2
    <3>3. history[L - K] \in Nat /\ LastFill \in 0..now
      BY <3>1, <3>2, <1>1
    <3>4. ~Within(history[L - K], Window, now)
      BY <3>2, <3>3, <1>1, <1>2 DEF Within
    <3> QED
      BY <3>1, <3>4, <1>7
  <2> QED
    BY <2>2, <2>3, <1>12, <1>1
<1>17. Len(recentFills') = m /\ Len(history') = L + 1 /\ LastFill' = now
  BY <1>7, <1>12 DEF LastFill
<1>18. m # 0 /\ recentFills' # <<>>
  <2>1. m # 0 /\ Len(recentFills') # 0
    BY <1>14, <1>17
  <2> QED
    BY <2>1, EmptySeq
<1>19. KeptFills'
  BY <1>14, <1>15, <1>17, <1>18, <1>1, <1>3 DEF KeptFills, Cut
<1>20. CutRightly'
  <2>1. Cut' = L + 1 - m
    <3>1. Cut' = Len(history') - Len(recentFills')
      BY DEF Cut
    <3> QED
      BY <3>1, <1>1, <1>14, <1>17
  <2> QED
    BY <2>1, <1>16, <1>17 DEF CutRightly
<1>21. RateOfLastFill'
  BY <1>7, <1>8, <1>17 DEF RateOfLastFill
<1>22. InTimeOrder(history)'
  BY <1>10, <1>17 DEF InTimeOrder
<1> QED
  BY <1>7, <1>8, <1>12, <1>14, <1>17, <1>19, <1>20, <1>21, <1>22 DEF FillInv

LEMMA FillInvStep ==
  ASSUME FillInv, [FTNext]_ftVars
  PROVE  FillInv'
<1>1. CASE EnableCancelSuppression
  <2>1. rateLimit' \in Nat /\ countLimit' \in Nat
    BY <1>1, LimitsAssumption DEF EnableCancelSuppression
  <2> QED
    BY <1>1, <2>1 DEF EnableCancelSuppression, tracker, FillInv, InTimeOrder, KeptFills,
       CutRightly, RateOfLastFill, Cut, LastFill
<1>2. CASE OnFill
  <2>1. CASE enabled
    BY <1>2, <2>1, RecordLemma DEF OnFill
  <2>2. CASE ~enabled
    BY <1>2, <2>2 DEF OnFill, limits, tracker, FillInv, InTimeOrder, KeptFills,
       CutRightly, RateOfLastFill, Cut, LastFill
  <2> QED
    BY <2>1, <2>2
<1>3. CASE Reset
  <2>1. Len(<<>>) = 0 /\ <<>> \in Seq(0..now)
    BY EmptySeq
  <2> QED
    BY <1>3, <2>1, HistoryAssumption DEF Reset, limits, FillInv, InTimeOrder, KeptFills,
       CutRightly, RateOfLastFill, Cut
<1>4. CASE Tick
  <2>1. now' \in Nat /\ (0..now) \subseteq (0..now')
    BY <1>4 DEF Tick, FillInv
  <2>2. recentFills \in Seq(0..now') /\ history \in Seq(0..now')
    BY <2>1, SeqMonotonic DEF FillInv
  <2> QED
    BY <1>4, <2>1, <2>2 DEF Tick, limits, tracker, FillInv, InTimeOrder, KeptFills,
       CutRightly, RateOfLastFill, Cut, LastFill
<1>5. CASE UNCHANGED ftVars
  BY <1>5 DEF ftVars, limits, tracker, FillInv, InTimeOrder, KeptFills,
     CutRightly, RateOfLastFill, Cut, LastFill
<1> QED
  BY <1>1, <1>2, <1>3, <1>4, <1>5 DEF FTNext

\* What the tracker keeps of the history holds in every reachable state.
THEOREM FillInvariant == FTSpec => []FillInv
  BY FillInvInit, FillInvStep, PTL DEF FTSpec

\* The tracker never keeps more fills than maxHistory, keeps them in the order they came,
\* and computes no rate above that (fill_tracker.go RecordFill, cleanOldFillsUnsafe).
THEOREM TrackerTypes == FTSpec => []FTTypeOK
<1>1. FillInv => FTTypeOK
  <2> SUFFICES ASSUME FillInv PROVE FTTypeOK
    OBVIOUS
  <2>1. \A i, j \in DOMAIN recentFills : i < j => recentFills[i] <= recentFills[j]
    <3> DEFINE L == Len(history)  K == Len(recentFills)
    <3>1. L \in Nat /\ K \in Nat /\ K <= L /\ DOMAIN recentFills = 1..K
          /\ \A i \in 1..K : recentFills[i] = history[L - K + i]
      BY Elements DEF FillInv, KeptFills, Cut
    <3>2. \A i, j \in 1..L : i < j => history[i] <= history[j]
      BY DEF FillInv, InTimeOrder
    <3> HIDE DEF L, K
    <3> SUFFICES ASSUME NEW i \in 1..K, NEW j \in 1..K, i < j
                 PROVE  recentFills[i] <= recentFills[j]
      BY <3>1
    <3>3. L - K + i \in 1..L /\ L - K + j \in 1..L /\ L - K + i < L - K + j
      BY <3>1
    <3> QED
      BY <3>1, <3>2, <3>3
  <2>2. recentFillRate \in 0..MaxHistory
    <3>1. CASE history = <<>>
      BY <3>1, HistoryAssumption DEF FillInv, RateOfLastFill
    <3>2. CASE history # <<>>
      <4>1. LastFill \in Nat
        BY <3>2, Elements, EmptySeq DEF LastFill, FillInv
      <4>2. Window \in Nat /\ Window <= Window /\ MaxHistory \in Nat
        BY WindowAssumption, HistoryAssumption
      <4>3. recentFillRate = Capped(CountWithin(history, Window, LastFill))
            /\ CountWithin(history, Window, LastFill) \in Nat
        BY <3>2, <4>1, <4>2, KeptCount DEF FillInv, RateOfLastFill
      <4> QED
        BY <4>2, <4>3 DEF Capped
    <3> QED
      BY <3>1, <3>2
  <2> QED
    BY <2>1, <2>2 DEF FillInv, FTTypeOK
<1> QED
  BY FillInvariant, <1>1, PTL

\* Cancels are suppressed exactly when the whole history of fills calls for it, whatever
\* the tracker has cut off, capped, or counted at the last fill only (runner.go
\* shouldSuppressCancel, fill_tracker.go ShouldSuppressCancel).
THEOREM SuppressesRightly == FTSpec => []SuppressesWhenFilledOften
<1>1. FillInv => SuppressesWhenFilledOften
  <2> DEFINE rateOver == OrDefault(rateLimit, DefaultRate)
             countFrom == OrDefault(countLimit, DefaultCount)
             inWindow == CountWithin(history, Window, LastFill)
             inCheck == CountWithin(history, Check, now)
  <2> SUFFICES ASSUME FillInv, countFrom <= MaxHistory
               PROVE  shouldSuppressCancel <=> enabled /\ FilledOften
    BY DEF SuppressesWhenFilledOften
  <2>1. rateOver \in Nat /\ countFrom \in Nat
    BY LimitsAssumption DEF OrDefault, FillInv
  <2>2. MaxHistory \in Nat /\ Window \in Nat /\ Check \in Nat /\ Check <= Window /\ Window <= Window
    BY WindowAssumption, HistoryAssumption
  <2>3. now \in Nat /\ (history # <<>> => LastFill \in 0..now)
    BY Elements, EmptySeq DEF FillInv, LastFill
  <2>4. inCheck \in Nat /\ CountWithin(recentFills, Check, now) = Capped(inCheck)
    BY <2>2, <2>3, KeptCount
  <2>5. recentFillRate > rateOver
          <=> history # <<>> /\ MaxHistory > rateOver /\ inWindow > rateOver
    <3>1. CASE history = <<>>
      BY <3>1, <2>1 DEF FillInv, RateOfLastFill
    <3>2. CASE history # <<>>
      <4>1. inWindow \in Nat /\ recentFillRate = Capped(inWindow)
        BY <3>2, <2>2, <2>3, KeptCount DEF FillInv, RateOfLastFill
      <4> QED
        BY <3>2, <4>1, <2>1, <2>2 DEF Capped
    <3> QED
      BY <3>1, <3>2
  <2>6. Capped(inCheck) >= countFrom <=> inCheck >= countFrom
    BY <2>1, <2>2, <2>4 DEF Capped
  <2> QED
    BY <2>4, <2>5, <2>6 DEF shouldSuppressCancel, ShouldSuppressCancel, FilledOften, LastFill
<1> QED
  BY FillInvariant, <1>1, PTL
=============================================================================
