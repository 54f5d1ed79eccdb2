--------------------------- MODULE OrderLifecycle ---------------------------
(***************************************************************************)
(* What the order layer promises, without goroutines, replies or messages. *)
(* Every order has a fate at the exchange and a view in the local book.    *)
(* The exchange decides; the book may lag behind, but it closes an order   *)
(* only with the fate the exchange has already given it, or writes it off  *)
(* as rejected while it waits for the placement to be confirmed.           *)
(* OrderManager is shown to implement this module.                         *)
(***************************************************************************)

CONSTANT Orders

VARIABLES
  fate,   \* what the exchange has made of the order
  view    \* what the local book says of it

Ends  == {"filled", "canceled", "expired"}

Fates == {"none", "open"} \union Ends
Views == {"none", "unconfirmed", "confirmed", "rejected"} \union Ends

Init ==
  /\ fate = [o \in Orders |-> "none"]
  /\ view = [o \in Orders |-> "none"]

\* The exchange takes an order that the book has announced.
Accept(o) ==
  /\ fate[o] = "none"
  /\ view[o] # "none"
  /\ fate' = [fate EXCEPT ![o] = "open"]
  /\ UNCHANGED view

\* The exchange finishes an open order, for good.
Finish(o, how) ==
  /\ fate[o] = "open"
  /\ fate' = [fate EXCEPT ![o] = how]
  /\ UNCHANGED view

\* The book registers an order before it is sent.
Announce(o) ==
  /\ view[o] = "none"
  /\ view' = [view EXCEPT ![o] = "unconfirmed"]
  /\ UNCHANGED fate

\* The book learns that the exchange has the order.
Confirm(o) ==
  /\ view[o] = "unconfirmed"
  /\ fate[o] # "none"
  /\ view' = [view EXCEPT ![o] = "confirmed"]
  /\ UNCHANGED fate

\* The book gives up on an order it never heard of again.
WriteOff(o) ==
  /\ view[o] = "unconfirmed"
  /\ view' = [view EXCEPT ![o] = "rejected"]
  /\ UNCHANGED fate

\* The book closes an order the way the exchange did.
Close(o) ==
  /\ view[o] \in {"unconfirmed", "confirmed"}
  /\ fate[o] \in Ends
  /\ view' = [view EXCEPT ![o] = fate[o]]
  /\ UNCHANGED fate

Next ==
  \E o \in Orders :
    \/ Accept(o) \/ Announce(o) \/ Confirm(o) \/ WriteOff(o) \/ Close(o)
    \/ \E how \in Ends : Finish(o, how)

vars == <<fate, view>>

Spec == Init /\ [][Next]_vars
=============================================================================
