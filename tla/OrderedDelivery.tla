--------------------------- MODULE OrderedDelivery ---------------------------
(***************************************************************************)
(* What a reliable stream promises its user, whatever it does underneath:  *)
(* items are delivered to the far end in the order they were sent, each of *)
(* them once, and the sender is told of a delivery only after it happened. *)
(* The stream may be closed and opened anew at any time, which starts      *)
(* everything from nothing; it never loses or repeats an item in between.  *)
(* Items are numbered in the order they are sent.                          *)
(***************************************************************************)
EXTENDS Integers, Sequences

VARIABLES
  sent,        \* items accepted from the sender
  delivered,   \* items handed to the receiver, in order
  confirmed    \* items the sender knows to be delivered

deliveryVars == <<sent, delivered, confirmed>>

Init == sent = 0 /\ delivered = <<>> /\ confirmed = 0

Send ==
  /\ sent' > sent
  /\ UNCHANGED <<delivered, confirmed>>

Deliver ==
  /\ \E n \in (Len(delivered) + 1)..sent :
       delivered' = delivered \o [i \in 1..(n - Len(delivered)) |-> Len(delivered) + i]
  /\ UNCHANGED <<sent, confirmed>>

Confirm ==
  /\ confirmed < confirmed' /\ confirmed' <= Len(delivered)
  /\ UNCHANGED <<sent, delivered>>

Reopen == sent' = 0 /\ delivered' = <<>> /\ confirmed' = 0

Next == Send \/ Deliver \/ Confirm \/ Reopen

Spec == Init /\ [][Next]_deliveryVars
=============================================================================
