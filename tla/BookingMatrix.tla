--------------------------- MODULE BookingMatrix ---------------------------
(***************************************************************************)
(* What a booking promises whoever reads its status: the state machine the *)
(* repository writes down as a grid of statuses and actions                *)
(* (internal/booking/statematrix_test.go), with the money beside it.  Every *)
(* status is reached from the statuses the grid allows and from no other,  *)
(* a deposit is recorded only on the way to confirmed, and a cancelled     *)
(* booking owes a refund only if it has one.                               *)
(***************************************************************************)

CONSTANT Booking

VARIABLES
  status,  \* "none" before the booking exists
  paid     \* the bookings with a deposit recorded

vars == <<status, paid>>

Open == {"held", "pending", "approved", "deposit_paid", "confirmed"}

\* The status an action leaves and the one it sets, where it does nothing else.
Plain ==
  {<<"none", "held">>, <<"held", "pending">>, <<"pending", "approved">>,
   <<"approved", "deposit_paid">>, <<"confirmed", "completed">>,
   <<"confirmed", "no_show">>, <<"refund_due", "refunded">>}
  \cup {<<s, "cancelled">> : s \in Open}

Init ==
  /\ status = [b \in Booking |-> "none"]
  /\ paid = {}

Moves(b, to) ==
  /\ <<status[b], to>> \in Plain
  /\ status' = [status EXCEPT ![b] = to]
  /\ UNCHANGED paid

Confirm(b) ==
  /\ status[b] \in {"approved", "deposit_paid"}
  /\ status' = [status EXCEPT ![b] = "confirmed"]
  /\ paid' = paid \cup {b}

OweRefund(b) ==
  /\ status[b] \in Open
  /\ b \in paid
  /\ status' = [status EXCEPT ![b] = "refund_due"]
  /\ UNCHANGED paid

\* A sweep may take several bookings at once.
Expire(B) ==
  /\ \A b \in B : status[b] \in {"held", "pending", "approved"}
  /\ status' = [b \in Booking |-> IF b \in B THEN "expired" ELSE status[b]]
  /\ UNCHANGED paid

Next ==
  \/ \E b \in Booking :
       \/ \E to \in {pair[2] : pair \in Plain} : Moves(b, to)
       \/ Confirm(b)
       \/ OweRefund(b)
  \/ \E B \in SUBSET Booking : Expire(B)

Spec == Init /\ [][Next]_vars

=============================================================================
