----------------------------- MODULE MCBooking -----------------------------
(***************************************************************************)
(* BookingLifecycle on small tables, in two instances that one run         *)
(* explores together: one booking under every endpoint but the two that    *)
(* work on a whole list, and two bookings under those that place or move   *)
(* them.  Bookings and requests are interchangeable.                       *)
(***************************************************************************)
EXTENDS BookingLifecycle, TLC, FiniteSets

Symmetry == Permutations(Booking) \cup Permutations(Request)

Used == {b \in Booking : row[b].status # "none"}
Underway == {req[r].op : r \in Request}

\* Bound: one booking, on the later starts.
OneBooking ==
  /\ Cardinality(Used) <= 1
  /\ Underway \cap {"shift", "list"} = {}
  /\ \A b \in Used : row[b].start \in {2, 3}
  /\ \A r \in Request : req[r].op \in {"hold", "create", "reschedule"} => req[r].at # 1

\* Bound: two bookings that are placed, moved and called off early on.
Placing == {"idle", "create", "submit", "noShowRule", "cancel", "reschedule", "shift"}
TwoBookings ==
  /\ now <= 1
  /\ Underway \subseteq Placing
  /\ \A b \in Booking :
       /\ row[b].status \in {"none", "held", "pending", "expired", "cancelled"}
       /\ row[b].start <= 3 /\ ~row[b].deposit /\ ~row[b].guest
  /\ \A r \in Request : req[r].op = "create" => req[r].at # 3 /\ ~req[r].deposit

\* The steps TLC takes.
WithinInstances == (OneBooking \/ TwoBookings)'

=============================================================================
