------------------------------ MODULE MCOutbox ------------------------------
(***************************************************************************)
(* Outbox on a few rows and workers, and Delivery on a few messages, one   *)
(* at a time: of the notifications table they share the rows, but no       *)
(* column that either decides by, except that a sent row has its           *)
(* provider's id.                                                          *)
(***************************************************************************)
EXTENDS Outbox, Delivery

VARIABLE focus

queueVars == <<vars, deliveryVars, focus>>

Sending == focus = "sending"
Asking == focus = "asking"

QueueInit == Init /\ DeliveryInit /\ focus \in {"sending", "asking"}

QueueNext ==
  /\ \/ Sending /\ Next /\ UNCHANGED deliveryVars
     \/ Asking /\ DeliveryNext /\ UNCHANGED vars
  /\ UNCHANGED focus

QueueSpec ==
  /\ QueueInit /\ [][QueueNext]_queueVars
  /\ WF_vars(Sending /\ Tick) /\ \A w \in Worker : WF_vars(Sending /\ Works(w))
  /\ WF_deliveryVars(Asking /\ Elapse) /\ WF_deliveryVars(Asking /\ Reconciles)

\* Types: both parts keep their shapes.
QueueTypeOK == TypeOK /\ DeliveryTypeOK

=============================================================================
