------------------------------ MODULE Delivery ------------------------------
(***************************************************************************)
(* The delivery reconciler (internal/notification/delivery.go): it asks    *)
(* the provider what became of the messages the notification worker handed *)
(* over, a batch at a time, the ones never asked about first and the ones  *)
(* asked about longest ago next.                                           *)
(*                                                                         *)
(* Only the order of the checks matters, not their dates: the rows never   *)
(* checked are a sequence in order of sent_at, the others a sequence in    *)
(* order of delivery_checked_at.  Rows whose verdict is final leave both,  *)
(* as the query leaves them out.  A lookup that fails stamps nothing.      *)
(***************************************************************************)
EXTENDS Integers, Sequences, SequencesExt

CONSTANTS
  Text,         \* the messages
  Lost,         \* those the provider can say nothing about
  DeliveryBatch,   \* deliveryBatchSize
  MaxFailures   \* bound on lookups that fail, and on crashes

ASSUME DeliveryParameters ==
  /\ Lost \subseteq Text
  /\ DeliveryBatch \in Nat \ {0} /\ MaxFailures \in Nat

VARIABLES
  verdict,   \* delivery_status
  unasked,   \* the sent rows with no delivery_checked_at, by sent_at
  asked,     \* the others, by delivery_checked_at
  fresh,     \* how many of the last of them deliveryRecheckAfter holds back
  sweep,     \* the rest of the sweep's batch
  provider,  \* what the provider would answer
  failures   \* lookups that failed, and crashes

deliveryVars == <<verdict, unasked, asked, fresh, sweep, provider, failures>>

-----------------------------------------------------------------------------

Final == {"delivered", "undelivered"}
Verdicts == {"none", "queued"} \cup Final

DeliveryInit ==
  /\ verdict = [m \in Text |-> "none"]
  /\ provider = [m \in Text |-> "none"]
  /\ unasked = <<>> /\ asked = <<>> /\ fresh = 0 /\ sweep = <<>>
  /\ failures = 0

\* MarkSent, with the provider's id.
Handed(m) ==
  /\ provider[m] = "none"
  /\ provider' = [provider EXCEPT ![m] = "queued"]
  /\ unasked' = Append(unasked, m)
  /\ UNCHANGED <<verdict, asked, fresh, sweep, failures>>

Arrive(m) ==
  /\ provider[m] = "queued"
  /\ \E status \in Final : provider' = [provider EXCEPT ![m] = status]
  /\ UNCHANGED <<verdict, unasked, asked, fresh, sweep, failures>>

\* deliveryRecheckAfter is over for the check that is longest ago.
Elapse ==
  /\ fresh > 0 /\ fresh' = fresh - 1
  /\ UNCHANGED <<verdict, unasked, asked, sweep, provider, failures>>

\* The statuses the query leaves out.
Open(m) == verdict[m] \notin Final

\* Of the others, those that deliveryRecheckAfter no longer holds back.
DueAgain == SubSeq(asked, 1, Len(asked) - fresh)
\* Mutant: the order of the checks, NULLS LAST.
NeverAskedLast == DueAgain \o unasked

Awaited == unasked \o DueAgain

Query ==
  /\ sweep = <<>> /\ Awaited # <<>>
  /\ sweep' = SubSeq(Awaited, 1, IF Len(Awaited) < DeliveryBatch THEN Len(Awaited)
                                  ELSE DeliveryBatch)
  /\ UNCHANGED <<verdict, unasked, asked, fresh, provider, failures>>

\* record: the row moves to the end of the order, unless its verdict is final.
Record ==
  LET m == Head(sweep)
      others == RemoveFirst(asked, m)
  IN /\ sweep # <<>> /\ m \notin Lost
     /\ verdict' = [verdict EXCEPT ![m] = provider[m]]
     /\ unasked' = RemoveFirst(unasked, m)
     /\ \/ provider[m] \in Final /\ asked' = others /\ fresh' = fresh
        \/ provider[m] \notin Final /\ asked' = Append(others, m) /\ fresh' = fresh + 1
     /\ sweep' = Tail(sweep)
     /\ UNCHANGED <<provider, failures>>

LookupFails ==
  /\ sweep # <<>>
  /\ IF Head(sweep) \in Lost THEN UNCHANGED failures
     ELSE failures < MaxFailures /\ failures' = failures + 1
  /\ sweep' = Tail(sweep)
  /\ UNCHANGED <<verdict, unasked, asked, fresh, provider>>

\* The supervisor starts the worker again, which sweeps at once.
Restart ==
  /\ sweep # <<>> /\ failures < MaxFailures
  /\ failures' = failures + 1
  /\ sweep' = <<>>
  /\ UNCHANGED <<verdict, unasked, asked, fresh, provider>>

Reconciles == Query \/ Record \/ LookupFails

DeliveryNext ==
  \/ \E m \in Text : Handed(m) \/ Arrive(m)
  \/ Elapse \/ Reconciles \/ Restart

DeliverySpec == DeliveryInit /\ [][DeliveryNext]_deliveryVars
FairDeliverySpec == DeliverySpec /\ WF_deliveryVars(Elapse) /\ WF_deliveryVars(Reconciles)

-----------------------------------------------------------------------------
(* Properties.                                                             *)

\* Types: each message handed over and without a verdict is in one of the two
\* orders, once.
DeliveryTypeOK ==
  /\ verdict \in [Text -> Verdicts] /\ provider \in [Text -> Verdicts]
  /\ {unasked, asked, sweep} \subseteq Seq(Text)
  /\ IsInjective(unasked) /\ IsInjective(asked)
  /\ ToSet(unasked) \cap ToSet(asked) = {}
  /\ ToSet(unasked) \cup ToSet(asked) = {m \in Text : provider[m] # "none" /\ Open(m)}
  /\ fresh \in 0 .. Len(asked)
  /\ failures \in 0..MaxFailures

\* What the provider says of a message in the end is known here in the end,
\* though messages keep coming, the worker dies and lookups fail - as long as
\* those that always fail are fewer than a batch, for they stay at its head.
VerdictsArrive ==
  \A m \in Text \ Lost : provider[m] \in Final ~> verdict[m] \in Final

=============================================================================
