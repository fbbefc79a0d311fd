------------------------------- MODULE Outbox -------------------------------
(***************************************************************************)
(* The notifications table as a queue, and the workers that empty it       *)
(* (internal/notification/worker.go).                                      *)
(*                                                                         *)
(* A worker claims a batch by stamping last_attempted_at, sends the rows   *)
(* one by one, and records each outcome by the row's id alone.  Nothing is *)
(* locked while it talks to the provider: that no other worker has the row *)
(* rests on the lease being longer than a batch takes.  A worker can die   *)
(* anywhere, a recording can fail, and a provider that timed out may have  *)
(* delivered.                                                              *)
(*                                                                         *)
(* Rows here are event-driven (scheduled_at NULL).  Time is relative: a    *)
(* row keeps what is left of its lease, a worker how long it has been at   *)
(* its batch.                                                              *)
(***************************************************************************)
EXTENDS Integers, FiniteSets

CONSTANTS
  Note,         \* row ids, numbered in order of created_at
  Worker,       \* the processes that poll the table
  Poisoned,     \* rows whose sending panics
  MaxAttempts,
  BatchSize,    \* the claim's LIMIT
  Lease,        \* leaseDuration
  BatchTime,    \* the longest a batch can take: its calls have timeouts
  SMS,          \* both transports are configured, not one alone
  MaxFaults     \* bound on crashes, failed recordings and timeouts

ASSUME OutboxParameters ==
  /\ Note \subseteq Nat /\ Poisoned \subseteq Note
  /\ MaxAttempts \in Nat \ {0} /\ BatchSize \in Nat \ {0}
  /\ Lease \in Nat /\ BatchTime \in Nat /\ MaxFaults \in Nat
  /\ BatchTime < Lease
  /\ SMS \in BOOLEAN

VARIABLES
  note,    \* the notifications table
  batch,   \* per worker: the claimed rows it has still to send
  hand,    \* per worker: the row it has sent and not yet recorded
  spent,   \* per worker: time since it claimed its batch
  faults,  \* how many faults there have been
  alerted, \* the rows whose artist's inbox says the customer was not reached
  arrived, \* history: how often each message reached its recipient
  doubt    \* history: the arrivals of each that nobody recorded

vars == <<note, batch, hand, spent, faults, alerted, arrived, doubt>>

-----------------------------------------------------------------------------

Waiting == {"pending", "failed"}
Settled == {"sent", "dead"}

NoteRow ==
  [status   : {"none"} \cup Waiting \cup Settled,
   attempts : 0..MaxAttempts,
   lease    : 0..Lease]   \* until last_attempted_at is leaseDuration ago

\* What a worker knows of a row: PendingNotification.
Claim == [id : Note, attempts : 0..MaxAttempts]
Nothing == [id |-> -1, attempts |-> 0, ok |-> FALSE, arrivals |-> 0]

Busy(w) == batch[w] # {} \/ hand[w] # Nothing

Init ==
  /\ note = [n \in Note |-> [status |-> "none", attempts |-> 0, lease |-> 0]]
  /\ batch = [w \in Worker |-> {}]
  /\ hand = [w \in Worker |-> Nothing]
  /\ spent = [w \in Worker |-> 0]
  /\ faults = 0
  /\ alerted = {}
  /\ arrived = [n \in Note |-> 0]
  /\ doubt = [n \in Note |-> 0]

EnqueueNotification(n) ==
  /\ note[n].status = "none"
  /\ \A m \in Note : m < n => note[m].status # "none"
  /\ note' = [note EXCEPT ![n].status = "pending"]
  /\ UNCHANGED <<batch, hand, spent, faults, alerted, arrived, doubt>>

\* Mutant: no lease, only the status and the attempts.
OpenToAll(n) == note[n].status \in Waiting /\ note[n].attempts < MaxAttempts

\* Mutant: what the query was once, blind to the rows that failed.
PendingOnly(n) == note[n].status = "pending" /\ note[n].lease = 0

Claimable(n) ==
  /\ note[n].status \in Waiting
  /\ note[n].attempts < MaxAttempts
  /\ note[n].lease = 0

\* The oldest of the claimable rows, up to the limit.
Claimed ==
  {n \in Note :
    /\ Claimable(n)
    /\ Cardinality({m \in Note : m < n /\ Claimable(m)}) < BatchSize}

\* Mutant: the claim counts as an attempt too.
FetchCounting(w) ==
  /\ ~Busy(w)
  /\ Claimed # {}
  /\ note' = [n \in Note |->
       IF n \in Claimed THEN [note[n] EXCEPT !.lease = Lease, !.attempts = @ + 1]
       ELSE note[n]]
  /\ batch' = [batch EXCEPT ![w] =
       {[id |-> n, attempts |-> note[n].attempts + 1] : n \in Claimed}]
  /\ spent' = [spent EXCEPT ![w] = 0]
  /\ UNCHANGED <<hand, faults, alerted, arrived, doubt>>

\* One UPDATE with SKIP LOCKED: two claims never take the same row at once.
FetchPending(w) ==
  /\ ~Busy(w)
  /\ Claimed # {}
  /\ note' = [n \in Note |->
       IF n \in Claimed THEN [note[n] EXCEPT !.lease = Lease] ELSE note[n]]
  /\ batch' = [batch EXCEPT ![w] =
       {[id |-> n, attempts |-> note[n].attempts] : n \in Claimed}]
  /\ spent' = [spent EXCEPT ![w] = 0]
  /\ UNCHANGED <<hand, faults, alerted, arrived, doubt>>

\* sendVia: WhatsApp first, SMS if that fails.  A call that timed out counts
\* as failed and may have been delivered.
Answers == {"accepted", "refused", "timedOut"}
Reached(answer) == IF answer = "refused" THEN 0 ELSE 1
Unsure(answer) == IF answer = "timedOut" THEN 1 ELSE 0

Send(w, claim) ==
  /\ hand[w] = Nothing
  /\ claim \in batch[w] /\ claim.id \notin Poisoned
  /\ \E whatsapp \in Answers :
     \E sms \in IF SMS /\ whatsapp # "accepted" THEN Answers ELSE {"refused"} :
       LET n == claim.id
           unsure == Unsure(whatsapp) + Unsure(sms)
       IN /\ faults + unsure <= MaxFaults
          /\ faults' = faults + unsure
          /\ arrived' = [arrived EXCEPT ![n] = @ + Reached(whatsapp) + Reached(sms)]
          /\ doubt' = [doubt EXCEPT ![n] = @ + unsure]
          /\ hand' = [hand EXCEPT ![w] =
               [id |-> n, attempts |-> claim.attempts,
                ok |-> "accepted" \in {whatsapp, sms},
                arrivals |-> IF "accepted" \in {whatsapp, sms} THEN 1 ELSE 0]]
  /\ batch' = [batch EXCEPT ![w] = @ \ {claim}]
  /\ UNCHANGED <<note, spent, alerted>>

\* sendSafely: a row that panics is skipped and nothing is recorded.
SendPanics(w, claim) ==
  /\ hand[w] = Nothing
  /\ claim \in batch[w] /\ claim.id \in Poisoned
  /\ batch' = [batch EXCEPT ![w] = @ \ {claim}]
  /\ UNCHANGED <<note, hand, spent, faults, alerted, arrived, doubt>>

MarkSent(w) ==
  /\ hand[w] # Nothing /\ hand[w].ok
  /\ note' = [note EXCEPT ![hand[w].id] =
       [status |-> "sent", attempts |-> @.attempts + 1, lease |-> Lease]]
  /\ hand' = [hand EXCEPT ![w] = Nothing]
  /\ UNCHANGED <<batch, spent, faults, alerted, arrived, doubt>>

\* The dead letter's alert to the artist, filed after the row is marked.  Filing
\* it can fail, and then nobody files it again.
AlertsArtist(n, dead) ==
  \/ /\ alerted' = IF dead THEN alerted \cup {n} ELSE alerted
     /\ UNCHANGED faults
  \/ /\ dead /\ faults < MaxFaults
     /\ faults' = faults + 1
     /\ UNCHANGED alerted

\* The count written is the one read with the claim, plus one.
Fails(w, limit) ==
  LET n == hand[w].id
      tried == hand[w].attempts + 1
  IN /\ hand[w] # Nothing /\ ~hand[w].ok
     /\ note' = [note EXCEPT ![n] =
          [status |-> IF tried >= limit THEN "dead" ELSE "failed",
           attempts |-> tried, lease |-> Lease]]
     /\ AlertsArtist(n, tried >= limit)
     /\ hand' = [hand EXCEPT ![w] = Nothing]
     /\ UNCHANGED <<batch, spent, arrived, doubt>>

MarkFailed(w) == Fails(w, MaxAttempts)

-----------------------------------------------------------------------------
(* Faults.                                                                 *)

\* What an outcome that is never recorded leaves in doubt.
Forgets(w) ==
  IF hand[w] = Nothing THEN UNCHANGED doubt
  ELSE doubt' = [doubt EXCEPT ![hand[w].id] = @ + hand[w].arrivals]

\* The recording fails; the worker logs it and goes on.
MarkFails(w) ==
  /\ hand[w] # Nothing
  /\ faults < MaxFaults
  /\ faults' = faults + 1
  /\ Forgets(w)
  /\ hand' = [hand EXCEPT ![w] = Nothing]
  /\ UNCHANGED <<note, batch, spent, alerted, arrived>>

\* The process dies, or panics outside a send, and is started again.
Crash(w) ==
  /\ Busy(w)
  /\ faults < MaxFaults
  /\ faults' = faults + 1
  /\ Forgets(w)
  /\ hand' = [hand EXCEPT ![w] = Nothing]
  /\ batch' = [batch EXCEPT ![w] = {}]
  /\ UNCHANGED <<note, spent, alerted, arrived>>

\* Time passes, but no batch outlasts the timeouts of its calls.
Tick ==
  /\ \A w \in Worker : Busy(w) => spent[w] < BatchTime
  /\ note' = [n \in Note |->
       [note[n] EXCEPT !.lease = IF @ > 0 THEN @ - 1 ELSE 0]]
  /\ spent' = [w \in Worker |-> IF Busy(w) THEN spent[w] + 1 ELSE 0]
  /\ UNCHANGED <<batch, hand, faults, alerted, arrived, doubt>>

Works(w) ==
  \/ FetchPending(w)
  \/ \E claim \in batch[w] : Send(w, claim) \/ SendPanics(w, claim)
  \/ MarkSent(w)
  \/ MarkFailed(w)

Next ==
  \/ \E n \in Note : EnqueueNotification(n)
  \/ \E w \in Worker : Works(w) \/ MarkFails(w) \/ Crash(w)
  \/ Tick

Spec == Init /\ [][Next]_vars

\* Each worker polls for as long as it lives and is restarted when it dies.
FairSpec == Spec /\ WF_vars(Tick) /\ \A w \in Worker : WF_vars(Works(w))

-----------------------------------------------------------------------------

TypeOK ==
  /\ note \in [Note -> NoteRow]
  /\ batch \in [Worker -> SUBSET Claim]
  /\ hand \in [Worker -> {Nothing} \cup
                 [id : Note, attempts : 0..MaxAttempts, ok : BOOLEAN, arrivals : 0..1]]
  /\ spent \in [Worker -> 0..BatchTime]
  /\ faults \in 0..MaxFaults
  /\ alerted \subseteq Note
  /\ arrived \in [Note -> Nat]
  /\ doubt \in [Note -> Nat]

\* A customer is messaged again only when an earlier message of the same row
\* left doubt: a timeout, or an outcome that was never recorded.  Workers that
\* race each other, and leases that run out, never send one twice.
ResentOnlyInDoubt == \A n \in Note : arrived[n] <= 1 + doubt[n]

\* A row is in one worker's hands at a time, though nothing locks it.
Holds(w) == {c.id : c \in batch[w]} \cup ({hand[w].id} \ {Nothing.id})
OneHolder == \A v, w \in Worker : v # w => Holds(v) \cap Holds(w) = {}

\* The artist is told to phone a customer only for a message that was given up
\* on, and it stays given up on: no worker sends it after all.
AlertedAreDead == \A n \in alerted : note[n].status = "dead"

\* The recordings name only the row, yet none undoes what another settled.
SettledForGood ==
  [][\A n \in Note : note[n].status \in Settled => note'[n].status = note[n].status]_vars

\* No row is left that no claim will ever take and nobody has given up on.
NoLimbo ==
  \A n \in Note : note[n].status \in Waiting => note[n].attempts < MaxAttempts

\* Every message whose sending does not panic is eventually sent or given up on,
\* whatever crashes, and though the rows that do panic come back for ever.
EveryMessageSettles ==
  \A n \in Note \ Poisoned : note[n].status = "pending" ~> note[n].status \in Settled

\* "a permanently poisoned row eventually stops on its own".  Does not
\* hold: only a recorded outcome counts an attempt.
PoisonedRowStops ==
  \A n \in Poisoned : note[n].status = "pending" ~> note[n].status \in Settled

=============================================================================
