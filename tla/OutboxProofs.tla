---------------------------- MODULE OutboxProofs ----------------------------
(***************************************************************************)
(* Theorems about Outbox, for every set of rows and workers, every limit   *)
(* and every lease that is longer than a batch.                            *)
(*                                                                         *)
(* Nothing but the lease keeps two workers apart, so the invariant ties    *)
(* the two clocks together: a row that a worker holds has at least as much *)
(* of its lease left as the worker's batch has not used up.                *)
(*                                                                         *)
(* The second half is about Delivery, for any messages and any batch: its  *)
(* sweep keeps to rows that are due, so what a lookup finds there is what  *)
(* the query found.                                                        *)
(***************************************************************************)
EXTENDS MCOutbox, SequenceTheorems, TLAPS

\* What is true of a row while a worker has it, with the attempts it read.
Held(w, n, attempts) ==
  /\ note[n].status \in Waiting
  /\ note[n].attempts = attempts
  /\ attempts < MaxAttempts
  /\ note[n].lease + spent[w] >= Lease

RowOK(n) ==
  /\ note[n].status = "none" => note[n].attempts = 0
  /\ note[n].status \in Waiting => note[n].attempts < MaxAttempts
  /\ n \in alerted => note[n].status = "dead"
  /\ arrived[n] <= 1 + doubt[n]
  /\ note[n].status \notin Settled /\ (\A w \in Worker : hand[w].id # n) =>
       arrived[n] <= doubt[n]

BatchOK(w) == \A claim \in batch[w] : Held(w, claim.id, claim.attempts)

HandOK(w) ==
  hand[w] # Nothing =>
    /\ Held(w, hand[w].id, hand[w].attempts)
    /\ hand[w].arrivals = (IF hand[w].ok THEN 1 ELSE 0)
    /\ arrived[hand[w].id] <= doubt[hand[w].id] + hand[w].arrivals

\* No row is in two places.
Apart ==
  /\ \A w \in Worker : \A c \in batch[w] : c.id # hand[w].id
  /\ \A v, w \in Worker : v # w =>
       /\ \A c \in batch[v] : c.id # hand[w].id
       /\ \A c \in batch[v], d \in batch[w] : c.id # d.id
       /\ hand[v] # Nothing => hand[v].id # hand[w].id

IInv ==
  /\ TypeOK
  /\ \A n \in Note : RowOK(n)
  /\ \A w \in Worker : BatchOK(w) /\ HandOK(w)
  /\ Apart

HandRow == [id : Note, attempts : 0..MaxAttempts, ok : BOOLEAN, arrivals : 0..1]

LEMMA Parameters ==
  /\ Note \subseteq Nat
  /\ MaxAttempts \in Nat \ {0} /\ Lease \in Nat /\ BatchTime \in Nat /\ MaxFaults \in Nat
  /\ BatchTime < Lease
BY OutboxParameters DEF OutboxParameters

\* Nothing is no row, and a hand that is not empty holds one.
LEMMA Hands ==
  ASSUME TypeOK, NEW w \in Worker
  PROVE  /\ Nothing.id \notin Note
         /\ hand[w] # Nothing => hand[w] \in HandRow
BY Parameters DEF TypeOK, Nothing, HandRow

LEMMA InitOK == Init => IInv
<1> SUFFICES ASSUME Init PROVE IInv
  OBVIOUS
<1>1. TypeOK
  BY Parameters DEF Init, TypeOK, NoteRow, Claim, Nothing, Waiting, Settled
<1>2. \A n \in Note : RowOK(n)
  BY Parameters DEF Init, RowOK, Waiting, Settled
<1>3. \A w \in Worker : BatchOK(w) /\ HandOK(w)
  BY DEF Init, BatchOK, HandOK
<1>4. Apart
  BY DEF Init, Apart, Nothing
<1> QED
  BY <1>1, <1>2, <1>3, <1>4 DEF IInv

-----------------------------------------------------------------------------
(* Steps that take a row nobody holds.                                     *)

\* A held row is not claimable: its lease has not run out.
LEMMA HeldIsLeased ==
  ASSUME IInv, NEW n \in Note, Claimable(n), NEW w \in Worker
  PROVE  hand[w].id # n /\ \A c \in batch[w] : c.id # n
<1>1. spent[w] \in 0..BatchTime
  BY DEF IInv, TypeOK
<1>2. note[n].lease = 0
  BY DEF Claimable
<1>3. ASSUME NEW k, Held(w, n, k) PROVE FALSE
  BY <1>1, <1>2, <1>3, Parameters DEF Held
<1>4. hand[w] # Nothing => hand[w].id # n
  BY <1>3 DEF IInv, HandOK
<1>5. hand[w] = Nothing => hand[w].id # n
  BY Parameters, Hands DEF IInv
<1> QED
  BY <1>3, <1>4, <1>5 DEF IInv, BatchOK

LEMMA EnqueueOK ==
  ASSUME IInv, NEW n \in Note, EnqueueNotification(n)
  PROVE  IInv'
<1>1. /\ note \in [Note -> NoteRow]
      /\ note' = [note EXCEPT ![n] = [note[n] EXCEPT !.status = "pending"]]
      /\ note[n].status = "none"
      /\ UNCHANGED <<batch, hand, spent, faults, alerted, arrived, doubt>>
  BY DEF EnqueueNotification, IInv, TypeOK
<1>2. TypeOK'
  BY <1>1 DEF IInv, TypeOK, NoteRow, Waiting
<1>3. \A m \in Note : m # n => note'[m] = note[m]
  BY <1>1
<1>4. /\ note'[n].status = "pending" /\ note'[n].attempts = note[n].attempts
      /\ note'[n].lease = note[n].lease
  BY <1>1 DEF NoteRow
<1>5. ASSUME NEW m \in Note PROVE RowOK(m)'
  <2>1. RowOK(m)
    BY DEF IInv
  <2>2. CASE m # n
    BY <2>1, <2>2, <1>1, <1>3 DEF RowOK
  <2>3. CASE m = n
    BY <2>1, <2>3, <1>1, <1>4, Parameters DEF RowOK, Waiting, Settled
  <2> QED
    BY <2>2, <2>3
<1>6. ASSUME NEW w \in Worker, NEW m \in Note, NEW k, Held(w, m, k) PROVE Held(w, m, k)'
  BY <1>1, <1>3, <1>4, <1>6 DEF Held, Waiting
<1>7. ASSUME NEW w \in Worker PROVE BatchOK(w)' /\ HandOK(w)'
  <2>1. BatchOK(w) /\ HandOK(w) /\ batch[w] \subseteq Claim
    BY DEF IInv, TypeOK
  <2>2. BatchOK(w)'
    BY <2>1, <1>1, <1>6 DEF BatchOK, Claim
  <2>3. HandOK(w)'
    BY <2>1, <1>1, <1>6, Hands DEF HandOK, HandRow, IInv
  <2> QED
    BY <2>2, <2>3
<1>8. Apart'
  BY <1>1 DEF IInv, Apart
<1> QED
  BY <1>2, <1>5, <1>7, <1>8 DEF IInv

LEMMA FetchOK ==
  ASSUME IInv, NEW w \in Worker, FetchPending(w)
  PROVE  IInv'
<1>1. /\ note' = [n \in Note |->
           IF n \in Claimed THEN [note[n] EXCEPT !.lease = Lease] ELSE note[n]]
      /\ batch' = [batch EXCEPT ![w] =
           {[id |-> n, attempts |-> note[n].attempts] : n \in Claimed}]
      /\ spent' = [spent EXCEPT ![w] = 0]
      /\ batch[w] = {} /\ hand[w] = Nothing
      /\ UNCHANGED <<hand, faults, alerted, arrived, doubt>>
  BY DEF FetchPending, Busy
<1>2. \A n \in Claimed : n \in Note /\ Claimable(n)
  BY DEF Claimed
<1>3. /\ note \in [Note -> NoteRow] /\ batch \in [Worker -> SUBSET Claim]
      /\ spent \in [Worker -> 0..BatchTime]
  BY DEF IInv, TypeOK
<1>4. \A n \in Note :
        /\ note'[n].status = note[n].status
        /\ note'[n].attempts = note[n].attempts
        /\ note'[n].lease = IF n \in Claimed THEN Lease ELSE note[n].lease
  BY <1>1, <1>3 DEF NoteRow
<1>5. batch'[w] = {[id |-> n, attempts |-> note[n].attempts] : n \in Claimed}
  BY <1>1, <1>3
<1>6. \A c \in batch'[w] : c.id \in Claimed /\ c.attempts = note[c.id].attempts
  BY <1>5
<1>7. \A v \in Worker : v # w => batch'[v] = batch[v] /\ spent'[v] = spent[v]
  BY <1>1, <1>3
<1>8. spent'[w] = 0
  BY <1>1, <1>3
<1>9. TypeOK'
  <2>1. note' \in [Note -> NoteRow]
    BY <1>1, <1>3, Parameters DEF NoteRow
  <2>2. batch'[w] \subseteq Claim
    BY <1>2, <1>3, <1>5 DEF Claim, NoteRow
  <2>3. batch' \in [Worker -> SUBSET Claim]
    BY <2>2, <1>1, <1>3
  <2>4. spent' \in [Worker -> 0..BatchTime]
    BY <1>1, <1>3, Parameters
  <2> QED
    BY <2>1, <2>3, <2>4, <1>1 DEF IInv, TypeOK
<1>10. ASSUME NEW n \in Note PROVE RowOK(n)'
  BY <1>1, <1>4 DEF IInv, RowOK
<1>11. ASSUME NEW v \in Worker, v # w PROVE BatchOK(v)' /\ HandOK(v)'
  <2>1. BatchOK(v) /\ HandOK(v) /\ batch[v] \subseteq Claim
    BY <1>3 DEF IInv
  <2>2. \A n \in Note : \A k : Held(v, n, k) => Held(v, n, k)'
    <3> SUFFICES ASSUME NEW n \in Note, NEW k, Held(v, n, k) PROVE Held(v, n, k)'
      OBVIOUS
    <3>1. spent'[v] \in Nat /\ spent'[v] = spent[v] /\ note[n].lease \in Nat
      BY <1>3, <1>7, <1>11 DEF NoteRow
    <3> QED
      BY <3>1, <1>4, Parameters DEF Held
  <2>3. BatchOK(v)'
    BY <2>1, <2>2, <1>7, <1>11 DEF BatchOK, Claim
  <2>4. HandOK(v)'
    BY <2>1, <2>2, <1>1, Hands DEF HandOK, HandRow, IInv
  <2> QED
    BY <2>3, <2>4
<1>12. BatchOK(w)'
  <2>1. \A n \in Claimed :
          /\ note'[n].status \in Waiting
          /\ note'[n].attempts < MaxAttempts
          /\ note'[n].lease + spent'[w] >= Lease
    <3> SUFFICES ASSUME NEW n \in Claimed
                 PROVE  /\ note'[n].status \in Waiting
                        /\ note'[n].attempts < MaxAttempts
                        /\ note'[n].lease + spent'[w] >= Lease
      OBVIOUS
    <3>1. n \in Note /\ note[n].status \in Waiting /\ note[n].attempts < MaxAttempts
      BY <1>2 DEF Claimable
    <3>2. /\ note'[n].status = note[n].status /\ note'[n].attempts = note[n].attempts
          /\ note'[n].lease = Lease
      BY <1>4, <3>1
    <3> QED
      BY <1>8, <3>1, <3>2, Parameters
  <2>2. \A n \in Claimed : note'[n].attempts = note[n].attempts
    BY <1>2, <1>4
  <2>3. \A c \in batch'[w] :
          c.id \in Claimed /\ c.attempts = note'[c.id].attempts
    BY <1>6, <2>2
  <2> QED
    BY <2>1, <2>3 DEF BatchOK, Held
<1>13. HandOK(w)'
  BY <1>1 DEF HandOK
<1>14. Apart'
  <2>1. \A v \in Worker : \A n \in Claimed :
          hand[v].id # n /\ \A c \in batch[v] : c.id # n
    BY <1>2, HeldIsLeased
  <2>2. ASSUME NEW v \in Worker, NEW c \in batch'[v] PROVE c.id # hand'[v].id
    BY <2>1, <2>2, <1>1, <1>6, <1>7 DEF IInv, Apart
  <2>3. ASSUME NEW v \in Worker, NEW u \in Worker, v # u
        PROVE  /\ \A c \in batch'[v] : c.id # hand'[u].id
               /\ \A c \in batch'[v], d \in batch'[u] : c.id # d.id
               /\ hand'[v] # Nothing => hand'[v].id # hand'[u].id
    BY <2>1, <2>3, <1>1, <1>6, <1>7 DEF IInv, Apart
  <2> QED
    BY <2>2, <2>3 DEF Apart
<1> QED
  BY <1>9, <1>10, <1>11, <1>12, <1>13, <1>14 DEF IInv

-----------------------------------------------------------------------------
(* Steps of a worker on a row it holds.                                    *)

\* What a worker does to row n leaves alone a worker that does not hold n.
LEMMA OthersOK ==
  ASSUME IInv, NEW n \in Note, NEW v \in Worker,
         \A m \in Note : m # n => /\ note'[m] = note[m]
                                  /\ arrived'[m] = arrived[m]
                                  /\ doubt'[m] = doubt[m],
         spent'[v] = spent[v], hand'[v] = hand[v], batch'[v] \subseteq batch[v],
         hand[v].id # n, \A c \in batch[v] : c.id # n
  PROVE  BatchOK(v)' /\ HandOK(v)'
<1>1. BatchOK(v) /\ HandOK(v) /\ batch[v] \subseteq Claim
  BY DEF IInv, TypeOK
<1>2. BatchOK(v)'
  BY <1>1 DEF BatchOK, Held, Claim
<1>3. HandOK(v)'
  <2>1. CASE hand[v] = Nothing
    BY <2>1 DEF HandOK
  <2>2. CASE hand[v] # Nothing
    <3>1. hand[v].id \in Note
      BY <2>2, Hands DEF HandRow, IInv
    <3>2. /\ note'[hand[v].id] = note[hand[v].id]
          /\ arrived'[hand[v].id] = arrived[hand[v].id]
          /\ doubt'[hand[v].id] = doubt[hand[v].id]
      BY <3>1
    <3> QED
      BY <1>1, <3>2 DEF HandOK, Held
  <2> QED
    BY <2>1, <2>2
<1> QED
  BY <1>2, <1>3

\* Rows only leave the workers' hands.
LEMMA ApartShrinks ==
  ASSUME IInv,
         \A v \in Worker : /\ batch'[v] \subseteq batch[v]
                           /\ hand'[v] = hand[v] \/ hand'[v] = Nothing
  PROVE  Apart'
<1>1. \A v \in Worker : \A c \in batch[v] : c.id # Nothing.id
  BY Parameters DEF IInv, TypeOK, Claim, Nothing
<1>2. ASSUME NEW w \in Worker, NEW c \in batch'[w] PROVE c.id # hand'[w].id
  BY <1>1, <1>2 DEF IInv, Apart
<1>3. ASSUME NEW v \in Worker, NEW w \in Worker, v # w
      PROVE  /\ \A c \in batch'[v] : c.id # hand'[w].id
             /\ \A c \in batch'[v], d \in batch'[w] : c.id # d.id
             /\ hand'[v] # Nothing => hand'[v].id # hand'[w].id
  <2>1. hand[v] # Nothing => hand[v].id # Nothing.id
    BY Hands DEF HandRow, IInv
  <2> QED
    BY <1>1, <1>3, <2>1 DEF IInv, Apart
<1> QED
  BY <1>2, <1>3 DEF Apart

\* A worker knows what it holds: its row waits, nobody else has it, and the
\* lease has time left.
LEMMA HandKnows ==
  ASSUME IInv, NEW w \in Worker, hand[w] # Nothing
  PROVE  /\ hand[w].id \in Note /\ hand[w] \in HandRow
         /\ Held(w, hand[w].id, hand[w].attempts)
         /\ hand[w].arrivals = (IF hand[w].ok THEN 1 ELSE 0)
         /\ arrived[hand[w].id] <= doubt[hand[w].id] + hand[w].arrivals
         /\ \A v \in Worker : /\ v # w => hand[v].id # hand[w].id
                              /\ \A c \in batch[v] : c.id # hand[w].id
BY Hands DEF IInv, HandOK, HandRow, Apart

LEMMA MarkSentOK ==
  ASSUME IInv, NEW w \in Worker, MarkSent(w)
  PROVE  IInv'
<1> DEFINE n == hand[w].id
<1>1. /\ hand[w] # Nothing /\ hand[w].ok
      /\ note' = [note EXCEPT ![n] =
           [status |-> "sent", attempts |-> note[n].attempts + 1, lease |-> Lease]]
      /\ hand' = [hand EXCEPT ![w] = Nothing]
      /\ UNCHANGED <<batch, spent, faults, alerted, arrived, doubt>>
  BY DEF MarkSent
<1>2. n \in Note
  BY <1>1, HandKnows
<1>3. /\ note \in [Note -> NoteRow] /\ arrived \in [Note -> Nat] /\ doubt \in [Note -> Nat]
      /\ hand \in [Worker -> {Nothing} \cup HandRow]
  BY DEF IInv, TypeOK, HandRow
<1>4. note[n].attempts < MaxAttempts /\ note[n].attempts \in Nat /\ note[n].status \in Waiting
  BY <1>1, <1>2, <1>3, HandKnows DEF Held, NoteRow
<1>5. TypeOK'
  <2>1. note' \in [Note -> NoteRow]
    BY <1>1, <1>2, <1>3, <1>4, Parameters DEF NoteRow, Settled
  <2> QED
    BY <1>1, <1>3, <2>1 DEF IInv, TypeOK, HandRow
<1>6. /\ \A m \in Note : m # n => note'[m] = note[m]
      /\ note'[n].status = "sent"
      /\ \A v \in Worker : v # w => hand'[v] = hand[v]
      /\ hand'[w] = Nothing
  BY <1>1, <1>2, <1>3
<1>7. ASSUME NEW m \in Note PROVE RowOK(m)'
  <2>1. RowOK(m)
    BY DEF IInv
  <2>2. CASE m = n
    BY <2>1, <2>2, <1>1, <1>4, <1>6 DEF RowOK, Waiting, Settled
  <2>3. CASE m # n
    <3>1. (\A v \in Worker : hand'[v].id # m) => \A v \in Worker : hand[v].id # m
      BY <2>3, <1>6
    <3> QED
      BY <2>1, <2>3, <3>1, <1>1, <1>6 DEF RowOK
  <2> QED
    BY <2>2, <2>3
<1>8. ASSUME NEW v \in Worker PROVE BatchOK(v)' /\ HandOK(v)'
  <2>1. \A c \in batch[v] : c.id # n
    BY <1>1, HandKnows
  <2>2. CASE v # w
    BY <2>1, <2>2, <1>1, <1>2, <1>6, OthersOK, HandKnows
  <2>3. CASE v = w
    <3>1. BatchOK(v) /\ batch[v] \subseteq Claim
      BY DEF IInv, TypeOK
    <3> QED
      BY <2>1, <2>3, <3>1, <1>1, <1>6 DEF BatchOK, HandOK, Held, Claim
  <2> QED
    BY <2>2, <2>3
<1>9. Apart'
  BY <1>1, <1>6, ApartShrinks
<1> QED
  BY <1>5, <1>7, <1>8, <1>9 DEF IInv

LEMMA MarkFailedOK ==
  ASSUME IInv, NEW w \in Worker, MarkFailed(w)
  PROVE  IInv'
<1> DEFINE n == hand[w].id
           tried == hand[w].attempts + 1
<1>1. /\ hand[w] # Nothing /\ ~hand[w].ok
      /\ note' = [note EXCEPT ![n] =
           [status |-> IF tried >= MaxAttempts THEN "dead" ELSE "failed",
            attempts |-> tried, lease |-> Lease]]
      /\ AlertsArtist(n, tried >= MaxAttempts)
      /\ hand' = [hand EXCEPT ![w] = Nothing]
      /\ UNCHANGED <<batch, spent, arrived, doubt>>
  BY DEF MarkFailed, Fails
<1>2. n \in Note
  BY <1>1, HandKnows
<1>3. /\ note \in [Note -> NoteRow] /\ arrived \in [Note -> Nat] /\ doubt \in [Note -> Nat]
      /\ hand \in [Worker -> {Nothing} \cup HandRow]
      /\ faults \in 0..MaxFaults /\ alerted \subseteq Note
  BY DEF IInv, TypeOK, HandRow
<1>4. /\ tried \in Nat /\ tried <= MaxAttempts /\ note[n].status \in Waiting
      /\ arrived[n] <= doubt[n]
  <2>1. /\ hand[w] \in HandRow /\ Held(w, n, hand[w].attempts)
        /\ hand[w].arrivals = 0 /\ arrived[n] <= doubt[n] + hand[w].arrivals
    BY <1>1, HandKnows
  <2>2. hand[w].attempts \in Nat /\ hand[w].attempts < MaxAttempts /\ note[n].status \in Waiting
    BY <2>1, Parameters DEF Held, HandRow
  <2>3. arrived[n] \in Nat /\ doubt[n] \in Nat
    BY <1>2, <1>3
  <2> QED
    BY <2>1, <2>2, <2>3, Parameters
<1>5. faults' \in 0..MaxFaults /\ alerted' \subseteq alerted \cup {n}
      /\ (tried < MaxAttempts => alerted' = alerted)
  BY <1>1, <1>3, <1>4, Parameters DEF AlertsArtist
<1>6. TypeOK'
  <2>1. note' \in [Note -> NoteRow]
    BY <1>1, <1>2, <1>3, <1>4, Parameters DEF NoteRow, Settled, Waiting
  <2> QED
    BY <1>1, <1>2, <1>3, <1>5, <2>1 DEF IInv, TypeOK, HandRow
<1>7. /\ \A m \in Note : m # n => note'[m] = note[m]
      /\ note'[n].status = IF tried >= MaxAttempts THEN "dead" ELSE "failed"
      /\ note'[n].attempts = tried
      /\ \A v \in Worker : v # w => hand'[v] = hand[v]
      /\ hand'[w] = Nothing
  BY <1>1, <1>2, <1>3
<1>8. ASSUME NEW m \in Note PROVE RowOK(m)'
  <2>1. RowOK(m)
    BY DEF IInv
  <2>2. CASE m = n
    <3>1. arrived'[m] <= doubt'[m] /\ arrived'[m] <= 1 + doubt'[m]
      BY <2>2, <1>1, <1>3, <1>4
    <3>2. CASE tried >= MaxAttempts
      BY <3>1, <3>2, <2>2, <1>7 DEF RowOK, Waiting, Settled
    <3>3. CASE tried < MaxAttempts
      <4>1. n \notin alerted'
        BY <3>3, <2>1, <2>2, <1>4, <1>5 DEF RowOK, Waiting
      <4>2. note'[n].status = "failed"
        BY <3>3, <1>7, <1>4, Parameters
      <4> QED
        BY <3>1, <3>3, <4>1, <4>2, <2>2, <1>7 DEF RowOK, Waiting, Settled
    <3> QED
      BY <3>2, <3>3, <1>4, Parameters
  <2>3. CASE m # n
    <3>1. (\A v \in Worker : hand'[v].id # m) => \A v \in Worker : hand[v].id # m
      BY <2>3, <1>7
    <3> QED
      BY <2>1, <2>3, <3>1, <1>1, <1>5, <1>7 DEF RowOK
  <2> QED
    BY <2>2, <2>3
<1>9. ASSUME NEW v \in Worker PROVE BatchOK(v)' /\ HandOK(v)'
  <2>1. \A c \in batch[v] : c.id # n
    BY <1>1, HandKnows
  <2>2. CASE v # w
    BY <2>1, <2>2, <1>1, <1>2, <1>7, OthersOK, HandKnows
  <2>3. CASE v = w
    <3>1. BatchOK(v) /\ batch[v] \subseteq Claim
      BY DEF IInv, TypeOK
    <3> QED
      BY <2>1, <2>3, <3>1, <1>1, <1>7 DEF BatchOK, HandOK, Held, Claim
  <2> QED
    BY <2>2, <2>3
<1>10. Apart'
  BY <1>1, <1>7, ApartShrinks
<1> QED
  BY <1>6, <1>8, <1>9, <1>10 DEF IInv

\* An outcome nobody records: what arrived becomes doubt.
LEMMA ForgetsOK ==
  ASSUME IInv, NEW w \in Worker, Forgets(w),
         hand' = [hand EXCEPT ![w] = Nothing],
         batch' = batch \/ batch' = [batch EXCEPT ![w] = {}],
         faults' \in 0..MaxFaults,
         UNCHANGED <<note, spent, alerted, arrived>>
  PROVE  IInv'
<1> DEFINE n == hand[w].id
<1>1. /\ note \in [Note -> NoteRow] /\ arrived \in [Note -> Nat] /\ doubt \in [Note -> Nat]
      /\ hand \in [Worker -> {Nothing} \cup HandRow]
      /\ batch \in [Worker -> SUBSET Claim]
  BY DEF IInv, TypeOK, HandRow
<1>2. /\ \A v \in Worker : v # w => hand'[v] = hand[v]
      /\ \A v \in Worker : batch'[v] \subseteq batch[v]
      /\ hand'[w] = Nothing /\ batch' \in [Worker -> SUBSET Claim]
      /\ hand' \in [Worker -> {Nothing} \cup HandRow]
  BY <1>1
<1>3. /\ doubt' \in [Note -> Nat]
      /\ \A m \in Note : m # n => doubt'[m] = doubt[m]
      /\ \A m \in Note : doubt[m] <= doubt'[m]
      /\ hand[w] # Nothing => n \in Note /\ arrived[n] <= doubt'[n]
  <2>1. CASE hand[w] = Nothing
    BY <2>1, <1>1 DEF Forgets
  <2>2. CASE hand[w] # Nothing
    <3>1. /\ n \in Note /\ hand[w].arrivals \in Nat
          /\ arrived[n] <= doubt[n] + hand[w].arrivals
      BY <2>2, HandKnows DEF HandRow
    <3>2. doubt' = [doubt EXCEPT ![n] = doubt[n] + hand[w].arrivals]
      BY <2>2 DEF Forgets
    <3> QED
      BY <3>1, <3>2, <1>1
  <2> QED
    BY <2>1, <2>2
<1>4. TypeOK'
  BY <1>1, <1>2, <1>3 DEF IInv, TypeOK, HandRow
<1>5. ASSUME NEW m \in Note PROVE RowOK(m)'
  <2>1. RowOK(m)
    BY DEF IInv
  <2>2. arrived[m] <= 1 + doubt'[m]
    BY <2>1, <1>1, <1>3 DEF RowOK
  <2>3. note[m].status \notin Settled /\ (\A v \in Worker : hand'[v].id # m) =>
          arrived[m] <= doubt'[m]
    <3> SUFFICES ASSUME note[m].status \notin Settled, \A v \in Worker : hand'[v].id # m
                 PROVE  arrived[m] <= doubt'[m]
      OBVIOUS
    <3>1. CASE hand[w] # Nothing /\ m = n
      BY <3>1, <1>3
    <3>2. CASE m # n
      BY <3>2, <2>1, <1>1, <1>2, <1>3 DEF RowOK
    <3>3. CASE hand[w] = Nothing
      BY <3>3, <2>1, <1>1, <1>2, <1>3 DEF RowOK
    <3> QED
      BY <3>1, <3>2, <3>3
  <2> QED
    BY <2>1, <2>2, <2>3 DEF RowOK
<1>6. ASSUME NEW v \in Worker PROVE BatchOK(v)' /\ HandOK(v)'
  <2>1. BatchOK(v) /\ HandOK(v)
    BY DEF IInv
  <2>2. BatchOK(v)'
    BY <2>1, <1>2 DEF BatchOK, Held
  <2>3. CASE v = w
    BY <2>2, <2>3, <1>2 DEF HandOK
  <2>4. CASE v # w
    <3>1. hand[v] # Nothing => hand[v] \in HandRow
      BY Hands DEF IInv
    <3>2. hand[v] # Nothing =>
            /\ arrived[hand[v].id] \in Nat /\ doubt[hand[v].id] \in Nat
            /\ doubt'[hand[v].id] \in Nat /\ hand[v].arrivals \in Nat
            /\ doubt[hand[v].id] <= doubt'[hand[v].id]
      BY <3>1, <1>1, <1>3 DEF HandRow
    <3>3. hand[v] # Nothing =>
            arrived[hand[v].id] <= doubt'[hand[v].id] + hand[v].arrivals
      BY <3>2, <2>1 DEF HandOK
    <3> QED
      BY <2>1, <2>2, <2>4, <3>3, <1>2 DEF HandOK, Held
  <2> QED
    BY <2>3, <2>4
<1>7. Apart'
  BY <1>2, ApartShrinks
<1> QED
  BY <1>4, <1>5, <1>6, <1>7 DEF IInv

LEMMA MarkFailsOK ==
  ASSUME IInv, NEW w \in Worker, MarkFails(w)
  PROVE  IInv'
<1>1. faults' \in 0..MaxFaults
  BY Parameters DEF MarkFails, IInv, TypeOK
<1>2. /\ Forgets(w) /\ hand' = [hand EXCEPT ![w] = Nothing] /\ batch' = batch
      /\ UNCHANGED <<note, spent, alerted, arrived>>
  BY DEF MarkFails
<1> QED
  BY <1>1, <1>2, ForgetsOK

LEMMA CrashOK ==
  ASSUME IInv, NEW w \in Worker, Crash(w)
  PROVE  IInv'
<1>1. faults' \in 0..MaxFaults
  BY Parameters DEF Crash, IInv, TypeOK
<1>2. /\ Forgets(w) /\ hand' = [hand EXCEPT ![w] = Nothing]
      /\ batch' = [batch EXCEPT ![w] = {}]
      /\ UNCHANGED <<note, spent, alerted, arrived>>
  BY DEF Crash
<1> QED
  BY <1>1, <1>2, ForgetsOK

LEMMA SendPanicsOK ==
  ASSUME IInv, NEW w \in Worker, NEW claim \in batch[w], SendPanics(w, claim)
  PROVE  IInv'
<1>1. /\ batch' = [batch EXCEPT ![w] = batch[w] \ {claim}]
      /\ UNCHANGED <<note, hand, spent, faults, alerted, arrived, doubt>>
  BY DEF SendPanics
<1>2. batch \in [Worker -> SUBSET Claim]
  BY DEF IInv, TypeOK
<1>3. TypeOK'
  BY <1>1, <1>2 DEF IInv, TypeOK
<1>4. \A v \in Worker : batch'[v] \subseteq batch[v]
  BY <1>1, <1>2
<1>5. \A m \in Note : RowOK(m)'
  BY <1>1 DEF IInv, RowOK
<1>6. \A v \in Worker : BatchOK(v)' /\ HandOK(v)'
  BY <1>1, <1>4 DEF IInv, BatchOK, HandOK, Held
<1>7. Apart'
  BY <1>1, <1>4, ApartShrinks
<1> QED
  BY <1>3, <1>5, <1>6, <1>7 DEF IInv

\* Every message that arrives is the one accepted or one of those in doubt.
LEMMA Arrivals ==
  ASSUME NEW whatsapp \in Answers, NEW sms \in Answers,
         whatsapp = "accepted" => sms = "refused"
  PROVE  /\ Reached(whatsapp) \in Nat /\ Reached(sms) \in Nat
         /\ Unsure(whatsapp) \in Nat /\ Unsure(sms) \in Nat
         /\ Reached(whatsapp) + Reached(sms) <=
              Unsure(whatsapp) + Unsure(sms)
                + (IF "accepted" \in {whatsapp, sms} THEN 1 ELSE 0)
BY DEF Answers, Reached, Unsure

LEMMA SendOK ==
  ASSUME IInv, NEW w \in Worker, NEW claim \in batch[w], Send(w, claim)
  PROVE  IInv'
<1> DEFINE n == claim.id
<1>1. PICK whatsapp \in Answers :
        \E sms \in IF SMS /\ whatsapp # "accepted" THEN Answers ELSE {"refused"} :
          LET unsure == Unsure(whatsapp) + Unsure(sms)
          IN /\ faults + unsure <= MaxFaults
             /\ faults' = faults + unsure
             /\ arrived' = [arrived EXCEPT ![n] = arrived[n] + Reached(whatsapp) + Reached(sms)]
             /\ doubt' = [doubt EXCEPT ![n] = doubt[n] + unsure]
             /\ hand' = [hand EXCEPT ![w] =
                  [id |-> n, attempts |-> claim.attempts,
                   ok |-> "accepted" \in {whatsapp, sms},
                   arrivals |-> IF "accepted" \in {whatsapp, sms} THEN 1 ELSE 0]]
  BY DEF Send
<1>2. PICK sms \in Answers :
        /\ whatsapp = "accepted" => sms = "refused"
        /\ faults + (Unsure(whatsapp) + Unsure(sms)) <= MaxFaults
        /\ faults' = faults + (Unsure(whatsapp) + Unsure(sms))
        /\ arrived' = [arrived EXCEPT ![n] = arrived[n] + Reached(whatsapp) + Reached(sms)]
        /\ doubt' = [doubt EXCEPT ![n] = doubt[n] + (Unsure(whatsapp) + Unsure(sms))]
        /\ hand' = [hand EXCEPT ![w] =
             [id |-> n, attempts |-> claim.attempts,
              ok |-> "accepted" \in {whatsapp, sms},
              arrivals |-> IF "accepted" \in {whatsapp, sms} THEN 1 ELSE 0]]
  BY <1>1 DEF Answers
<1> DEFINE reached == Reached(whatsapp) + Reached(sms)
           unsure == Unsure(whatsapp) + Unsure(sms)
           accepted == "accepted" \in {whatsapp, sms}
           one == IF accepted THEN 1 ELSE 0
<1>3. /\ reached \in Nat /\ unsure \in Nat /\ one \in 0..1 /\ accepted \in BOOLEAN
      /\ reached <= unsure + one
  BY <1>2, Arrivals
<1>4. /\ note \in [Note -> NoteRow] /\ arrived \in [Note -> Nat] /\ doubt \in [Note -> Nat]
      /\ batch \in [Worker -> SUBSET Claim] /\ faults \in 0..MaxFaults
      /\ hand \in [Worker -> {Nothing} \cup HandRow]
  BY DEF IInv, TypeOK, HandRow
<1>5. claim \in Claim /\ n \in Note
  BY <1>4 DEF Claim
<1>6. /\ hand[w] = Nothing
      /\ batch' = [batch EXCEPT ![w] = batch[w] \ {claim}]
      /\ UNCHANGED <<note, spent, alerted>>
  BY DEF Send
<1>7. /\ arrived' = [arrived EXCEPT ![n] = arrived[n] + reached]
      /\ doubt' = [doubt EXCEPT ![n] = doubt[n] + unsure]
      /\ hand' = [hand EXCEPT ![w] =
           [id |-> n, attempts |-> claim.attempts, ok |-> accepted, arrivals |-> one]]
      /\ faults' \in 0..MaxFaults
  <2>1. arrived[n] + Reached(whatsapp) + Reached(sms) = arrived[n] + reached
    BY <1>4, <1>5, Arrivals, <1>2
  <2>2. faults' \in 0..MaxFaults
    BY <1>2, <1>3, <1>4, Parameters
  <2> QED
    BY <1>2, <2>1, <2>2
<1> HIDE DEF reached, unsure, accepted, one
<1>8. /\ arrived'[n] = arrived[n] + reached /\ doubt'[n] = doubt[n] + unsure
      /\ \A m \in Note : m # n => arrived'[m] = arrived[m] /\ doubt'[m] = doubt[m]
      /\ hand'[w] = [id |-> n, attempts |-> claim.attempts, ok |-> accepted, arrivals |-> one]
      /\ batch'[w] = batch[w] \ {claim}
      /\ \A v \in Worker : v # w => hand'[v] = hand[v] /\ batch'[v] = batch[v]
  BY <1>4, <1>5, <1>6, <1>7
<1>9. Held(w, n, claim.attempts)
  BY DEF IInv, BatchOK
<1>10. /\ arrived[n] <= doubt[n]
  <2>1. note[n].status \notin Settled
    BY <1>9 DEF Held, Waiting, Settled
  <2>2. \A v \in Worker : hand[v].id # n
    BY <1>5 DEF IInv, Apart
  <2> QED
    BY <1>5, <2>1, <2>2 DEF IInv, RowOK
<1>11. arrived'[n] <= doubt'[n] + one /\ arrived'[n] <= 1 + doubt'[n]
  <2>1. arrived[n] \in Nat /\ doubt[n] \in Nat
    BY <1>4, <1>5
  <2> QED
    BY <2>1, <1>3, <1>8, <1>10
<1>12. TypeOK'
  <2>1. arrived' \in [Note -> Nat] /\ doubt' \in [Note -> Nat]
    BY <1>3, <1>4, <1>5, <1>7
  <2>2. hand' \in [Worker -> {Nothing} \cup HandRow]
    BY <1>3, <1>4, <1>5, <1>7 DEF HandRow, Claim
  <2>3. batch' \in [Worker -> SUBSET Claim]
    BY <1>4, <1>6
  <2> QED
    BY <1>6, <1>7, <2>1, <2>2, <2>3 DEF IInv, TypeOK, HandRow
<1>13. ASSUME NEW m \in Note PROVE RowOK(m)'
  <2>1. RowOK(m)
    BY DEF IInv
  <2>2. CASE m = n
    <3>1. hand'[w].id = n /\ n \notin alerted
      BY <1>8, <1>9, <2>1, <2>2 DEF RowOK, Held, Waiting
    <3> QED
      BY <2>1, <2>2, <3>1, <1>6, <1>11 DEF RowOK
  <2>3. CASE m # n
    <3>1. (\A v \in Worker : hand'[v].id # m) => \A v \in Worker : hand[v].id # m
      BY <1>6, <1>8, Parameters DEF Nothing
    <3> QED
      BY <2>1, <2>3, <3>1, <1>6, <1>8 DEF RowOK
  <2> QED
    BY <2>2, <2>3
<1>14. ASSUME NEW v \in Worker, v # w PROVE BatchOK(v)' /\ HandOK(v)'
  <2>1. hand[v].id # n /\ \A c \in batch[v] : c.id # n
    BY <1>14 DEF IInv, Apart
  <2> QED
    BY <2>1, <1>5, <1>6, <1>8, <1>14, OthersOK
<1>15. BatchOK(w)' /\ HandOK(w)'
  <2>1. BatchOK(w)'
    BY <1>6, <1>8 DEF IInv, BatchOK, Held
  <2>2. HandOK(w)'
    BY <1>6, <1>8, <1>9, <1>11 DEF HandOK, Held, one
  <2> QED
    BY <2>1, <2>2
<1>16. Apart'
  <2>1. ASSUME NEW c \in batch'[w] PROVE c.id # n
    <3>1. c \in batch[w] /\ c # claim /\ c \in Claim
      BY <1>4, <1>8
    <3>2. c.id = n => c.attempts = claim.attempts
      BY <3>1, <1>9 DEF IInv, BatchOK, Held
    <3> QED
      BY <3>1, <3>2, <1>5 DEF Claim
  <2>2. ASSUME NEW v \in Worker, NEW c \in batch'[v] PROVE c.id # hand'[v].id
    BY <2>1, <2>2, <1>8 DEF IInv, Apart
  <2>3. ASSUME NEW v \in Worker, NEW u \in Worker, v # u
        PROVE  /\ \A c \in batch'[v] : c.id # hand'[u].id
               /\ \A c \in batch'[v], d \in batch'[u] : c.id # d.id
               /\ hand'[v] # Nothing => hand'[v].id # hand'[u].id
    <3>1. \A x \in Worker : batch'[x] \subseteq batch[x]
      BY <1>8
    <3>2. \A x \in Worker : x # w =>
            hand[x].id # n /\ (\A c \in batch[x] : c.id # n)
      BY DEF IInv, Apart
    <3> QED
      BY <2>3, <3>1, <3>2, <1>8 DEF IInv, Apart
  <2> QED
    BY <2>2, <2>3 DEF Apart
<1> QED
  BY <1>12, <1>13, <1>14, <1>15, <1>16 DEF IInv

-----------------------------------------------------------------------------
(* Time.                                                                   *)

LEMMA TickOK ==
  ASSUME IInv, Tick
  PROVE  IInv'
<1>1. /\ note \in [Note -> NoteRow] /\ spent \in [Worker -> 0..BatchTime]
      /\ batch \in [Worker -> SUBSET Claim]
  BY DEF IInv, TypeOK
<1>2. UNCHANGED <<batch, hand, faults, alerted, arrived, doubt>>
  BY DEF Tick
<1>3. ASSUME NEW n \in Note
      PROVE  /\ note'[n] \in NoteRow
             /\ note'[n].status = note[n].status /\ note'[n].attempts = note[n].attempts
             /\ note[n].lease \in Nat /\ note'[n].lease \in Nat
             /\ note'[n].lease >= note[n].lease - 1
  BY <1>1, Parameters DEF Tick, NoteRow
<1>4. ASSUME NEW w \in Worker
      PROVE  /\ spent[w] \in Nat /\ spent'[w] \in 0..BatchTime
             /\ Busy(w) => spent'[w] = spent[w] + 1
  BY <1>1, Parameters DEF Tick
<1>5. TypeOK'
  <2>1. note' \in [Note -> NoteRow]
    BY <1>3 DEF Tick
  <2>2. spent' \in [Worker -> 0..BatchTime]
    BY <1>4 DEF Tick
  <2> QED
    BY <1>2, <2>1, <2>2 DEF IInv, TypeOK
<1>6. ASSUME NEW n \in Note PROVE RowOK(n)'
  BY <1>2, <1>3 DEF IInv, RowOK
<1>7. ASSUME NEW w \in Worker, Busy(w), NEW n \in Note, NEW k, Held(w, n, k)
      PROVE  Held(w, n, k)'
  <2>1. note'[n].lease + spent'[w] >= Lease
    BY <1>3, <1>4, <1>7, Parameters DEF Held
  <2> QED
    BY <2>1, <1>3, <1>7 DEF Held
<1>8. ASSUME NEW w \in Worker PROVE BatchOK(w)' /\ HandOK(w)'
  <2>1. BatchOK(w) /\ HandOK(w) /\ batch[w] \subseteq Claim
    BY <1>1 DEF IInv
  <2>2. BatchOK(w)'
    BY <2>1, <1>2, <1>7 DEF BatchOK, Busy, Claim
  <2>3. HandOK(w)'
    BY <2>1, <1>2, <1>7, Hands DEF HandOK, HandRow, Busy, IInv
  <2> QED
    BY <2>2, <2>3
<1>9. Apart'
  BY <1>2 DEF IInv, Apart
<1> QED
  BY <1>5, <1>6, <1>8, <1>9 DEF IInv

-----------------------------------------------------------------------------
(* The theorems.                                                           *)

LEMMA NextOK ==
  ASSUME IInv, [Next]_vars
  PROVE  IInv'
<1>1. ASSUME NEW n \in Note, EnqueueNotification(n) PROVE IInv'
  BY <1>1, EnqueueOK
<1>2. ASSUME NEW w \in Worker, Works(w) PROVE IInv'
  BY <1>2, FetchOK, SendOK, SendPanicsOK, MarkSentOK, MarkFailedOK DEF Works
<1>3. ASSUME NEW w \in Worker, MarkFails(w) \/ Crash(w) PROVE IInv'
  BY <1>3, MarkFailsOK, CrashOK
<1>4. CASE Tick
  BY <1>4, TickOK
<1>5. CASE UNCHANGED vars
  BY <1>5 DEF vars, IInv, TypeOK, RowOK, BatchOK, HandOK, Held, Apart
<1> QED
  BY <1>1, <1>2, <1>3, <1>4, <1>5 DEF Next

LEMMA Invariant == Spec => []IInv
BY InitOK, NextOK, PTL DEF Spec

\* The columns, the workers' batches and their clocks keep their types: no
\* attempt is counted past the limit and no lease or batch outlasts its bound.
THEOREM TypeCorrect == Spec => []TypeOK
<1>1. IInv => TypeOK
  BY DEF IInv
<1> QED
  BY <1>1, Invariant, PTL

\* A message is sent again only after a timeout or an unrecorded outcome,
\* however many workers race and whenever they crash.
THEOREM SendsAreSingle == Spec => []ResentOnlyInDoubt
<1>1. IInv => ResentOnlyInDoubt
  BY DEF IInv, RowOK, ResentOnlyInDoubt
<1> QED
  BY <1>1, Invariant, PTL

\* The lease alone keeps every row in one worker's hands.
THEOREM LeaseExcludes == Spec => []OneHolder
<1>1. IInv => OneHolder
  <2> SUFFICES ASSUME IInv, NEW v \in Worker, NEW w \in Worker, v # w,
                      NEW n, n \in Holds(v), n \in Holds(w)
               PROVE  FALSE
    BY DEF OneHolder
  <2>1. hand[v] = Nothing \/ hand[v].id # hand[w].id
    BY DEF IInv, Apart
  <2> QED
    BY <2>1 DEF Holds, IInv, Apart
<1> QED
  BY <1>1, Invariant, PTL

\* No waiting row is out of attempts, where no claim would find it.
THEOREM NoRowInLimbo == Spec => []NoLimbo
<1>1. IInv => NoLimbo
  BY DEF IInv, RowOK, NoLimbo
<1> QED
  BY <1>1, Invariant, PTL

\* Once the artist is told that a customer was not reached, the row is dead.
THEOREM AlertsAreTrue == Spec => []AlertedAreDead
<1>1. IInv => AlertedAreDead
  BY DEF IInv, RowOK, TypeOK, AlertedAreDead
<1> QED
  BY <1>1, Invariant, PTL

\* A row that was sent or given up on stays so, though a recording names only
\* the row: a worker's row always still waits when it records.
THEOREM SettledRowsStay == Spec => SettledForGood
<1>1. ASSUME IInv, [Next]_vars, NEW n \in Note, note[n].status \in Settled
      PROVE  note'[n].status = note[n].status
  <2>1. note \in [Note -> NoteRow]
    BY <1>1 DEF IInv, TypeOK
  <2>2. ASSUME NEW m \in Note, EnqueueNotification(m) PROVE m # n /\ note'[n] = note[n]
    BY <2>1, <2>2, <1>1 DEF EnqueueNotification, Settled
  <2>3. ASSUME NEW w \in Worker, FetchPending(w) PROVE note'[n].status = note[n].status
    BY <2>1, <2>3 DEF FetchPending, NoteRow
  <2>4. ASSUME NEW w \in Worker, MarkSent(w) \/ MarkFailed(w) PROVE note'[n] = note[n]
    <3>1. hand[w] # Nothing /\ hand[w].id # n
      <4>1. hand[w] # Nothing
        BY <2>4 DEF MarkSent, MarkFailed, Fails
      <4> QED
        BY <4>1, <1>1, HandKnows DEF Held, Waiting, Settled
    <3> QED
      BY <3>1, <2>1, <2>4 DEF MarkSent, MarkFailed, Fails
  <2>5. ASSUME NEW w \in Worker, NEW claim \in batch[w],
               Send(w, claim) \/ SendPanics(w, claim)
        PROVE  note' = note
    BY <2>5 DEF Send, SendPanics
  <2>6. ASSUME NEW w \in Worker, MarkFails(w) \/ Crash(w) PROVE note' = note
    BY <2>6 DEF MarkFails, Crash
  <2>7. CASE Tick
    BY <2>1, <2>7 DEF Tick, NoteRow
  <2>8. CASE UNCHANGED vars
    BY <2>8 DEF vars
  <2> QED
    BY <1>1, <2>2, <2>3, <2>4, <2>5, <2>6, <2>7, <2>8 DEF Next, Works
<1>2. ASSUME IInv, [Next]_vars
      PROVE  [\A n \in Note : note[n].status \in Settled => note'[n].status = note[n].status]_vars
  BY <1>1, <1>2
<1> QED
  BY <1>2, Invariant, PTL DEF Spec, SettledForGood

-----------------------------------------------------------------------------
(* The reconciler.  A sweep holds each of its rows once, and only rows that *)
(* are still due: so a row that is recorded leaves the part of the order    *)
(* that is due, and the part that was checked of late stays at the end.     *)

LEMMA PrefixSet ==
  ASSUME NEW S, NEW s \in Seq(S), NEW k \in 0 .. Len(s)
  PROVE  /\ SubSeq(s, 1, k) \in Seq(S) /\ Len(SubSeq(s, 1, k)) = k
         /\ \A i \in 1 .. k : SubSeq(s, 1, k)[i] = s[i]
         /\ ToSet(SubSeq(s, 1, k)) = {s[i] : i \in 1 .. k}
  <1>1. Len(s) \in Nat /\ k \in Nat /\ k <= Len(s)
    BY LenProperties
  <1>2. PICK t : t = SubSeq(s, 1, k)
    OBVIOUS
  <1>3. \A i \in 1 .. k : i \in 1 .. Len(s) /\ s[i] \in S
    BY <1>1, ElementOfSeq
  <1>4. /\ t \in Seq(S) /\ Len(t) = IF 1 <= k THEN k - 1 + 1 ELSE 0
        /\ \A i \in 1 .. k - 1 + 1 : t[i] = s[1 + i - 1]
    BY <1>1, <1>2, <1>3, SubSeqProperties
  <1>5. Len(t) = k /\ k - 1 + 1 = k
    BY <1>1, <1>4
  <1>6. \A i \in 1 .. k : t[i] = s[i]
    <2>1. \A i \in 1 .. k : 1 + i - 1 = i
      BY <1>1
    <2> QED BY <1>4, <1>5, <2>1
  <1>7. DOMAIN t = 1 .. k
    BY <1>4, <1>5, LenProperties
  <1> QED BY <1>2, <1>4, <1>5, <1>6, <1>7 DEF ToSet

\* What is left of a sequence without one of its elements.
LEMMA RemovedFirst ==
  ASSUME NEW S, NEW s \in Seq(S), IsInjective(s), NEW e, NEW r, r = RemoveFirst(s, e)
  PROVE  /\ r \in Seq(S)
         /\ e \notin ToSet(s) => r = s
         /\ \A i \in 1 .. Len(s) : s[i] = e =>
              /\ Len(r) = Len(s) - 1
              /\ \A j \in 1 .. Len(s) - 1 : r[j] = IF j < i THEN s[j] ELSE s[j + 1]
  <1>1. Len(s) \in Nat /\ DOMAIN s = 1 .. Len(s)
    BY LenProperties
  <1>2. ASSUME e \notin ToSet(s) PROVE r = s
    BY <1>1, <1>2 DEF ToSet, RemoveFirst
  <1>3. ASSUME NEW i \in 1 .. Len(s), s[i] = e
        PROVE  /\ r \in Seq(S) /\ Len(r) = Len(s) - 1
               /\ \A j \in 1 .. Len(s) - 1 : r[j] = IF j < i THEN s[j] ELSE s[j + 1]
    <2>1. \A j \in 1 .. Len(s) : s[j] = e => j = i
      BY <1>1, <1>3 DEF IsInjective
    <2>2. {j \in 1 .. Len(s) : s[j] = e} = {i}
      BY <1>3, <2>1
    <2>3. Min({i}) = i
      BY <1>1 DEF Min
    <2>4. r = RemoveAt(s, i)
      BY <1>3, <2>2, <2>3 DEF RemoveFirst, SelectInSeq
    <2>5. PICK before : before = SubSeq(s, 1, i - 1)
      OBVIOUS
    <2>6. PICK after : after = SubSeq(s, i + 1, Len(s))
      OBVIOUS
    <2>7. before \in Seq(S) /\ Len(before) = i - 1 /\ \A j \in 1 .. i - 1 : before[j] = s[j]
      BY <1>1, <2>5, SubSeqProperties
    <2>8. after \in Seq(S) /\ Len(after) = Len(s) - i /\ \A j \in 1 .. Len(s) - i : after[j] = s[i + j]
      <3>1. /\ i + 1 \in Int /\ Len(s) \in Int
            /\ \A j \in i + 1 .. Len(s) : j \in 1 .. Len(s) /\ s[j] \in S
        BY <1>1, ElementOfSeq
      <3>2. /\ after \in Seq(S)
            /\ Len(after) = IF i + 1 <= Len(s) THEN Len(s) - (i + 1) + 1 ELSE 0
            /\ \A j \in 1 .. Len(s) - (i + 1) + 1 : after[j] = s[(i + 1) + j - 1]
        BY <2>6, <3>1, SubSeqProperties
      <3>3. PICK n \in Nat, a \in Nat : n = Len(s) /\ a = Len(after)
        BY <1>1, <3>2, LenProperties
      <3>4. i \in 1 .. n /\ a = IF i + 1 <= n THEN n - (i + 1) + 1 ELSE 0
        BY <3>2, <3>3
      <3>5. n - (i + 1) + 1 = n - i /\ a = n - i
        BY <3>4
      <3>6. Len(s) - (i + 1) + 1 = Len(s) - i /\ Len(after) = Len(s) - i
        BY <3>3, <3>5
      <3>7. ASSUME NEW j \in 1 .. Len(s) - i PROVE after[j] = s[i + j]
        <4>1. (i + 1) + j - 1 = i + j
          BY <1>1
        <4> QED BY <3>2, <3>6, <4>1
      <3> QED BY <3>2, <3>6, <3>7
    <2>9. r = before \o after
      BY <2>4, <2>5, <2>6 DEF RemoveAt
    <2>10. r \in Seq(S) /\ Len(r) = Len(s) - 1
      <3>1. r \in Seq(S) /\ Len(r) = Len(before) + Len(after)
        BY <2>7, <2>8, <2>9, ConcatProperties
      <3> QED BY <1>1, <2>7, <2>8, <3>1
    <2>11. ASSUME NEW j \in 1 .. Len(s) - 1
           PROVE  r[j] = IF j < i THEN s[j] ELSE s[j + 1]
      <3>1. CASE j < i
        <4>1. j \in 1 .. Len(before)
          BY <1>1, <2>7, <3>1
        <4> QED BY <2>7, <2>8, <2>9, <3>1, <4>1, ConcatProperties
      <3>2. CASE ~(j < i)
        <4>1. j \in Len(before) + 1 .. Len(before) + Len(after) /\ j - Len(before) = j - i + 1
          BY <1>1, <2>7, <2>8, <3>2
        <4>2. r[j] = after[j - i + 1]
          BY <2>7, <2>8, <2>9, <4>1, ConcatProperties
        <4>3. j - i + 1 \in 1 .. Len(s) - i /\ i + (j - i + 1) = j + 1
          BY <1>1, <3>2
        <4> QED BY <2>8, <3>2, <4>2, <4>3
      <3> QED BY <3>1, <3>2
    <2> QED BY <2>10, <2>11
  <1>4. CASE e \in ToSet(s)
    <2>1. PICK i \in 1 .. Len(s) : s[i] = e
      BY <1>1, <1>4 DEF ToSet
    <2> QED BY <1>3, <1>4, <2>1
  <1>5. CASE e \notin ToSet(s)
    BY <1>1, <1>2, <1>5 DEF ToSet
  <1> QED BY <1>4, <1>5

\* The same, as a set.
LEMMA RemovedSet ==
  ASSUME NEW S, NEW s \in Seq(S), IsInjective(s), NEW e, NEW r, r = RemoveFirst(s, e)
  PROVE  IsInjective(r) /\ ToSet(r) = ToSet(s) \ {e}
  <1>1. Len(s) \in Nat /\ DOMAIN s = 1 .. Len(s)
    BY LenProperties
  <1>2. CASE e \notin ToSet(s)
    BY <1>2, RemovedFirst
  <1>3. CASE e \in ToSet(s)
    <2>1. PICK i \in 1 .. Len(s) : s[i] = e
      BY <1>1, <1>3 DEF ToSet
    <2>2. /\ Len(r) = Len(s) - 1 /\ r \in Seq(S)
          /\ \A j \in 1 .. Len(s) - 1 : r[j] = IF j < i THEN s[j] ELSE s[j + 1]
      BY <2>1, RemovedFirst
    <2>3. DOMAIN r = 1 .. Len(s) - 1
      BY <2>2, LenProperties
    <2>4. ASSUME NEW j \in 1 .. Len(s) - 1
          PROVE  \E k \in 1 .. Len(s) : k # i /\ r[j] = s[k] /\ k = IF j < i THEN j ELSE j + 1
      BY <1>1, <2>2
    <2>5. IsInjective(r)
      BY <1>1, <2>3, <2>4 DEF IsInjective
    <2>6. \A k \in 1 .. Len(s) : k # i => s[k] # e
      BY <1>1, <2>1 DEF IsInjective
    <2>7. ASSUME NEW k \in 1 .. Len(s), k # i PROVE \E j \in 1 .. Len(s) - 1 : r[j] = s[k]
      <3>1. CASE k < i
        BY <1>1, <2>2, <3>1
      <3>2. CASE i < k
        <4>1. k - 1 \in 1 .. Len(s) - 1 /\ ~(k - 1 < i) /\ k - 1 + 1 = k
          BY <1>1, <3>2
        <4> QED BY <2>2, <4>1
      <3> QED BY <1>1, <2>7, <3>1, <3>2
    <2>8. ToSet(r) \subseteq ToSet(s) \ {e}
      BY <1>1, <2>3, <2>4, <2>6 DEF ToSet
    <2>9. ToSet(s) \ {e} \subseteq ToSet(r)
      BY <1>1, <2>1, <2>3, <2>7 DEF ToSet
    <2> QED BY <2>5, <2>8, <2>9
  <1> QED BY <1>2, <1>3

LEMMA AppendedSet ==
  ASSUME NEW S, NEW s \in Seq(S), IsInjective(s), NEW e \in S, e \notin ToSet(s)
  PROVE  /\ Append(s, e) \in Seq(S) /\ Len(Append(s, e)) = Len(s) + 1
         /\ IsInjective(Append(s, e)) /\ ToSet(Append(s, e)) = ToSet(s) \cup {e}
  <1>1. Len(s) \in Nat /\ DOMAIN s = 1 .. Len(s)
    BY LenProperties
  <1>2. PICK t : t = Append(s, e)
    OBVIOUS
  <1>3. /\ t \in Seq(S) /\ Len(t) = Len(s) + 1
        /\ \A j \in 1 .. Len(s) : t[j] = s[j]
        /\ t[Len(s) + 1] = e
    BY <1>2, AppendProperties
  <1>4. DOMAIN t = 1 .. Len(s) + 1
    BY <1>3, LenProperties
  <1>5. \A j \in 1 .. Len(s) : s[j] # e
    BY <1>1 DEF ToSet
  <1>6. \A j \in 1 .. Len(s) + 1 : j \in 1 .. Len(s) \/ j = Len(s) + 1
    BY <1>1
  <1>7. IsInjective(t)
    BY <1>1, <1>3, <1>4, <1>5, <1>6 DEF IsInjective
  <1>8. ToSet(t) \subseteq ToSet(s) \cup {e}
    BY <1>1, <1>3, <1>4, <1>6 DEF ToSet
  <1>9. ToSet(s) \cup {e} \subseteq ToSet(t)
    <2>1. Len(s) + 1 \in 1 .. Len(s) + 1 /\ \A j \in 1 .. Len(s) : j \in 1 .. Len(s) + 1
      BY <1>1
    <2> QED BY <1>1, <1>3, <1>4, <2>1 DEF ToSet
  <1> QED BY <1>2, <1>3, <1>7, <1>8, <1>9

\* The first k of what is left.
LEMMA RemovedPrefix ==
  ASSUME NEW S, NEW s \in Seq(S), IsInjective(s), NEW e, NEW r, r = RemoveFirst(s, e),
         NEW k \in 0 .. Len(s)
  PROVE  /\ e \notin ToSet(s) => ToSet(SubSeq(r, 1, k)) = ToSet(SubSeq(s, 1, k))
         /\ e \in ToSet(SubSeq(s, 1, k)) =>
              /\ k \in Nat \ {0} /\ Len(r) = Len(s) - 1 /\ k - 1 \in 0 .. Len(r)
              /\ ToSet(SubSeq(s, 1, k)) \ {e} \subseteq ToSet(SubSeq(r, 1, k - 1))
  <1>1. Len(s) \in Nat /\ k \in Nat /\ k <= Len(s)
    BY LenProperties
  <1>2. \A i \in 1 .. k : i \in 1 .. Len(s)
    BY <1>1
  <1>3. ToSet(SubSeq(s, 1, k)) = {s[i] : i \in 1 .. k}
    BY <1>1, PrefixSet
  <1>4. ASSUME e \notin ToSet(s) PROVE r = s
    BY <1>4, RemovedFirst
  <1>5. ASSUME NEW i \in 1 .. k, s[i] = e
        PROVE  /\ k \in Nat \ {0} /\ Len(r) = Len(s) - 1 /\ k - 1 \in 0 .. Len(r)
               /\ ToSet(SubSeq(s, 1, k)) \ {e} \subseteq ToSet(SubSeq(r, 1, k - 1))
    <2>1. /\ Len(r) = Len(s) - 1 /\ r \in Seq(S)
          /\ \A j \in 1 .. Len(s) - 1 : r[j] = IF j < i THEN s[j] ELSE s[j + 1]
      BY <1>2, <1>5, RemovedFirst
    <2>2. k \in Nat \ {0} /\ k - 1 \in 0 .. Len(r)
      BY <1>1, <2>1
    <2>3. ToSet(SubSeq(r, 1, k - 1)) = {r[j] : j \in 1 .. k - 1}
      <3>1. PICK n \in 0 .. Len(r) : n = k - 1
        BY <2>2
      <3>2. r \in Seq(S)
        BY <2>1
      <3>3. ToSet(SubSeq(r, 1, n)) = {r[j] : j \in 1 .. n}
        BY <3>2, PrefixSet
      <3> QED BY <3>1, <3>3
    <2>4. ASSUME NEW j \in 1 .. k, s[j] # e PROVE \E m \in 1 .. k - 1 : r[m] = s[j]
      <3>1. CASE j < i
        <4>1. j \in 1 .. k - 1 /\ j \in 1 .. Len(s) - 1
          BY <1>1, <3>1
        <4> QED BY <2>1, <3>1, <4>1
      <3>2. CASE i < j
        <4>1. j - 1 \in 1 .. k - 1 /\ j - 1 \in 1 .. Len(s) - 1 /\ ~(j - 1 < i) /\ j - 1 + 1 = j
          BY <1>1, <3>2
        <4> QED BY <2>1, <4>1
      <3>3. i # j
        BY <1>5, <2>4
      <3> QED BY <1>1, <3>1, <3>2, <3>3
    <2> QED BY <1>3, <2>1, <2>2, <2>3, <2>4
  <1>6. e \in ToSet(SubSeq(s, 1, k)) => \E i \in 1 .. k : s[i] = e
    BY <1>3
  <1> QED BY <1>4, <1>5, <1>6

LEMMA JoinedSet ==
  ASSUME NEW S, NEW s \in Seq(S), NEW t \in Seq(S)
  PROVE  s \o t \in Seq(S) /\ ToSet(s \o t) = ToSet(s) \cup ToSet(t)
  <1>1. PICK u : u = s \o t
    OBVIOUS
  <1>2. PICK m \in Nat, n \in Nat : m = Len(s) /\ n = Len(t)
    BY LenProperties
  <1>3. /\ u \in Seq(S) /\ Len(u) = m + n
        /\ \A i \in 1 .. m + n : u[i] = IF i <= m THEN s[i] ELSE t[i - m]
    BY <1>1, <1>2, ConcatProperties
  <1>4. DOMAIN s = 1 .. m /\ DOMAIN t = 1 .. n /\ DOMAIN u = 1 .. m + n
    BY <1>2, <1>3, LenProperties
  <1>5. ToSet(u) \subseteq ToSet(s) \cup ToSet(t)
    <2>1. \A i \in 1 .. m + n : IF i <= m THEN i \in 1 .. m ELSE i - m \in 1 .. n
      BY <1>2
    <2> QED BY <1>3, <1>4, <2>1 DEF ToSet
  <1>6. ASSUME NEW i \in 1 .. m PROVE s[i] \in ToSet(u)
    <2>1. i \in 1 .. m + n /\ i <= m
      BY <1>2
    <2> QED BY <1>3, <1>4, <2>1 DEF ToSet
  <1>7. ASSUME NEW i \in 1 .. n PROVE t[i] \in ToSet(u)
    <2>1. m + i \in 1 .. m + n /\ ~(m + i <= m) /\ (m + i) - m = i
      BY <1>2
    <2> QED BY <1>3, <1>4, <2>1 DEF ToSet
  <1>8. ToSet(s) \subseteq ToSet(u) /\ ToSet(t) \subseteq ToSet(u)
    BY <1>4, <1>6, <1>7 DEF ToSet
  <1>9. ToSet(u) = ToSet(s) \cup ToSet(t)
    BY <1>5, <1>8
  <1> QED BY <1>1, <1>3, <1>9

\* A sweep of a batch, and of what is left of it.
LEMMA SweptOn ==
  ASSUME NEW S, NEW s \in Seq(S), IsInjective(s)
  PROVE  /\ \A k \in 0 .. Len(s) : /\ IsInjective(SubSeq(s, 1, k))
                                    /\ SubSeq(s, 1, k) \in Seq(S)
                                    /\ ToSet(SubSeq(s, 1, k)) \subseteq ToSet(s)
         /\ s # <<>> => /\ Head(s) \in ToSet(s) /\ Head(s) \in S
                        /\ Tail(s) \in Seq(S) /\ IsInjective(Tail(s))
                        /\ ToSet(Tail(s)) = ToSet(s) \ {Head(s)}
  <1>1. Len(s) \in Nat /\ DOMAIN s = 1 .. Len(s)
    BY LenProperties
  <1>2. ASSUME NEW k \in 0 .. Len(s)
        PROVE  /\ IsInjective(SubSeq(s, 1, k)) /\ SubSeq(s, 1, k) \in Seq(S)
               /\ ToSet(SubSeq(s, 1, k)) \subseteq ToSet(s)
    <2>1. PICK t : t = SubSeq(s, 1, k)
      OBVIOUS
    <2>2. t \in Seq(S) /\ Len(t) = k /\ \A i \in 1 .. k : t[i] = s[i]
      BY <2>1, PrefixSet
    <2>3. DOMAIN t = 1 .. k /\ \A i \in 1 .. k : i \in 1 .. Len(s)
      BY <1>1, <2>2, LenProperties
    <2> QED BY <1>1, <2>1, <2>2, <2>3 DEF IsInjective, ToSet
  <1>3. CASE s # <<>>
    <2>1. PICK t : t = Tail(s)
      OBVIOUS
    <2>2. /\ Head(s) \in S /\ t \in Seq(S) /\ Len(t) = Len(s) - 1
          /\ \A i \in 1 .. Len(t) : t[i] = s[i + 1]
          /\ Head(s) = s[1] /\ Len(s) > 0
      BY <1>3, <2>1, HeadTailProperties, EmptySeq
    <2>3. DOMAIN t = 1 .. Len(s) - 1
      BY <2>2, LenProperties
    <2>4. 1 \in 1 .. Len(s) /\ \A i \in 1 .. Len(s) - 1 : i + 1 \in 1 .. Len(s) /\ i + 1 # 1
      BY <1>1, <2>2
    <2>5. ASSUME NEW i \in 1 .. Len(s) - 1, NEW j \in 1 .. Len(s) - 1, t[i] = t[j] PROVE i = j
      <3>1. s[i + 1] = s[j + 1]
        BY <2>2, <2>5
      <3>2. i + 1 = j + 1
        BY <1>1, <2>4, <3>1 DEF IsInjective
      <3> QED BY <1>1, <3>2
    <2>6. \A i \in 1 .. Len(s) - 1 : s[i + 1] # s[1]
      BY <1>1, <2>4 DEF IsInjective
    <2>7. ASSUME NEW k \in 1 .. Len(s), k # 1 PROVE s[k] \in ToSet(t)
      <3>1. k - 1 \in 1 .. Len(s) - 1 /\ k - 1 + 1 = k
        BY <1>1, <2>7
      <3> QED BY <2>2, <2>3, <3>1 DEF ToSet
    <2>8. ToSet(t) \subseteq ToSet(s) \ {Head(s)}
      BY <1>1, <2>2, <2>3, <2>4, <2>6 DEF ToSet
    <2>9. ToSet(s) \ {Head(s)} \subseteq ToSet(t)
      BY <1>1, <2>2, <2>7 DEF ToSet
    <2>10. IsInjective(t)
      BY <2>3, <2>5 DEF IsInjective
    <2>11. Head(s) \in ToSet(s)
      BY <1>1, <2>2, <2>4 DEF ToSet
    <2>12. ToSet(t) = ToSet(s) \ {Head(s)}
      BY <2>8, <2>9
    <2>13. Head(s) \in S /\ t \in Seq(S)
      BY <2>2
    <2>14. /\ Head(s) \in ToSet(s) /\ Head(s) \in S
           /\ Tail(s) \in Seq(S) /\ IsInjective(Tail(s))
           /\ ToSet(Tail(s)) = ToSet(s) \ {Head(s)}
      BY <2>1, <2>10, <2>11, <2>12, <2>13
    <2> QED BY <1>2, <2>14
  <1>4. CASE s = <<>>
    BY <1>2, <1>4
  <1> QED BY <1>3, <1>4

LEMMA JoinedOnce ==
  ASSUME NEW S, NEW s \in Seq(S), NEW t \in Seq(S), IsInjective(s), IsInjective(t),
         ToSet(s) \cap ToSet(t) = {}
  PROVE  IsInjective(s \o t)
  <1>1. PICK u : u = s \o t
    OBVIOUS
  <1>2. PICK m \in Nat, n \in Nat : m = Len(s) /\ n = Len(t)
    BY LenProperties
  <1>3. /\ u \in Seq(S) /\ Len(u) = m + n
        /\ \A i \in 1 .. m + n : u[i] = IF i <= m THEN s[i] ELSE t[i - m]
    BY <1>1, <1>2, ConcatProperties
  <1>4. DOMAIN s = 1 .. m /\ DOMAIN t = 1 .. n /\ DOMAIN u = 1 .. m + n
    BY <1>2, <1>3, LenProperties
  <1>5. ASSUME NEW i \in 1 .. m + n, NEW j \in 1 .. m + n, u[i] = u[j]
        PROVE  i = j
    <2>1. CASE i <= m /\ j <= m
      <3>1. i \in 1 .. m /\ j \in 1 .. m /\ s[i] = s[j]
        BY <1>3, <1>5, <2>1
      <3> QED BY <1>4, <3>1 DEF IsInjective
    <2>2. CASE ~(i <= m) /\ ~(j <= m)
      <3>1. i - m \in 1 .. n /\ j - m \in 1 .. n /\ t[i - m] = t[j - m]
        BY <1>3, <1>5, <2>2
      <3>2. i - m = j - m
        BY <1>4, <3>1 DEF IsInjective
      <3> QED BY <3>2
    <2>3. ASSUME NEW k \in 1 .. m + n, NEW l \in 1 .. m + n, k <= m, ~(l <= m)
          PROVE  u[k] # u[l]
      <3>1. k \in 1 .. m /\ l - m \in 1 .. n
        BY <2>3
      <3>2. s[k] \in ToSet(s) /\ t[l - m] \in ToSet(t)
        BY <1>4, <3>1 DEF ToSet
      <3> QED BY <1>3, <2>3, <3>2
    <2> QED BY <1>5, <2>1, <2>2, <2>3
  <1> QED BY <1>1, <1>4, <1>5 DEF IsInjective

LEMMA NothingOnce == <<>> \in Seq(Text) /\ IsInjective(<<>>) /\ ToSet(<<>>) = {} /\ Len(<<>>) = 0
  <1>1. <<>> \in Seq(Text) /\ Len(<<>>) = 0
    BY EmptySeq
  <1>2. DOMAIN <<>> = {}
    BY <1>1, LenProperties
  <1> QED BY <1>1, <1>2 DEF IsInjective, ToSet

-----------------------------------------------------------------------------
(* The reconciler, step by step.                                           *)

\* Nobody is asked about twice in a sweep, or before deliveryRecheckAfter is over.
AskedInTurn == IsInjective(sweep) /\ ToSet(sweep) \subseteq ToSet(Awaited)

\* A verdict is what the provider said, and goes on saying.
SaidSo == \A m \in Text : verdict[m] \in Final => provider[m] = verdict[m]

DeliveryInv == DeliveryTypeOK /\ AskedInTurn /\ SaidSo

LEMMA OrdersKnown ==
  ASSUME DeliveryTypeOK
  PROVE  /\ unasked \in Seq(Text) /\ asked \in Seq(Text) /\ sweep \in Seq(Text)
         /\ Len(asked) \in Nat /\ Len(asked) - fresh \in 0 .. Len(asked) /\ fresh \in Nat
         /\ IsInjective(unasked) /\ IsInjective(asked)
         /\ DueAgain \in Seq(Text) /\ IsInjective(DueAgain) /\ ToSet(DueAgain) \subseteq ToSet(asked)
         /\ Awaited \in Seq(Text) /\ IsInjective(Awaited)
         /\ ToSet(Awaited) = ToSet(unasked) \cup ToSet(DueAgain)
  <1>1. /\ unasked \in Seq(Text) /\ asked \in Seq(Text) /\ sweep \in Seq(Text)
        /\ IsInjective(unasked) /\ IsInjective(asked) /\ fresh \in 0 .. Len(asked)
        /\ ToSet(unasked) \cap ToSet(asked) = {}
    BY DEF DeliveryTypeOK
  <1>2. Len(asked) \in Nat
    BY <1>1, LenProperties
  <1>3. Len(asked) - fresh \in 0 .. Len(asked) /\ fresh \in Nat
    BY <1>1, <1>2
  <1>4. DueAgain \in Seq(Text) /\ IsInjective(DueAgain) /\ ToSet(DueAgain) \subseteq ToSet(asked)
    BY <1>1, <1>3, SweptOn DEF DueAgain
  <1>5. Awaited \in Seq(Text) /\ ToSet(Awaited) = ToSet(unasked) \cup ToSet(DueAgain)
    BY <1>1, <1>4, JoinedSet DEF Awaited
  <1>6. ToSet(unasked) \cap ToSet(DueAgain) = {}
    BY <1>1, <1>4
  <1>7. IsInjective(Awaited)
    BY <1>1, <1>4, <1>6, JoinedOnce DEF Awaited
  <1> QED BY <1>1, <1>2, <1>3, <1>4, <1>5, <1>7

LEMMA DeliveryStart ==
  ASSUME DeliveryInit
  PROVE  DeliveryInv
  <1>1. /\ verdict = [m \in Text |-> "none"] /\ provider = [m \in Text |-> "none"]
        /\ unasked = <<>> /\ asked = <<>> /\ fresh = 0 /\ sweep = <<>> /\ failures = 0
    BY DEF DeliveryInit
  <1>2. verdict \in [Text -> Verdicts] /\ provider \in [Text -> Verdicts]
    BY <1>1 DEF Verdicts
  <1>3. {m \in Text : provider[m] # "none" /\ Open(m)} = {}
    BY <1>1
  <1>4. DeliveryTypeOK
    BY <1>1, <1>2, <1>3, NothingOnce, DeliveryParameters DEF DeliveryTypeOK
  <1>5. SaidSo
    BY <1>1 DEF SaidSo, Final
  <1> QED BY <1>1, <1>4, <1>5, NothingOnce DEF DeliveryInv, AskedInTurn

LEMMA HandedOK ==
  ASSUME DeliveryInv, NEW m \in Text, Handed(m)
  PROVE  DeliveryInv'
  <1>1. DeliveryTypeOK /\ AskedInTurn /\ SaidSo
    BY DEF DeliveryInv
  <1>2. /\ provider[m] = "none" /\ provider' = [provider EXCEPT ![m] = "queued"]
        /\ unasked' = Append(unasked, m)
        /\ UNCHANGED <<verdict, asked, fresh, sweep, failures>>
    BY DEF Handed
  <1>3. m \notin ToSet(unasked) /\ m \notin ToSet(asked)
    BY <1>1, <1>2 DEF DeliveryTypeOK
  <1>4. /\ unasked' \in Seq(Text) /\ IsInjective(unasked')
        /\ ToSet(unasked') = ToSet(unasked) \cup {m}
    BY <1>2, <1>3, <1>1, OrdersKnown, AppendedSet
  <1>5. /\ provider' \in [Text -> Verdicts] /\ provider'[m] = "queued"
        /\ \A n \in Text : n # m => provider'[n] = provider[n]
    BY <1>1, <1>2 DEF DeliveryTypeOK, Verdicts
  <1>6. Open(m) /\ \A n \in Text : Open(n)' <=> Open(n)
    BY <1>1, <1>2 DEF SaidSo, Open, Final
  <1>7. {n \in Text : provider'[n] # "none" /\ Open(n)'} =
          {n \in Text : provider[n] # "none" /\ Open(n)} \cup {m}
    BY <1>2, <1>5, <1>6
  <1>8. /\ ToSet(unasked') \cap ToSet(asked) = {}
        /\ ToSet(unasked') \cup ToSet(asked) = {n \in Text : provider'[n] # "none" /\ Open(n)'}
    BY <1>1, <1>3, <1>4, <1>7 DEF DeliveryTypeOK
  <1>9. DeliveryTypeOK'
    BY <1>1, <1>2, <1>4, <1>5, <1>8 DEF DeliveryTypeOK
  <1>10. ToSet(Awaited') = ToSet(Awaited) \cup {m}
    <2>1. DueAgain' = DueAgain /\ Awaited' = unasked' \o DueAgain
      BY <1>2 DEF DueAgain, Awaited
    <2>2. ToSet(unasked' \o DueAgain) = ToSet(unasked') \cup ToSet(DueAgain)
      BY <1>1, <1>4, OrdersKnown, JoinedSet
    <2> QED BY <1>1, <1>4, <2>1, <2>2, OrdersKnown
  <1>11. AskedInTurn' /\ SaidSo'
    <2>1. AskedInTurn'
      BY <1>1, <1>2, <1>10 DEF AskedInTurn
    <2>2. SaidSo'
      BY <1>1, <1>2, <1>5 DEF SaidSo, Final
    <2> QED BY <2>1, <2>2
  <1> QED BY <1>9, <1>11 DEF DeliveryInv

LEMMA ArriveOK ==
  ASSUME DeliveryInv, NEW m \in Text, Arrive(m)
  PROVE  DeliveryInv'
  <1>1. DeliveryTypeOK /\ AskedInTurn /\ SaidSo
    BY DEF DeliveryInv
  <1>2. PICK status \in Final : provider' = [provider EXCEPT ![m] = status]
    BY DEF Arrive
  <1>3. provider[m] = "queued" /\ UNCHANGED <<verdict, unasked, asked, fresh, sweep, failures>>
    BY DEF Arrive
  <1>4. /\ provider' \in [Text -> Verdicts] /\ provider'[m] # "none"
        /\ \A n \in Text : n # m => provider'[n] = provider[n]
    BY <1>1, <1>2 DEF DeliveryTypeOK, Verdicts, Final
  <1>5. \A n \in Text : Open(n)' <=> Open(n)
    BY <1>3 DEF Open
  <1>6. {n \in Text : provider'[n] # "none" /\ Open(n)'} =
          {n \in Text : provider[n] # "none" /\ Open(n)}
    BY <1>3, <1>4, <1>5
  <1>7. DeliveryTypeOK'
    BY <1>1, <1>3, <1>4, <1>6 DEF DeliveryTypeOK
  <1>8. Awaited' = Awaited
    BY <1>3 DEF Awaited, DueAgain
  <1>9. SaidSo'
    BY <1>1, <1>3, <1>4 DEF SaidSo, Final
  <1> QED BY <1>1, <1>3, <1>7, <1>8, <1>9 DEF DeliveryInv, AskedInTurn

\* One more row is due: the one whose check is longest ago of the fresh ones.
LEMMA ElapseOK ==
  ASSUME DeliveryInv, Elapse
  PROVE  DeliveryInv'
  <1>1. DeliveryTypeOK /\ AskedInTurn /\ SaidSo
    BY DEF DeliveryInv
  <1>2. /\ fresh > 0 /\ fresh' = fresh - 1
        /\ UNCHANGED <<verdict, unasked, asked, sweep, provider, failures>>
    BY DEF Elapse
  <1>3. asked \in Seq(Text) /\ Len(asked) \in Nat /\ fresh \in 0 .. Len(asked)
    BY <1>1, OrdersKnown DEF DeliveryTypeOK
  <1>4. fresh' \in 0 .. Len(asked)
    BY <1>2, <1>3
  <1>5. \A n \in Text : Open(n)' <=> Open(n)
    BY <1>2 DEF Open
  <1>6. DeliveryTypeOK'
    BY <1>1, <1>2, <1>4, <1>5 DEF DeliveryTypeOK
  <1>7. ToSet(DueAgain) \subseteq ToSet(DueAgain')
    <2>1. PICK k \in 0 .. Len(asked), l \in 0 .. Len(asked) :
            k = Len(asked) - fresh /\ l = Len(asked) - fresh' /\ l = k + 1
      BY <1>2, <1>3, <1>4
    <2>2. ToSet(SubSeq(asked, 1, k)) = {asked[i] : i \in 1 .. k}
      BY <1>3, PrefixSet
    <2>3. ToSet(SubSeq(asked, 1, l)) = {asked[i] : i \in 1 .. l}
      BY <1>3, PrefixSet
    <2>4. \A i \in 1 .. k : i \in 1 .. l
      BY <1>3, <2>1
    <2>5. DueAgain = SubSeq(asked, 1, k) /\ DueAgain' = SubSeq(asked, 1, l)
      BY <1>2, <2>1 DEF DueAgain
    <2> QED BY <2>2, <2>3, <2>4, <2>5
  <1>8. ToSet(Awaited) \subseteq ToSet(Awaited')
    <2>1. DueAgain' \in Seq(Text)
      <3>1. PICK l \in 0 .. Len(asked) : l = Len(asked) - fresh'
        BY <1>3, <1>4
      <3>2. DueAgain' = SubSeq(asked, 1, l)
        BY <1>2, <3>1 DEF DueAgain
      <3> QED BY <1>3, <3>2, PrefixSet
    <2>2. Awaited' = unasked \o DueAgain'
      BY <1>2 DEF Awaited
    <2>3. ToSet(Awaited') = ToSet(unasked) \cup ToSet(DueAgain')
      BY <1>1, <2>1, <2>2, OrdersKnown, JoinedSet
    <2> QED BY <1>1, <1>7, <2>3, OrdersKnown
  <1>9. AskedInTurn'
    BY <1>1, <1>2, <1>8 DEF AskedInTurn
  <1>10. SaidSo'
    BY <1>1, <1>2 DEF SaidSo
  <1> QED BY <1>6, <1>9, <1>10 DEF DeliveryInv

\* Steps that leave the rows alone: the sweep holds what is due, each row once.
LEMMA SweepOK ==
  ASSUME DeliveryInv, UNCHANGED <<verdict, unasked, asked, fresh, provider>>,
         sweep' \in Seq(Text), IsInjective(sweep'), ToSet(sweep') \subseteq ToSet(Awaited),
         failures' \in 0..MaxFailures
  PROVE  DeliveryInv'
  <1>1. DeliveryTypeOK /\ SaidSo
    BY DEF DeliveryInv
  <1>2. \A n \in Text : Open(n)' <=> Open(n)
    BY DEF Open
  <1>3. DeliveryTypeOK'
    BY <1>1, <1>2 DEF DeliveryTypeOK
  <1>4. Awaited' = Awaited
    BY DEF Awaited, DueAgain
  <1>5. SaidSo'
    BY <1>1 DEF SaidSo
  <1> QED BY <1>3, <1>4, <1>5 DEF DeliveryInv, AskedInTurn

LEMMA QueryOK ==
  ASSUME DeliveryInv, Query
  PROVE  DeliveryInv'
  <1>1. DeliveryTypeOK
    BY DEF DeliveryInv
  <1>2. Awaited \in Seq(Text) /\ IsInjective(Awaited) /\ Len(Awaited) \in Nat
    BY <1>1, OrdersKnown, LenProperties
  <1>3. PICK k \in 0 .. Len(Awaited) :
          k = IF Len(Awaited) < DeliveryBatch THEN Len(Awaited) ELSE DeliveryBatch
    BY <1>2, DeliveryParameters
  <1>4. /\ sweep' = SubSeq(Awaited, 1, k)
        /\ UNCHANGED <<verdict, unasked, asked, fresh, provider, failures>>
    BY <1>3 DEF Query
  <1>5. /\ sweep' \in Seq(Text) /\ IsInjective(sweep')
        /\ ToSet(sweep') \subseteq ToSet(Awaited)
    BY <1>2, <1>4, SweptOn
  <1>6. failures' \in 0..MaxFailures
    BY <1>1, <1>4 DEF DeliveryTypeOK
  <1> QED BY <1>4, <1>5, <1>6, SweepOK

\* A row of the sweep has been handed over, has no final verdict, and is due.
LEMMA HeadIsDue ==
  ASSUME DeliveryInv, sweep # <<>>, NEW m, m = Head(sweep)
  PROVE  /\ m \in Text /\ m \in ToSet(Awaited) /\ provider[m] # "none" /\ Open(m)
         /\ Tail(sweep) \in Seq(Text) /\ IsInjective(Tail(sweep))
         /\ ToSet(Tail(sweep)) \subseteq ToSet(Awaited) \ {m}
  <1>1. DeliveryTypeOK /\ AskedInTurn
    BY DEF DeliveryInv
  <1>2. /\ m \in ToSet(sweep) /\ m \in Text
        /\ Tail(sweep) \in Seq(Text) /\ IsInjective(Tail(sweep))
        /\ ToSet(Tail(sweep)) = ToSet(sweep) \ {m}
    BY <1>1, OrdersKnown, SweptOn DEF AskedInTurn
  <1>3. m \in ToSet(Awaited) /\ ToSet(Tail(sweep)) \subseteq ToSet(Awaited) \ {m}
    BY <1>1, <1>2 DEF AskedInTurn
  <1>4. m \in ToSet(unasked) \cup ToSet(asked)
    BY <1>1, <1>3, OrdersKnown
  <1>5. provider[m] # "none" /\ Open(m)
    BY <1>1, <1>4 DEF DeliveryTypeOK
  <1> QED BY <1>2, <1>3, <1>5

LEMMA LookupFailsOK ==
  ASSUME DeliveryInv, LookupFails
  PROVE  DeliveryInv'
  <1>1. /\ sweep # <<>> /\ sweep' = Tail(sweep)
        /\ UNCHANGED <<verdict, unasked, asked, fresh, provider>>
    BY DEF LookupFails
  <1>2. failures' \in 0..MaxFailures
    <2>1. failures \in 0..MaxFailures /\ MaxFailures \in Nat
      BY DeliveryParameters DEF DeliveryInv, DeliveryTypeOK
    <2>2. failures' = failures \/ (failures < MaxFailures /\ failures' = failures + 1)
      BY DEF LookupFails
    <2> QED BY <2>1, <2>2
  <1>3. /\ sweep' \in Seq(Text) /\ IsInjective(sweep') /\ ToSet(sweep') \subseteq ToSet(Awaited)
    BY <1>1, HeadIsDue
  <1> QED BY <1>1, <1>2, <1>3, SweepOK

LEMMA RestartOK ==
  ASSUME DeliveryInv, Restart
  PROVE  DeliveryInv'
  <1>1. /\ failures < MaxFailures /\ failures' = failures + 1 /\ sweep' = <<>>
        /\ UNCHANGED <<verdict, unasked, asked, fresh, provider>>
    BY DEF Restart
  <1>2. failures' \in 0..MaxFailures
    BY <1>1, DeliveryParameters DEF DeliveryInv, DeliveryTypeOK
  <1> QED BY <1>1, <1>2, NothingOnce, SweepOK

\* The row leaves the part of its order that is due, and nothing else does.
LEMMA OthersStayDue ==
  ASSUME DeliveryTypeOK, NEW m \in Text, m \in ToSet(Awaited),
         NEW others, others = RemoveFirst(asked, m),
         NEW waiting, waiting = RemoveFirst(unasked, m)
  PROVE  /\ waiting \in Seq(Text) /\ IsInjective(waiting) /\ ToSet(waiting) = ToSet(unasked) \ {m}
         /\ others \in Seq(Text) /\ IsInjective(others) /\ ToSet(others) = ToSet(asked) \ {m}
         /\ Len(others) \in Nat /\ Len(others) - fresh \in 0 .. Len(others)
         /\ ToSet(DueAgain) \ {m} \subseteq ToSet(SubSeq(others, 1, Len(others) - fresh))
  <1>1. /\ unasked \in Seq(Text) /\ asked \in Seq(Text) /\ IsInjective(unasked) /\ IsInjective(asked)
        /\ Len(asked) \in Nat /\ fresh \in Nat /\ Len(asked) - fresh \in 0 .. Len(asked)
        /\ ToSet(unasked) \cap ToSet(asked) = {}
        /\ ToSet(Awaited) = ToSet(unasked) \cup ToSet(DueAgain)
    BY OrdersKnown DEF DeliveryTypeOK
  <1>2. /\ waiting \in Seq(Text) /\ IsInjective(waiting) /\ ToSet(waiting) = ToSet(unasked) \ {m}
    BY <1>1, RemovedFirst, RemovedSet
  <1>3. /\ others \in Seq(Text) /\ IsInjective(others) /\ ToSet(others) = ToSet(asked) \ {m}
    BY <1>1, RemovedFirst, RemovedSet
  <1>4. PICK k \in 0 .. Len(asked) : k = Len(asked) - fresh
    BY <1>1
  <1>5. DueAgain = SubSeq(asked, 1, k)
    BY <1>4 DEF DueAgain
  <1>6. CASE m \in ToSet(unasked)
    <2>1. m \notin ToSet(asked)
      BY <1>1, <1>6
    <2>2. others = asked
      BY <1>1, <2>1, RemovedFirst
    <2> QED BY <1>1, <1>2, <1>3, <1>4, <1>5, <2>2
  <1>7. CASE m \in ToSet(DueAgain)
    <2>1. /\ k \in Nat \ {0} /\ Len(others) = Len(asked) - 1 /\ k - 1 \in 0 .. Len(others)
          /\ ToSet(DueAgain) \ {m} \subseteq ToSet(SubSeq(others, 1, k - 1))
      BY <1>1, <1>5, <1>7, RemovedPrefix
    <2>2. Len(others) \in Nat /\ Len(others) - fresh = k - 1
      BY <1>1, <1>4, <2>1
    <2> QED BY <1>2, <1>3, <2>1, <2>2
  <1> QED BY <1>1, <1>6, <1>7

LEMMA RecordOK ==
  ASSUME DeliveryInv, Record
  PROVE  DeliveryInv'
  <1>1. DeliveryTypeOK /\ AskedInTurn /\ SaidSo
    BY DEF DeliveryInv
  <1>2. PICK m : m = Head(sweep)
    OBVIOUS
  <1>3. PICK others : others = RemoveFirst(asked, m)
    OBVIOUS
  <1>4. /\ sweep # <<>> /\ verdict' = [verdict EXCEPT ![m] = provider[m]]
        /\ unasked' = RemoveFirst(unasked, m) /\ sweep' = Tail(sweep)
        /\ \/ provider[m] \in Final /\ asked' = others /\ fresh' = fresh
           \/ provider[m] \notin Final /\ asked' = Append(others, m) /\ fresh' = fresh + 1
        /\ UNCHANGED <<provider, failures>>
    BY <1>2, <1>3 DEF Record
  <1>5. /\ m \in Text /\ m \in ToSet(Awaited) /\ provider[m] # "none" /\ Open(m)
        /\ sweep' \in Seq(Text) /\ IsInjective(sweep')
        /\ ToSet(sweep') \subseteq ToSet(Awaited) \ {m}
    BY <1>2, <1>4, HeadIsDue
  <1>6. /\ unasked' \in Seq(Text) /\ IsInjective(unasked') /\ ToSet(unasked') = ToSet(unasked) \ {m}
        /\ others \in Seq(Text) /\ IsInjective(others) /\ ToSet(others) = ToSet(asked) \ {m}
        /\ Len(others) \in Nat /\ Len(others) - fresh \in 0 .. Len(others)
        /\ ToSet(DueAgain) \ {m} \subseteq ToSet(SubSeq(others, 1, Len(others) - fresh))
    BY <1>1, <1>3, <1>4, <1>5, OthersStayDue
  <1>7. fresh \in Nat /\ ToSet(unasked) \cap ToSet(asked) = {}
        /\ ToSet(Awaited) = ToSet(unasked) \cup ToSet(DueAgain)
        /\ ToSet(unasked) \cup ToSet(asked) = {n \in Text : provider[n] # "none" /\ Open(n)}
    BY <1>1, OrdersKnown DEF DeliveryTypeOK
  <1>8. /\ verdict' \in [Text -> Verdicts] /\ verdict'[m] = provider[m]
        /\ \A n \in Text : n # m => verdict'[n] = verdict[n]
    BY <1>1, <1>4, <1>5 DEF DeliveryTypeOK
  <1>9. PICK k \in 0 .. Len(others) : k = Len(others) - fresh
    BY <1>6
  <1>10. /\ asked' \in Seq(Text) /\ IsInjective(asked') /\ fresh' \in 0 .. Len(asked')
         /\ ToSet(unasked') \cap ToSet(asked') = {}
         /\ ToSet(unasked') \cup ToSet(asked') = {n \in Text : provider[n] # "none" /\ Open(n)'}
         /\ DueAgain' \in Seq(Text) /\ ToSet(SubSeq(others, 1, k)) \subseteq ToSet(DueAgain')
    <2>1. CASE provider[m] \in Final /\ asked' = others /\ fresh' = fresh
      <3>1. {n \in Text : provider[n] # "none" /\ Open(n)'} =
              {n \in Text : provider[n] # "none" /\ Open(n)} \ {m}
        BY <1>8, <2>1 DEF Open
      <3>2. fresh' \in 0 .. Len(asked')
        BY <1>6, <1>7, <2>1
      <3>3. DueAgain' = SubSeq(others, 1, k)
        BY <1>9, <2>1 DEF DueAgain
      <3>4. DueAgain' \in Seq(Text)
        BY <1>6, <3>3, PrefixSet
      <3> QED BY <1>6, <1>7, <2>1, <3>1, <3>2, <3>3, <3>4
    <2>2. CASE provider[m] \notin Final /\ asked' = Append(others, m) /\ fresh' = fresh + 1
      <3>1. {n \in Text : provider[n] # "none" /\ Open(n)'} =
              {n \in Text : provider[n] # "none" /\ Open(n)}
        BY <1>5, <1>8, <2>2 DEF Open
      <3>2. /\ asked' \in Seq(Text) /\ Len(asked') = Len(others) + 1
            /\ IsInjective(asked') /\ ToSet(asked') = ToSet(others) \cup {m}
        BY <1>5, <1>6, <2>2, AppendedSet
      <3>3. fresh' \in 0 .. Len(asked') /\ Len(asked') - fresh' = k
        BY <1>6, <1>7, <1>9, <2>2, <3>2
      <3>4. DueAgain' = SubSeq(asked', 1, k)
        BY <3>3 DEF DueAgain
      <3>5. k \in 0 .. Len(asked') /\ \A i \in 1 .. k : i \in 1 .. Len(others)
        BY <1>6, <3>2
      <3>6. DueAgain' \in Seq(Text) /\ ToSet(DueAgain') = {asked'[i] : i \in 1 .. k}
        BY <3>2, <3>4, <3>5, PrefixSet
      <3>7. \A i \in 1 .. k : asked'[i] = others[i]
        BY <1>5, <1>6, <2>2, <3>5, AppendProperties
      <3>8. ToSet(SubSeq(others, 1, k)) = {others[i] : i \in 1 .. k}
        BY <1>6, PrefixSet
      <3>9. ToSet(SubSeq(others, 1, k)) \subseteq ToSet(DueAgain')
        BY <3>6, <3>7, <3>8
      <3>10. m \in ToSet(unasked) \cup ToSet(asked)
        BY <1>5, <1>7
      <3>11. /\ ToSet(unasked') \cap ToSet(asked') = {}
             /\ ToSet(unasked') \cup ToSet(asked') = ToSet(unasked) \cup ToSet(asked)
        BY <1>6, <1>7, <3>2, <3>10
      <3> QED BY <1>7, <3>1, <3>2, <3>3, <3>6, <3>9, <3>11
    <2> QED BY <1>4, <2>1, <2>2
  <1>11. DeliveryTypeOK'
    BY <1>1, <1>4, <1>5, <1>6, <1>8, <1>10 DEF DeliveryTypeOK
  <1>12. ToSet(Awaited) \ {m} \subseteq ToSet(Awaited')
    <2>1. ToSet(Awaited') = ToSet(unasked') \cup ToSet(DueAgain')
      BY <1>6, <1>10, JoinedSet DEF Awaited
    <2> QED BY <1>6, <1>7, <1>9, <1>10, <2>1
  <1>13. AskedInTurn'
    BY <1>5, <1>12 DEF AskedInTurn
  <1>14. SaidSo'
    BY <1>1, <1>4, <1>8 DEF SaidSo
  <1> QED BY <1>11, <1>13, <1>14 DEF DeliveryInv

LEMMA DeliveryStep ==
  ASSUME DeliveryInv, [DeliveryNext]_deliveryVars
  PROVE  DeliveryInv'
  <1>1. ASSUME NEW m \in Text, Handed(m) \/ Arrive(m) PROVE DeliveryInv'
    BY <1>1, HandedOK, ArriveOK
  <1>2. CASE Elapse \/ Reconciles \/ Restart
    BY <1>2, ElapseOK, QueryOK, RecordOK, LookupFailsOK, RestartOK DEF Reconciles
  <1>3. CASE UNCHANGED deliveryVars
    <2>1. failures' \in 0..MaxFailures /\ sweep \in Seq(Text) /\ AskedInTurn
      BY <1>3 DEF deliveryVars, DeliveryInv, DeliveryTypeOK
    <2> QED BY <1>3, <2>1, SweepOK DEF deliveryVars, AskedInTurn
  <1> QED BY <1>1, <1>2, <1>3 DEF DeliveryNext

-----------------------------------------------------------------------------
(* The theorems about the reconciler, and about both parts.                *)

\* No sweep asks the provider twice about one message, or about one that was
\* asked about within deliveryRecheckAfter, whatever was handed over and however
\* many lookups failed since the query.
THEOREM AsksTakeTurns == DeliverySpec => []AskedInTurn
<1>1. DeliveryInv => AskedInTurn
  BY DEF DeliveryInv
<1> QED
  BY <1>1, DeliveryStart, DeliveryStep, PTL DEF DeliverySpec

\* Each message handed over and without a verdict is in one of the two orders,
\* once, what deliveryRecheckAfter holds back is the end of the second, and the
\* worker's rows keep their types beside them.
THEOREM QueueTyped == QueueSpec => []QueueTypeOK
<1>1. QueueInit => IInv /\ DeliveryInv
  BY InitOK, DeliveryStart DEF QueueInit
<1>2. ASSUME IInv, DeliveryInv, [QueueNext]_queueVars
      PROVE  IInv' /\ DeliveryInv'
  <2>1. [Next]_vars /\ [DeliveryNext]_deliveryVars
    BY <1>2 DEF QueueNext, queueVars
  <2> QED
    BY <1>2, <2>1, NextOK, DeliveryStep
<1>3. IInv /\ DeliveryInv => QueueTypeOK
  BY DEF IInv, DeliveryInv, QueueTypeOK
<1> QED
  BY <1>1, <1>2, <1>3, PTL DEF QueueSpec
=============================================================================
