---------------------------- MODULE BookingProofs ----------------------------
(***************************************************************************)
(* Theorems about BookingLifecycle, for every table, every set of requests *)
(* and endpoints and every setting of the times.                           *)
(*                                                                         *)
(* Two invariants carry them.  RowsOK says of each row what its status     *)
(* implies about its other columns.  CarriedOK says of each request in     *)
(* flight what is still true, whatever came between, of the row it has     *)
(* read: it is what a write with a weak WHERE clause is left to rely on.   *)
(***************************************************************************)
EXTENDS BookingLifecycle, TLAPS

\* The statuses in which customer_id can still be the guest placeholder.
GuestStatuses == {"held", "expired", "cancelled", "refund_due", "refunded"}

RowOK(p) ==
  /\ p.status = "none" => ~p.paid
  /\ p.status \in {"refund_due", "refunded"} => DepositReceived(p)
  /\ p.status \in {"confirmed", "completed", "no_show"} => p.paid
  /\ p.moves <= MaxReschedules
  /\ p.guest => p.status \in GuestStatuses

RowsOK == \A b \in Booking : RowOK(row[b])

\* What is true of row p while a request that carries q means to write it.
Claims(q, p) ==
  /\ p.status # "none"
  /\ q.refund => DepositReceived(p)
  /\ q.op \in {"submit", "mark"} => ~p.guest

CarriedOK == \A r \in Request : \A b \in req[r].ids : Claims(req[r], row[b])

IInv == TypeOK /\ RowsOK /\ CarriedOK

-----------------------------------------------------------------------------
(* Types.                                                                  *)

\* The constants a type proof needs are integers.
LEMMA Constants ==
  /\ Grid \subseteq Int /\ Shifts \subseteq Nat \ {0}
  /\ Duration \in Nat /\ Buffer \in Nat /\ HoldFor \in Nat /\ DepositWindow \in Nat
  /\ Grace \in Nat /\ CancelWindow \in Nat /\ MaxReschedules \in Nat /\ MaxTime \in Nat
  /\ Duration > 0 /\ OpenAt \in Int /\ CloseAt \in Int
BY ParametersAreTimes DEF ParametersAreTimes

LEMMA IdleType == Idle \in Req /\ NoRow \in Row
BY DEF Idle, Req, NoRow, Row, Never, Statuses, AllEndpoints

\* The changes of several columns at once leave a row.
LEMMA MovedType ==
  ASSUME NEW p \in Row, NEW start \in Int, NEW blocked \in Int, NEW moves \in Nat
  PROVE  /\ [p EXCEPT !.start = start, !.blocked = blocked] \in Row
         /\ [p EXCEPT !.start = start, !.blocked = blocked, !.moves = moves] \in Row
BY DEF Row

LEMMA SubmittedType ==
  ASSUME NEW p \in Row
  PROVE  [p EXCEPT !.status = "pending", !.guest = FALSE, !.until = Never] \in Row
<1>1. Never \in Int
  BY DEF Never
<1> QED
  BY <1>1 DEF Row, Statuses

\* A sweep leaves a table of rows.
LEMMA SweepType ==
  ASSUME row \in [Booking -> Row]
  PROVE  /\ Swept \in [Booking -> Row]
         /\ Expired(row, HoldLapsed) \in [Booking -> Row]
         /\ Expired(row, DeadlineLapsed) \in [Booking -> Row]
BY DEF Swept, Expired, HoldLapsed, DeadlineLapsed, Row, Statuses

\* A step of the table that either commits a table or keeps the old one.
LEMMA CommitType ==
  ASSUME NEW table \in [Booking -> Row], row \in [Booking -> Row], Commits(table)
  PROVE  row' \in [Booking -> Row]
BY DEF Commits

LEMMA UpdateType ==
  ASSUME NEW b \in Booking, NEW guard \in BOOLEAN, NEW new, guard => new \in Row,
         row \in [Booking -> Row], Updates(b, guard, new)
  PROVE  row' \in [Booking -> Row]
BY DEF Updates, Commits

\* What a request carries, and what is left of it when it has been answered.
LEMMA CarriedType ==
  ASSUME NEW r \in Request, NEW q \in Req, req \in [Request -> Req],
         Carries(r, q) \/ Answers(r)
  PROVE  req' \in [Request -> Req]
BY IdleType DEF Carries, Answers

LEMMA TypeInit == Init => TypeOK
BY Constants, IdleType DEF Init, TypeOK

LEMMA TypeStep == TypeOK /\ [Next]_vars => TypeOK'
<1> SUFFICES ASSUME TypeOK, [Next]_vars PROVE TypeOK'
  OBVIOUS
<1> USE Constants DEF TypeOK
<1>1. CASE Tick
  BY <1>1 DEF Tick
<1>2. CASE Sweeps
  <2>1. ExpireStalePendingBookings => row' \in [Booking -> Row]
    BY DEF ExpireStalePendingBookings, Expired, Row, Statuses
  <2> QED
    BY <1>2, <2>1, SweepType
    DEF Sweeps, ReleaseExpiredHolds, ExpireDeadlineBookings, ExpireStalePendingBookings
<1>3. ASSUME NEW b \in Booking, OneStatement(b) PROVE TypeOK'
  BY <1>3 DEF OneStatement, ReleaseGuestHold, ConfirmDeposit, ConfirmDepositReceived,
              Confirms, MarkRefunded, Row, Statuses
<1>4. ASSUME NEW r \in Request, RequestDies(r) PROVE TypeOK'
  BY <1>4, IdleType DEF RequestDies, Answers
<1>5. ASSUME NEW r \in Request, ReadHoldGuestSlot(r) \/ ReadCreateBooking(r) PROVE TypeOK'
  <2>1. PICK endpoint \in {"hold", "create"} : ReadForInsert(r, endpoint)
    BY <1>5 DEF ReadHoldGuestSlot, ReadCreateBooking
  <2>2. PICK s \in Grid, asks \in BOOLEAN :
          /\ row' = Swept
          /\ Carries(r, [Idle EXCEPT !.op = endpoint, !.at = s,
                                     !.until = now + HoldFor, !.deposit = asks])
          /\ UNCHANGED <<now, landed>>
    BY <2>1 DEF ReadForInsert, Offered
  <2>3. [Idle EXCEPT !.op = endpoint, !.at = s,
                     !.until = now + HoldFor, !.deposit = asks] \in Req
    <3>1. now + HoldFor \in Int
      OBVIOUS
    <3> QED
      BY <3>1, IdleType DEF Req, AllEndpoints
  <2> QED
    BY <2>2, <2>3, SweepType, CarriedType
<1>6. ASSUME NEW r \in Request, ReadShiftDay(r) PROVE TypeOK'
  <2>0. Shifts \cup {-distance : distance \in Shifts} \subseteq Int
    <3>1. ASSUME NEW distance \in Shifts PROVE distance \in Int /\ -distance \in Int
      OBVIOUS
    <3> QED
      BY <3>1
  <2>1. PICK d \in Int :
          /\ Carries(r, [Idle EXCEPT !.op = "shift", !.ids = ShiftPlan, !.at = d])
          /\ UNCHANGED <<now, row, landed>>
    BY <1>6, <2>0 DEF ReadShiftDay
  <2>2. [Idle EXCEPT !.op = "shift", !.ids = ShiftPlan, !.at = d] \in Req
    BY IdleType DEF Req, AllEndpoints, ShiftPlan
  <2> QED
    BY <2>1, <2>2, CarriedType
<1>7. ASSUME NEW r \in Request, WriteShiftDay(r) PROVE TypeOK'
  <2>1. [b \in Booking |->
           IF b \in req[r].ids
           THEN [row[b] EXCEPT !.start = @ + req[r].at, !.blocked = @ + req[r].at]
           ELSE row[b]] \in [Booking -> Row]
    <3>1. ASSUME NEW b \in Booking
          PROVE  [row[b] EXCEPT !.start = @ + req[r].at, !.blocked = @ + req[r].at] \in Row
      <4>1. row[b] \in Row /\ row[b].start \in Int /\ row[b].blocked \in Int
            /\ req[r].at \in Int
        BY DEF Req, Row
      <4>2. row[b].start + req[r].at \in Int /\ row[b].blocked + req[r].at \in Int
        BY <4>1
      <4> QED
        BY <4>1, <4>2, MovedType
    <3> QED
      BY <3>1
  <2> QED
    BY <1>7, <2>1, CommitType, IdleType DEF WriteShiftDay, Answers
<1>8. ASSUME NEW r \in Request, NEW b \in Booking, Reads(r, b) PROVE TypeOK'
  <2>0. now \in Int /\ row[b] \in Row /\ row[b].start \in Int /\ row[b].blocked \in Int
    BY DEF Row
  <2>1. CASE ReadRescheduleBooking(r, b)
    <3>1. PICK s \in Grid :
            Carries(r, [Idle EXCEPT !.op = "reschedule", !.ids = {b}, !.at = s,
                                    !.until = s + (row[b].blocked - row[b].start)])
      BY <2>1 DEF ReadRescheduleBooking, Offered
    <3>2. s + (row[b].blocked - row[b].start) \in Int
      BY <2>0
    <3>3. [Idle EXCEPT !.op = "reschedule", !.ids = {b}, !.at = s,
                       !.until = s + (row[b].blocked - row[b].start)] \in Req
      BY <3>2, IdleType DEF Req, AllEndpoints
    <3> QED
      BY <2>1, <3>1, <3>3, SweepType, CarriedType DEF ReadRescheduleBooking
  <2>2. CASE ReadApproveBooking(r, b)
    <3>1. DepositDeadline(row[b].start) \in Int
      BY <2>0 DEF DepositDeadline
    <3>2. [Idle EXCEPT !.op = "approve", !.ids = {b},
                       !.until = DepositDeadline(row[b].start)] \in Req
      BY <3>1, IdleType DEF Req, AllEndpoints
    <3> QED
      BY <2>2, <3>2, CarriedType DEF ReadApproveBooking
  <2>3. ASSUME NEW bySalon \in BOOLEAN, ReadCancelBooking(r, b, bySalon) PROVE TypeOK'
    <3>1. RefundDue(row[b], bySalon) \in BOOLEAN
      BY DEF RefundDue
    <3>2. [Idle EXCEPT !.op = "cancel", !.ids = {b},
                       !.refund = RefundDue(row[b], bySalon)] \in Req
      BY <3>1, IdleType DEF Req, AllEndpoints
    <3> QED
      BY <2>3, <3>2, CarriedType DEF ReadCancelBooking
  <2>4. CASE \/ ReadSubmitGuestBooking(r, b) \/ ReadSubmitBooking(r, b)
             \/ ReadMarkDepositReceived(r, b) \/ ReadCompleteBooking(r, b)
             \/ ReadMarkNoShow(r, b)
    <3>1. ASSUME NEW endpoint \in AllEndpoints
          PROVE  [Idle EXCEPT !.op = endpoint, !.ids = {b}] \in Req
      BY IdleType DEF Req
    <3>2. \E endpoint \in AllEndpoints :
            Carries(r, [Idle EXCEPT !.op = endpoint, !.ids = {b}])
      BY <2>4 DEF ReadSubmitGuestBooking, ReadSubmitBooking, ReadMarkDepositReceived,
                  ReadCompleteBooking, ReadMarkNoShow, ReadOutcome, AllEndpoints
    <3>3. UNCHANGED <<now, row, landed>>
      BY <2>4 DEF ReadSubmitGuestBooking, ReadSubmitBooking, ReadMarkDepositReceived,
                  ReadCompleteBooking, ReadMarkNoShow, ReadOutcome
    <3> QED
      BY <3>1, <3>2, <3>3, CarriedType
  <2> QED
    BY <1>8, <2>1, <2>2, <2>3, <2>4 DEF Reads
<1>9. ASSUME NEW r \in Request, NEW b \in Booking, Writes(r, b) PROVE TypeOK'
  <2> USE IdleType
  <2>0. row[b] \in Row /\ now \in Int /\ row[b].start \in Int /\ row[b].blocked \in Int
        /\ row[b].moves \in Nat /\ req[r].at \in Int /\ req[r].until \in Int
        /\ req[r].deposit \in BOOLEAN
    BY DEF Row, Req
  <2>1. CASE WriteHoldGuestSlot(r, b) \/ WriteCreateBooking(r, b)
    <3>1. PICK endpoint \in {"hold", "create"} : Insert(r, endpoint, b)
      BY <2>1 DEF WriteHoldGuestSlot, WriteCreateBooking
    <3>2. [NoRow EXCEPT !.status = "held", !.start = req[r].at,
                        !.blocked = req[r].at + Duration + Buffer,
                        !.guest = (endpoint = "hold"), !.until = req[r].until,
                        !.deposit = req[r].deposit] \in Row
      <4>1. req[r].at + Duration + Buffer \in Int
        BY <2>0
      <4> QED
        BY <2>0, <4>1 DEF Row, Statuses
    <3> QED
      BY <3>1, <3>2, CommitType DEF Insert, Answers
  <2>2. CASE WriteSubmitGuestBooking(r, b)
    <3>1. [row[b] EXCEPT !.status = "pending", !.guest = FALSE, !.until = Never] \in Row
      BY <2>0, SubmittedType
    <3>2. row' \in [Booking -> Row]
      BY <2>2, <3>1, UpdateType DEF WriteSubmitGuestBooking, StillHeld
    <3> QED
      BY <2>2, <3>2 DEF WriteSubmitGuestBooking, Carries, Req
  <2>3. CASE WriteSubmitBooking(r, b)
    <3>1. SetStatus(b, "pending") \in [Booking -> Row]
      BY DEF SetStatus, Row, Statuses
    <3>2. row' \in [Booking -> Row]
      BY <2>3, <3>1, CommitType DEF WriteSubmitBooking
    <3> QED
      BY <2>3, <3>2 DEF WriteSubmitBooking, Carries, Req
  <2>4. CASE ApplyNoShowRule(r, b)
    <3>1. PICK guard \in BOOLEAN : Updates(b, guard, [row[b] EXCEPT !.deposit = TRUE])
      BY <2>4 DEF ApplyNoShowRule, Row
    <3>2. [row[b] EXCEPT !.deposit = TRUE] \in Row
      BY DEF Row
    <3> QED
      BY <2>4, <3>1, <3>2, UpdateType DEF ApplyNoShowRule, Answers
  <2>5. CASE WriteApproveBooking(r, b)
    <3>1. [row[b] EXCEPT !.status = "approved", !.deadline = req[r].until] \in Row
      BY DEF Row, Statuses, Req
    <3> QED
      BY <2>5, <3>1, UpdateType DEF WriteApproveBooking, Answers
  <2>6. CASE WriteMarkDepositReceived(r, b)
    <3>1. SetStatus(b, "deposit_paid") \in [Booking -> Row]
      BY DEF SetStatus, Row, Statuses
    <3> QED
      BY <2>6, <3>1, CommitType DEF WriteMarkDepositReceived, Answers
  <2>7. CASE WriteCancelBooking(r, b)
    <3>1. [row[b] EXCEPT !.status = IF req[r].refund THEN "refund_due" ELSE "cancelled"]
            \in Row
      BY DEF Row, Statuses
    <3> QED
      BY <2>7, <3>1, UpdateType DEF WriteCancelBooking, Answers
  <2>8. CASE WriteCompleteBooking(r, b)
    <3>1. [row[b] EXCEPT !.status = "completed", !.blocked = FreedFrom(row[b])] \in Row
      <4>1. FreedFrom(row[b]) \in Int
        BY <2>0 DEF FreedFrom
      <4> QED
        BY <2>0, <4>1 DEF Row, Statuses
    <3> QED
      BY <2>8, <3>1, UpdateType DEF WriteCompleteBooking, Answers
  <2>9. CASE WriteMarkNoShow(r, b)
    <3>1. [row[b] EXCEPT !.status = "no_show"] \in Row
      BY DEF Row, Statuses
    <3> QED
      BY <2>9, <3>1, UpdateType DEF WriteMarkNoShow, Answers
  <2>10. CASE WriteRescheduleBooking(r, b)
    <3>1. [row[b] EXCEPT !.start = req[r].at, !.blocked = req[r].until,
                         !.moves = @ + 1] \in Row
      <4>1. row[b].moves + 1 \in Nat
        BY <2>0
      <4> QED
        BY <2>0, <4>1, MovedType
    <3>2. (row[b].status \in Movable /\ row[b].moves < MaxReschedules) \in BOOLEAN
      OBVIOUS
    <3> QED
      BY <2>10, <3>1, <3>2, UpdateType DEF WriteRescheduleBooking, Answers
  <2> QED
    BY <1>9, <2>1, <2>2, <2>3, <2>4, <2>5, <2>6, <2>7, <2>8, <2>9, <2>10 DEF Writes
<1>10. CASE UNCHANGED vars
  BY <1>10 DEF vars
<1> QED
  BY <1>1, <1>2, <1>3, <1>4, <1>5, <1>6, <1>7, <1>8, <1>9, <1>10 DEF Next

\* TypeOK holds for every instance: every column keeps its type, the clock its
\* bound, and every request carries what its write will read.
THEOREM TypeCorrect == Spec => []TypeOK
BY TypeInit, TypeStep, PTL DEF Spec

-----------------------------------------------------------------------------
(* Rows and what requests carry.                                           *)

\* What no step takes from a row: that it exists, a deposit received, and being
\* somebody's booking rather than a guest's hold.
Kept(p, q) ==
  /\ p.status # "none" => q.status # "none"
  /\ DepositReceived(p) => DepositReceived(q)
  /\ ~p.guest /\ p.status # "none" => ~q.guest

Sound(p, q) == RowOK(q) /\ Kept(p, q)

TableSound == \A b \in Booking : Sound(row[b], row'[b])

LEMMA UnchangedSound ==
  ASSUME RowsOK, NEW b \in Booking
  PROVE  Sound(row[b], row[b])
BY DEF RowsOK, Sound, Kept

LEMMA CommitSound ==
  ASSUME RowsOK, NEW table, \A b \in Booking : Sound(row[b], table[b]), Commits(table)
  PROVE  TableSound
BY UnchangedSound DEF TableSound, Commits

LEMMA UpdateSound ==
  ASSUME TypeOK, RowsOK, NEW b \in Booking, NEW guard \in BOOLEAN, NEW new,
         guard => Sound(row[b], new), Updates(b, guard, new)
  PROVE  TableSound
<1>1. CASE guard
  <2>1. \A c \in Booking : Sound(row[c], [row EXCEPT ![b] = new][c])
    BY <1>1, UnchangedSound DEF TypeOK
  <2> QED
    BY <1>1, <2>1, CommitSound DEF Updates
<1>2. CASE ~guard
  BY <1>2, UnchangedSound DEF Updates, TableSound
<1> QED
  BY <1>1, <1>2

\* Ending a row that has no money in it is sound.
LEMMA ExpiredSound ==
  ASSUME RowsOK, NEW b \in Booking, row[b] \in Row, row[b].status # "none"
  PROVE  Sound(row[b], [row[b] EXCEPT !.status = "expired"])
BY DEF RowsOK, RowOK, Sound, Kept, Row, GuestStatuses, DepositReceived

LEMMA SweepSound ==
  ASSUME TypeOK, RowsOK,
         \/ row' = Swept
         \/ row' = Expired(row, HoldLapsed)
         \/ row' = Expired(row, DeadlineLapsed)
         \/ ExpireStalePendingBookings
  PROVE  TableSound
<1> SUFFICES ASSUME NEW b \in Booking PROVE Sound(row[b], row'[b])
  BY DEF TableSound
<1>1. row[b] \in Row
  BY DEF TypeOK
<1>2. \/ row'[b] = row[b]
      \/ row[b].status # "none" /\ row'[b] = [row[b] EXCEPT !.status = "expired"]
  BY <1>1 DEF Swept, Expired, HoldLapsed, DeadlineLapsed, ExpireStalePendingBookings, Row
<1> QED
  BY <1>1, <1>2, ExpiredSound, UnchangedSound

LEMMA InsertSound ==
  ASSUME TypeOK, RowsOK, NEW r \in Request, NEW b \in Booking,
         WriteHoldGuestSlot(r, b) \/ WriteCreateBooking(r, b)
  PROVE  TableSound
<1>1. PICK endpoint \in {"hold", "create"} : Insert(r, endpoint, b)
  BY DEF WriteHoldGuestSlot, WriteCreateBooking
<1> DEFINE new == [NoRow EXCEPT !.status = "held",
                     !.start = req[r].at,
                     !.blocked = req[r].at + Duration + Buffer,
                     !.guest = (endpoint = "hold"),
                     !.until = req[r].until,
                     !.deposit = req[r].deposit]
<1>2. new.status = "held" /\ ~new.paid /\ new.moves = 0
  BY DEF NoRow
<1>3. RowOK(new)
  BY <1>2, Constants DEF RowOK, GuestStatuses
<1>4. Sound(row[b], new)
  BY <1>1, <1>3 DEF Insert, Sound, Kept, RowsOK, RowOK, DepositReceived
<1>5. \A c \in Booking : Sound(row[c], [row EXCEPT ![b] = new][c])
  BY <1>4, UnchangedSound DEF TypeOK
<1> QED
  BY <1>1, <1>5, CommitSound DEF Insert

\* UpdateBookingStatus does not look at the row; that it never confirms or
\* submits a guest's hold rests on what the request still carries.
LEMMA SetStatusSound ==
  ASSUME TypeOK, RowsOK, NEW b \in Booking, NEW status \in {"pending", "deposit_paid"},
         ~row[b].guest, row[b].status # "none", Commits(SetStatus(b, status))
  PROVE  TableSound
<1>1. row[b] \in Row
  BY DEF TypeOK
<1>2. Sound(row[b], [row[b] EXCEPT !.status = status])
  BY <1>1 DEF Sound, Kept, RowsOK, RowOK, Row, DepositReceived
<1>3. \A c \in Booking : Sound(row[c], SetStatus(b, status)[c])
  BY <1>2, UnchangedSound DEF TypeOK, SetStatus
<1> QED
  BY <1>3, CommitSound

LEMMA TableStep == IInv /\ [Next]_vars => TableSound
<1> SUFFICES ASSUME IInv, [Next]_vars PROVE TableSound
  OBVIOUS
<1> USE DEF IInv
<1>0. UNCHANGED row => TableSound
  BY UnchangedSound DEF TableSound
<1>1. CASE Tick \/ UNCHANGED vars
  BY <1>0, <1>1 DEF Tick, vars
<1>2. CASE Sweeps
  BY <1>2, SweepSound DEF Sweeps, ReleaseExpiredHolds, ExpireDeadlineBookings
<1>3. ASSUME NEW b \in Booking, OneStatement(b) PROVE TableSound
  <2>1. row[b] \in Row /\ RowOK(row[b])
    BY DEF TypeOK, RowsOK
  <2>2. PICK new :
          /\ row' = [row EXCEPT ![b] = new]
          /\ Sound(row[b], new)
    <3>1. CASE ReleaseGuestHold(b)
      BY <2>1, <3>1, ExpiredSound DEF ReleaseGuestHold, TypeOK
    <3>2. CASE ConfirmDeposit(b) \/ ConfirmDepositReceived(b)
      <4>1. /\ row[b].status \in {"approved", "deposit_paid"}
            /\ row' = [row EXCEPT ![b] = [row[b] EXCEPT !.status = "confirmed", !.paid = TRUE]]
        BY <3>2 DEF ConfirmDeposit, ConfirmDepositReceived, Confirms, TypeOK
      <4>2. Sound(row[b], [row[b] EXCEPT !.status = "confirmed", !.paid = TRUE])
        BY <2>1, <4>1 DEF Sound, Kept, RowOK, Row, DepositReceived, GuestStatuses
      <4> QED
        BY <4>1, <4>2
    <3>3. CASE MarkRefunded(b)
      <4>1. /\ row[b].status = "refund_due"
            /\ row' = [row EXCEPT ![b] = [row[b] EXCEPT !.status = "refunded"]]
        BY <3>3 DEF MarkRefunded, TypeOK
      <4>2. Sound(row[b], [row[b] EXCEPT !.status = "refunded"])
        BY <2>1, <4>1 DEF Sound, Kept, RowOK, Row, DepositReceived, GuestStatuses
      <4> QED
        BY <4>1, <4>2
    <3> QED
      BY <1>3, <3>1, <3>2, <3>3 DEF OneStatement
  <2> QED
    BY <2>2, UnchangedSound DEF TableSound, TypeOK
<1>4. ASSUME NEW r \in Request, RequestDies(r) PROVE TableSound
  BY <1>0, <1>4 DEF RequestDies
<1>5. ASSUME NEW r \in Request, ReadHoldGuestSlot(r) \/ ReadCreateBooking(r) PROVE TableSound
  BY <1>5, SweepSound DEF ReadHoldGuestSlot, ReadCreateBooking, ReadForInsert
<1>6. ASSUME NEW r \in Request, ReadShiftDay(r) PROVE TableSound
  BY <1>0, <1>6 DEF ReadShiftDay
<1>7. ASSUME NEW r \in Request, WriteShiftDay(r) PROVE TableSound
  <2> DEFINE table == [b \in Booking |->
        IF b \in req[r].ids
        THEN [row[b] EXCEPT !.start = @ + req[r].at, !.blocked = @ + req[r].at]
        ELSE row[b]]
  <2>1. ASSUME NEW b \in Booking PROVE Sound(row[b], table[b])
    <3>1. row[b] \in Row /\ RowOK(row[b])
      BY DEF TypeOK, RowsOK
    <3>2. /\ table[b].status = row[b].status /\ table[b].paid = row[b].paid
          /\ table[b].deposit = row[b].deposit /\ table[b].guest = row[b].guest
          /\ table[b].moves = row[b].moves
      BY <3>1 DEF Row
    <3> QED
      BY <3>1, <3>2 DEF Sound, Kept, RowOK, DepositReceived
  <2> QED
    BY <1>7, <2>1, CommitSound DEF WriteShiftDay
<1>8. ASSUME NEW r \in Request, NEW b \in Booking, Reads(r, b) PROVE TableSound
  <2>1. UNCHANGED row \/ row' = Swept
    BY <1>8 DEF Reads, ReadSubmitGuestBooking, ReadSubmitBooking, ReadApproveBooking,
                ReadMarkDepositReceived, ReadCancelBooking, ReadCompleteBooking,
                ReadMarkNoShow, ReadOutcome, ReadRescheduleBooking
  <2> QED
    BY <1>0, <2>1, SweepSound
<1>9. ASSUME NEW r \in Request, NEW b \in Booking, Writes(r, b) PROVE TableSound
  <2>0. row[b] \in Row /\ RowOK(row[b])
    BY DEF TypeOK, RowsOK
  <2> USE DEF Sound, Kept, DepositReceived, Writing
  <2>1. CASE WriteHoldGuestSlot(r, b) \/ WriteCreateBooking(r, b)
    BY <2>1, InsertSound
  <2>2. CASE WriteSubmitGuestBooking(r, b)
    <3>1. StillHeld(b) => Sound(row[b], [row[b] EXCEPT !.status = "pending",
                                           !.guest = FALSE, !.until = Never])
      BY <2>0 DEF StillHeld, RowOK, Row
    <3> QED
      BY <2>2, <3>1, UpdateSound DEF WriteSubmitGuestBooking, StillHeld
  <2>3. CASE WriteSubmitBooking(r, b)
    BY <2>3, SetStatusSound DEF WriteSubmitBooking, CarriedOK, Claims
  <2>4. CASE ApplyNoShowRule(r, b)
    <3>1. PICK guard \in BOOLEAN : Updates(b, guard, [row[b] EXCEPT !.deposit = TRUE])
      BY <2>0, <2>4 DEF ApplyNoShowRule, Row
    <3>2. Sound(row[b], [row[b] EXCEPT !.deposit = TRUE])
      BY <2>0 DEF RowOK, Row
    <3> QED
      BY <3>1, <3>2, UpdateSound
  <2>5. CASE WriteApproveBooking(r, b)
    <3>1. row[b].status = "pending" =>
            Sound(row[b], [row[b] EXCEPT !.status = "approved", !.deadline = req[r].until])
      BY <2>0 DEF RowOK, Row, GuestStatuses
    <3> QED
      BY <2>5, <3>1, UpdateSound DEF WriteApproveBooking
  <2>6. CASE WriteMarkDepositReceived(r, b)
    BY <2>6, SetStatusSound DEF WriteMarkDepositReceived, CarriedOK, Claims
  <2>7. CASE WriteCancelBooking(r, b)
    <3>1. req[r].refund => DepositReceived(row[b])
      BY <2>7 DEF WriteCancelBooking, CarriedOK, Claims
    <3>2. row[b].status \notin Closed =>
            Sound(row[b], [row[b] EXCEPT !.status =
                             IF req[r].refund THEN "refund_due" ELSE "cancelled"])
      BY <2>0, <3>1 DEF RowOK, Row, GuestStatuses
    <3> QED
      BY <2>7, <3>2, UpdateSound DEF WriteCancelBooking
  <2>8. CASE WriteCompleteBooking(r, b)
    <3>1. row[b].status = "confirmed" =>
            Sound(row[b], [row[b] EXCEPT !.status = "completed",
                                         !.blocked = FreedFrom(row[b])])
      BY <2>0 DEF RowOK, Row, GuestStatuses
    <3> QED
      BY <2>8, <3>1, UpdateSound DEF WriteCompleteBooking
  <2>9. CASE WriteMarkNoShow(r, b)
    <3>1. row[b].status = "confirmed" =>
            Sound(row[b], [row[b] EXCEPT !.status = "no_show"])
      BY <2>0 DEF RowOK, Row, GuestStatuses
    <3> QED
      BY <2>9, <3>1, UpdateSound DEF WriteMarkNoShow
  <2>10. CASE WriteRescheduleBooking(r, b)
    <3> DEFINE guard == row[b].status \in Movable /\ row[b].moves < MaxReschedules
               new == [row[b] EXCEPT !.start = req[r].at, !.blocked = req[r].until,
                                     !.moves = @ + 1]
    <3>1. guard => new.moves <= MaxReschedules
      BY <2>0, Constants DEF Row
    <3>2. guard => Sound(row[b], new)
      BY <2>0, <3>1 DEF RowOK, Row, Movable
    <3>3. guard \in BOOLEAN
      OBVIOUS
    <3> HIDE DEF new
    <3> QED
      BY <2>10, <3>2, <3>3, UpdateSound DEF WriteRescheduleBooking, new
  <2> QED
    BY <1>9, <2>1, <2>2, <2>3, <2>4, <2>5, <2>6, <2>7, <2>8, <2>9, <2>10 DEF Writes
<1> QED
  BY <1>1, <1>2, <1>3, <1>4, <1>5, <1>6, <1>7, <1>8, <1>9 DEF Next

\* A step that is sound for the table and makes only true claims for the one
\* request it changes leaves all claims true.
LEMMA CarriedKept ==
  ASSUME IInv, TableSound, NEW r \in Request,
         \A other \in Request \ {r} : req'[other] = req[other],
         \A b \in req'[r].ids : Claims(req'[r], row'[b]),
         req' \in [Request -> Req]
  PROVE  CarriedOK'
<1>1. ASSUME NEW other \in Request \ {r}, NEW b \in req'[other].ids
      PROVE  Claims(req'[other], row'[b])
  <2>1. b \in Booking /\ b \in req[other].ids
    BY <1>1 DEF IInv, TypeOK, Req
  <2> QED
    BY <1>1, <2>1 DEF IInv, CarriedOK, Claims, TableSound, Sound, Kept
<1> QED
  BY <1>1 DEF CarriedOK, Claims, DepositReceived

LEMMA CarriedStep == IInv /\ [Next]_vars => CarriedOK'
<1> SUFFICES ASSUME IInv, [Next]_vars PROVE CarriedOK'
  OBVIOUS
<1>1. TypeOK /\ TypeOK' /\ TableSound
  BY TypeStep, TableStep DEF IInv
<1>2. req' \in [Request -> Req] /\ req \in [Request -> Req]
  BY <1>1 DEF TypeOK
<1>3. CASE UNCHANGED req
  <2>1. ASSUME NEW r \in Request, NEW b \in req[r].ids PROVE b \in Booking
    BY <1>1, <2>1 DEF TypeOK, Req
  <2> QED
    BY <1>1, <1>3, <2>1 DEF IInv, CarriedOK, Claims, TableSound, Sound, Kept, DepositReceived
<1>4. ASSUME NEW r \in Request, Answers(r) PROVE CarriedOK'
  <2>1. req'[r].ids = {} /\ \A other \in Request \ {r} : req'[other] = req[other]
    BY <1>2, <1>4 DEF Answers, Idle
  <2> QED
    BY <1>1, <1>2, <2>1, CarriedKept
<1>5. ASSUME NEW r \in Request, NEW q \in Req, Carries(r, q),
             \A b \in q.ids : Claims(q, row'[b])
      PROVE  CarriedOK'
  <2>1. req'[r] = q /\ \A other \in Request \ {r} : req'[other] = req[other]
    BY <1>2, <1>5 DEF Carries
  <2> QED
    BY <1>1, <1>2, <1>5, <2>1, CarriedKept
<1>6. ASSUME NEW r \in Request, ReadHoldGuestSlot(r) \/ ReadCreateBooking(r) PROVE CarriedOK'
  <2>1. req'[r].ids = {} /\ \A other \in Request \ {r} : req'[other] = req[other]
    BY <1>2, <1>6 DEF ReadHoldGuestSlot, ReadCreateBooking, ReadForInsert, Carries, Idle
  <2> QED
    BY <1>1, <1>2, <2>1, CarriedKept
<1>7. ASSUME NEW r \in Request, ReadShiftDay(r) PROVE CarriedOK'
  <2>1. /\ req'[r].op = "shift" /\ ~req'[r].refund /\ req'[r].ids = ShiftPlan
        /\ UNCHANGED row
        /\ \A other \in Request \ {r} : req'[other] = req[other]
    BY <1>2, <1>7 DEF ReadShiftDay, Carries, Idle
  <2>2. \A b \in req'[r].ids : Claims(req'[r], row'[b])
    BY <2>1 DEF Claims, ShiftPlan, Shiftable, Blocking
  <2> QED
    BY <1>1, <1>2, <2>1, <2>2, CarriedKept
<1>8. ASSUME NEW r \in Request, NEW b \in Booking, Reads(r, b) PROVE CarriedOK'
  <2>1. CASE ReadSubmitBooking(r, b) \/ ReadMarkDepositReceived(r, b)
    <3>1. /\ ~row[b].guest /\ row[b].status # "none" /\ UNCHANGED row
          /\ req'[r].ids = {b} /\ ~req'[r].refund
          /\ \A other \in Request \ {r} : req'[other] = req[other]
      BY <1>2, <2>1 DEF ReadSubmitBooking, ReadMarkDepositReceived, Carries, Idle, IInv,
                        RowsOK, RowOK, GuestStatuses
    <3> QED
      BY <1>1, <1>2, <3>1, CarriedKept DEF Claims
  <2>2. ASSUME NEW bySalon \in BOOLEAN, ReadCancelBooking(r, b, bySalon) PROVE CarriedOK'
    <3>1. /\ row[b].status # "none" /\ UNCHANGED row
          /\ req'[r].ids = {b} /\ req'[r].op = "cancel"
          /\ req'[r].refund = RefundDue(row[b], bySalon)
          /\ \A other \in Request \ {r} : req'[other] = req[other]
      BY <1>2, <2>2 DEF ReadCancelBooking, Carries, Idle
    <3>2. Claims(req'[r], row'[b])
      BY <3>1 DEF RefundDue, Claims
    <3> QED
      BY <1>1, <1>2, <3>1, <3>2, CarriedKept
  <2>3. CASE \/ ReadSubmitGuestBooking(r, b) \/ ReadApproveBooking(r, b)
             \/ ReadCompleteBooking(r, b) \/ ReadMarkNoShow(r, b)
             \/ ReadRescheduleBooking(r, b)
    <3>1. /\ row[b].status # "none"
          /\ req'[r].ids = {b}
          /\ req'[r].op \notin {"submit", "mark"} /\ ~req'[r].refund
          /\ \A other \in Request \ {r} : req'[other] = req[other]
      BY <1>2, <2>3 DEF ReadSubmitGuestBooking, ReadApproveBooking, ReadCompleteBooking,
                        ReadMarkNoShow, ReadOutcome, ReadRescheduleBooking, Movable,
                        Carries, Idle
    <3>2. row'[b].status # "none"
      BY <1>1, <3>1 DEF TableSound, Sound, Kept
    <3> QED
      BY <1>1, <1>2, <3>1, <3>2, CarriedKept DEF Claims
  <2> QED
    BY <1>8, <2>1, <2>2, <2>3 DEF Reads
<1>9. ASSUME NEW r \in Request, NEW b \in Booking,
             WriteSubmitGuestBooking(r, b) \/ WriteSubmitBooking(r, b)
      PROVE  CarriedOK'
  <2>1. CASE Carries(r, Idle)
    BY <1>4, <2>1 DEF Carries, Answers
  <2>2. CASE Carries(r, [req[r] EXCEPT !.op = "noShowRule"])
    <3>1. /\ req'[r].ids = req[r].ids /\ req'[r].refund = req[r].refund
          /\ req'[r].op = "noShowRule"
          /\ \A other \in Request \ {r} : req'[other] = req[other]
      BY <1>2, <2>2 DEF Carries, Req
    <3>2. ASSUME NEW c \in req'[r].ids PROVE Claims(req'[r], row'[c])
      <4>1. c \in Booking
        BY <1>1, <3>1, <3>2 DEF TypeOK, Req
      <4> QED
        BY <1>1, <3>1, <3>2, <4>1 DEF IInv, CarriedOK, Claims, TableSound, Sound, Kept
    <3> QED
      BY <1>1, <1>2, <3>1, <3>2, CarriedKept
  <2> QED
    BY <1>9, <2>1, <2>2 DEF WriteSubmitGuestBooking, WriteSubmitBooking
<1>10. ASSUME NEW r \in Request, NEW b \in Booking, Writes(r, b) PROVE CarriedOK'
  BY <1>4, <1>9, <1>10
  DEF Writes, WriteHoldGuestSlot, WriteCreateBooking, Insert, ApplyNoShowRule,
      WriteApproveBooking, WriteMarkDepositReceived, WriteCancelBooking,
      WriteCompleteBooking, WriteMarkNoShow, WriteRescheduleBooking
<1>11. CASE Tick \/ Sweeps \/ (\E b \in Booking : OneStatement(b)) \/ UNCHANGED vars
  BY <1>3, <1>11
  DEF Tick, Sweeps, ReleaseExpiredHolds, ExpireDeadlineBookings,
      ExpireStalePendingBookings, OneStatement, ReleaseGuestHold, ConfirmDeposit,
      ConfirmDepositReceived, Confirms, MarkRefunded, vars
<1> QED
  BY <1>4, <1>6, <1>7, <1>8, <1>10, <1>11 DEF Next, WriteShiftDay, RequestDies

LEMMA IInvInit == Init => IInv
BY TypeInit, Constants
DEF Init, IInv, RowsOK, RowOK, CarriedOK, NoRow, Idle, GuestStatuses, Never

LEMMA IInvStep == IInv /\ [Next]_vars => IInv'
<1>1. TableSound => RowsOK'
  BY DEF TableSound, Sound, RowsOK, RowOK, DepositReceived
<1> QED
  BY <1>1, TypeStep, TableStep, CarriedStep DEF IInv

LEMMA Invariant == Spec => []IInv
BY IInvInit, IInvStep, PTL DEF Spec

\* RefundBacked: nothing is owed back, or paid back, that was not asked for and
\* recorded.  The cancellation decides it on a row it read earlier, and its
\* UPDATE does not look again: it is safe because a recorded deposit is never
\* taken off a row.
THEOREM RefundsAreBacked == Spec => []RefundBacked
<1>1. IInv => RefundBacked
  BY DEF IInv, RowsOK, RowOK, RefundBacked
<1> QED
  BY <1>1, Invariant, PTL

\* ServedWasConfirmed: no appointment is confirmed, completed or missed without
\* the artist having recorded its deposit.
THEOREM ServedAreConfirmed == Spec => []ServedWasConfirmed
<1>1. IInv => ServedWasConfirmed
  BY DEF IInv, RowsOK, RowOK, ServedWasConfirmed
<1> QED
  BY <1>1, Invariant, PTL

\* MoveLimit: no interleaving of moves gets past maxReschedules.
THEOREM MovesAreLimited == Spec => []MoveLimit
<1>1. IInv => MoveLimit
  BY DEF IInv, RowsOK, RowOK, MoveLimit
<1> QED
  BY <1>1, Invariant, PTL

-----------------------------------------------------------------------------
(* The diary.                                                              *)

\* A table whose reservations are all the row's, with the same times, is
\* accepted if the row's table was.
LEMMA FewerReservations ==
  ASSUME Disjoint(row), NEW table,
         \A b \in Booking : table[b].status \notin Released =>
           /\ row[b].status \notin Released
           /\ table[b].start = row[b].start /\ table[b].blocked = row[b].blocked
  PROVE  Disjoint(table)
BY DEF Disjoint, Overlap

LEMMA SweepDisjoint ==
  ASSUME TypeOK, Disjoint(row),
         \/ row' = Swept
         \/ row' = Expired(row, HoldLapsed)
         \/ row' = Expired(row, DeadlineLapsed)
         \/ ExpireStalePendingBookings
  PROVE  Disjoint(row')
<1>1. ASSUME NEW b \in Booking
      PROVE  row'[b].status \notin Released =>
               /\ row[b].status \notin Released
               /\ row'[b].start = row[b].start /\ row'[b].blocked = row[b].blocked
  <2>1. row[b] \in Row
    BY DEF TypeOK
  <2>2. \/ row'[b] = row[b]
        \/ row'[b] = [row[b] EXCEPT !.status = "expired"]
    BY <2>1 DEF Swept, Expired, HoldLapsed, DeadlineLapsed, ExpireStalePendingBookings, Row
  <2> QED
    BY <2>1, <2>2 DEF Released, Row
<1> QED
  BY <1>1, FewerReservations

LEMMA DisjointStep == TypeOK /\ Disjoint(row) /\ [Next]_vars => Disjoint(row')
<1> SUFFICES ASSUME TypeOK, Disjoint(row), [Next]_vars PROVE Disjoint(row')
  OBVIOUS
<1>1. CASE UNCHANGED row
  BY <1>1
<1>2. ASSUME NEW table, Commits(table) PROVE Disjoint(row')
  BY <1>2 DEF Commits
<1>3. ASSUME NEW b \in Booking, NEW guard, NEW new, Updates(b, guard, new)
      PROVE  Disjoint(row')
  BY <1>1, <1>2, <1>3 DEF Updates
<1>4. CASE Sweeps
  BY <1>4, SweepDisjoint DEF Sweeps, ReleaseExpiredHolds, ExpireDeadlineBookings
<1>5. ASSUME NEW b \in Booking, OneStatement(b) PROVE Disjoint(row')
  <2>1. row[b] \in Row
    BY DEF TypeOK
  <2>2. /\ row[b].status \notin Released
        /\ row'[b].start = row[b].start /\ row'[b].blocked = row[b].blocked
        /\ \A c \in Booking \ {b} : row'[c] = row[c]
    BY <1>5, <2>1 DEF OneStatement, ReleaseGuestHold, ConfirmDeposit,
                      ConfirmDepositReceived, Confirms, MarkRefunded, TypeOK, Row, Released
  <2> QED
    BY <2>2, FewerReservations
<1>6. ASSUME NEW r \in Request, NEW b \in Booking, Reads(r, b) PROVE Disjoint(row')
  BY <1>1, <1>6, SweepDisjoint
  DEF Reads, ReadSubmitGuestBooking, ReadSubmitBooking, ReadApproveBooking,
      ReadMarkDepositReceived, ReadCancelBooking, ReadCompleteBooking, ReadMarkNoShow,
      ReadOutcome, ReadRescheduleBooking
<1>7. ASSUME NEW r \in Request, NEW b \in Booking, Writes(r, b) PROVE Disjoint(row')
  <2>1. \/ \E table : Commits(table)
        \/ \E guard, new : Updates(b, guard, new)
    BY <1>7 DEF Writes, WriteHoldGuestSlot, WriteCreateBooking, Insert,
                WriteSubmitGuestBooking, WriteSubmitBooking, ApplyNoShowRule,
                WriteApproveBooking, WriteMarkDepositReceived, WriteCancelBooking,
                WriteCompleteBooking, WriteMarkNoShow, WriteRescheduleBooking
  <2> QED
    BY <1>2, <1>3, <2>1
<1>8. ASSUME NEW r \in Request,
             \/ ReadHoldGuestSlot(r) \/ ReadCreateBooking(r) \/ ReadShiftDay(r)
             \/ WriteShiftDay(r) \/ RequestDies(r)
      PROVE  Disjoint(row')
  BY <1>1, <1>2, <1>8, SweepDisjoint
  DEF ReadHoldGuestSlot, ReadCreateBooking, ReadForInsert, ReadShiftDay, WriteShiftDay,
      RequestDies
<1> QED
  BY <1>1, <1>4, <1>5, <1>6, <1>7, <1>8 DEF Next, Tick, vars

\* NoDoubleBooking: two appointments that stand, or took place, never share a
\* minute.  The handlers' own overlap checks play no part: it rests on the
\* exclusion constraint, and on every status that stands being one it covers.
THEOREM DiaryIsDisjoint == Spec => []NoDoubleBooking
<1>1. Init => Disjoint(row)
  BY DEF Init, Disjoint, NoRow, Released
<1>2. Disjoint(row) => NoDoubleBooking
  BY DEF Disjoint, NoDoubleBooking, Stands, Blocking, Released
<1>3. Disjoint(row) /\ TypeOK /\ [Next]_vars => Disjoint(row)'
  BY DisjointStep DEF Disjoint, Overlap
<1> QED
  BY <1>1, <1>2, <1>3, TypeCorrect, PTL DEF Spec

-----------------------------------------------------------------------------
(* The life of a booking: what one step may do to the status of a row.     *)

Same(p, q) == q.status = p.status /\ q.paid = p.paid

Ends(p, q) ==
  p.status \in {"held", "pending", "approved"} /\ q.status = "expired" /\ q.paid = p.paid

Advances(p, q) ==
  \/ /\ \/ p.status = "none" /\ q.status = "held"
        \/ p.status = "held" /\ q.status = "pending" /\ (p.guest => p.until > now)
        \/ p.status = "pending" /\ q.status = "approved"
        \/ p.status = "confirmed" /\ q.status \in {"completed", "no_show"}
        \/ p.status = "refund_due" /\ q.status = "refunded"
        \/ p.status \in Blocking /\ q.status = "cancelled"
     /\ q.paid = p.paid
  \/ p.status \in {"approved", "deposit_paid"} /\ q.status = "confirmed" /\ q.paid
  \/ p.status \in Blocking /\ q.status = "refund_due" /\ p.paid /\ q.paid

\* The two writes that name the row and nothing else about it.
Revives(p, q) ==
  ~p.guest /\ q.status \in {"pending", "deposit_paid"} /\ q.paid = p.paid

Unguarded == \E r \in Request : req[r].op \in {"submit", "mark"}

LifeStep ==
  \/ \A b \in Booking : Same(row[b], row'[b]) \/ Ends(row[b], row'[b])
  \/ \E b \in Booking :
       /\ \A c \in Booking \ {b} : Same(row[c], row'[c])
       /\ \/ Advances(row[b], row'[b])
          \/ Unguarded /\ Revives(row[b], row'[b])

LEMMA LifeOfCommit ==
  ASSUME TypeOK, NEW b \in Booking, NEW new, Commits([row EXCEPT ![b] = new]),
         Same(row[b], new) \/ Advances(row[b], new) \/ (Unguarded /\ Revives(row[b], new))
  PROVE  LifeStep
BY DEF Commits, TypeOK, LifeStep, Same

LEMMA LifeOfUpdate ==
  ASSUME TypeOK, NEW b \in Booking, NEW guard \in BOOLEAN, NEW new,
         Updates(b, guard, new),
         guard => \/ Same(row[b], new) \/ Advances(row[b], new)
                  \/ Unguarded /\ Revives(row[b], new)
  PROVE  LifeStep
<1>1. CASE guard
  BY <1>1, LifeOfCommit DEF Updates
<1>2. CASE ~guard
  BY <1>2 DEF Updates, LifeStep, Same
<1> QED
  BY <1>1, <1>2

LEMMA LifeOfSweep ==
  ASSUME TypeOK,
         \/ row' = Swept
         \/ row' = Expired(row, HoldLapsed)
         \/ row' = Expired(row, DeadlineLapsed)
         \/ ExpireStalePendingBookings
  PROVE  LifeStep
<1>1. ASSUME NEW b \in Booking PROVE Same(row[b], row'[b]) \/ Ends(row[b], row'[b])
  <2>1. row[b] \in Row
    BY DEF TypeOK
  <2>2. \/ row'[b] = row[b]
        \/ /\ row[b].status \in {"held", "pending", "approved"}
           /\ row'[b] = [row[b] EXCEPT !.status = "expired"]
    BY <2>1 DEF Swept, Expired, HoldLapsed, DeadlineLapsed, ExpireStalePendingBookings, Row
  <2> QED
    BY <2>1, <2>2 DEF Same, Ends, Row
<1> QED
  BY <1>1 DEF LifeStep

LEMMA LifeOfInsert ==
  ASSUME TypeOK, RowsOK, NEW r \in Request, NEW b \in Booking,
         WriteHoldGuestSlot(r, b) \/ WriteCreateBooking(r, b)
  PROVE  LifeStep
<1>1. PICK endpoint \in {"hold", "create"} : Insert(r, endpoint, b)
  BY DEF WriteHoldGuestSlot, WriteCreateBooking
<1> DEFINE new == [NoRow EXCEPT !.status = "held",
                     !.start = req[r].at,
                     !.blocked = req[r].at + Duration + Buffer,
                     !.guest = (endpoint = "hold"),
                     !.until = req[r].until,
                     !.deposit = req[r].deposit]
<1>2. new.status = "held" /\ ~new.paid
  BY DEF NoRow
<1>3. row[b].status = "none" /\ ~row[b].paid
  BY <1>1 DEF Insert, RowsOK, RowOK
<1>4. row[b].paid \in BOOLEAN /\ new.paid \in BOOLEAN
  BY DEF TypeOK, Row, NoRow
<1>5. Advances(row[b], new)
  BY <1>2, <1>3, <1>4 DEF Advances
<1> HIDE DEF new
<1> QED
  BY <1>1, <1>5, LifeOfCommit DEF Insert, new

LEMMA LifeOfWrite ==
  ASSUME IInv, NEW r \in Request, NEW b \in Booking, Writes(r, b)
  PROVE  LifeStep
<1> USE DEF IInv, Writing
<1>0. row[b] \in Row /\ RowOK(row[b])
  BY DEF TypeOK, RowsOK
<1>1. CASE WriteHoldGuestSlot(r, b) \/ WriteCreateBooking(r, b)
  BY <1>1, LifeOfInsert
<1>2. CASE WriteSubmitGuestBooking(r, b)
  <2>1. StillHeld(b) => Advances(row[b], [row[b] EXCEPT !.status = "pending",
                                            !.guest = FALSE, !.until = Never])
    BY <1>0 DEF StillHeld, Advances, Row
  <2> QED
    BY <1>2, <2>1, LifeOfUpdate DEF WriteSubmitGuestBooking, StillHeld
<1>3. CASE WriteSubmitBooking(r, b)
  <2>1. Commits([row EXCEPT ![b] = [row[b] EXCEPT !.status = "pending"]]) /\ Unguarded
    BY <1>3 DEF WriteSubmitBooking, SetStatus, Unguarded, TypeOK
  <2>2. Revives(row[b], [row[b] EXCEPT !.status = "pending"])
    BY <1>0, <1>3 DEF WriteSubmitBooking, CarriedOK, Claims, Revives, Row
  <2> QED
    BY <2>1, <2>2, LifeOfCommit
<1>4. CASE ApplyNoShowRule(r, b)
  <2>1. PICK guard \in BOOLEAN : Updates(b, guard, [row[b] EXCEPT !.deposit = TRUE])
    BY <1>0, <1>4 DEF ApplyNoShowRule, Row
  <2>2. Same(row[b], [row[b] EXCEPT !.deposit = TRUE])
    BY <1>0 DEF Same, Row
  <2> QED
    BY <2>1, <2>2, LifeOfUpdate
<1>5. CASE WriteApproveBooking(r, b)
  <2>1. row[b].status = "pending" =>
          Advances(row[b], [row[b] EXCEPT !.status = "approved", !.deadline = req[r].until])
    BY <1>0 DEF Advances, Row
  <2> QED
    BY <1>5, <2>1, LifeOfUpdate DEF WriteApproveBooking
<1>6. CASE WriteMarkDepositReceived(r, b)
  <2>1. Commits([row EXCEPT ![b] = [row[b] EXCEPT !.status = "deposit_paid"]]) /\ Unguarded
    BY <1>6 DEF WriteMarkDepositReceived, SetStatus, Unguarded, TypeOK
  <2>2. Revives(row[b], [row[b] EXCEPT !.status = "deposit_paid"])
    BY <1>0, <1>6 DEF WriteMarkDepositReceived, CarriedOK, Claims, Revives, Row
  <2> QED
    BY <2>1, <2>2, LifeOfCommit
<1>7. CASE WriteCancelBooking(r, b)
  <2>1. row[b].status # "none" /\ (req[r].refund => DepositReceived(row[b]))
    BY <1>7 DEF WriteCancelBooking, CarriedOK, Claims
  <2>2. row[b].status \notin Closed =>
          Advances(row[b], [row[b] EXCEPT !.status =
                              IF req[r].refund THEN "refund_due" ELSE "cancelled"])
    BY <1>0, <2>1 DEF Advances, DepositReceived, Closed, Blocking, Row, Statuses
  <2> QED
    BY <1>7, <2>2, LifeOfUpdate DEF WriteCancelBooking
<1>8. CASE WriteCompleteBooking(r, b)
  <2>1. row[b].status = "confirmed" =>
          Advances(row[b], [row[b] EXCEPT !.status = "completed",
                                          !.blocked = FreedFrom(row[b])])
    BY <1>0 DEF Advances, Row
  <2> QED
    BY <1>8, <2>1, LifeOfUpdate DEF WriteCompleteBooking
<1>9. CASE WriteMarkNoShow(r, b)
  <2>1. row[b].status = "confirmed" =>
          Advances(row[b], [row[b] EXCEPT !.status = "no_show"])
    BY <1>0 DEF Advances, Row
  <2> QED
    BY <1>9, <2>1, LifeOfUpdate DEF WriteMarkNoShow
<1>10. CASE WriteRescheduleBooking(r, b)
  <2> DEFINE guard == row[b].status \in Movable /\ row[b].moves < MaxReschedules
             new == [row[b] EXCEPT !.start = req[r].at, !.blocked = req[r].until,
                                   !.moves = @ + 1]
  <2>1. Same(row[b], new) /\ guard \in BOOLEAN
    BY <1>0 DEF Same, Row
  <2> HIDE DEF new
  <2> QED
    BY <1>10, <2>1, LifeOfUpdate DEF WriteRescheduleBooking, new
<1> QED
  BY <1>1, <1>2, <1>3, <1>4, <1>5, <1>6, <1>7, <1>8, <1>9, <1>10 DEF Writes

LEMMA LifeOfStep == IInv /\ [Next]_vars => LifeStep
<1> SUFFICES ASSUME IInv, [Next]_vars PROVE LifeStep
  OBVIOUS
<1> USE DEF IInv
<1>1. CASE UNCHANGED row
  BY <1>1 DEF LifeStep, Same
<1>2. CASE Sweeps
  BY <1>2, LifeOfSweep DEF Sweeps, ReleaseExpiredHolds, ExpireDeadlineBookings
<1>3. ASSUME NEW b \in Booking, OneStatement(b) PROVE LifeStep
  <2>1. row[b] \in Row /\ row \in [Booking -> Row]
    BY DEF TypeOK
  <2>2. CASE ReleaseGuestHold(b)
    <3>1. /\ Ends(row[b], row'[b])
          /\ \A c \in Booking \ {b} : Same(row[c], row'[c])
      BY <2>1, <2>2 DEF ReleaseGuestHold, Ends, Same, Row
    <3> QED
      BY <3>1 DEF LifeStep
  <2>3. CASE ConfirmDeposit(b) \/ ConfirmDepositReceived(b) \/ MarkRefunded(b)
    <3>1. /\ Advances(row[b], row'[b])
          /\ \A c \in Booking \ {b} : Same(row[c], row'[c])
      BY <2>1, <2>3 DEF ConfirmDeposit, ConfirmDepositReceived, Confirms, MarkRefunded,
                        Advances, Same, Row
    <3> QED
      BY <3>1 DEF LifeStep
  <2> QED
    BY <1>3, <2>2, <2>3 DEF OneStatement
<1>4. ASSUME NEW r \in Request,
             \/ ReadHoldGuestSlot(r) \/ ReadCreateBooking(r) \/ ReadShiftDay(r)
             \/ RequestDies(r)
             \/ \E b \in Booking : Reads(r, b)
      PROVE  LifeStep
  <2>1. UNCHANGED row \/ row' = Swept
    BY <1>4 DEF ReadHoldGuestSlot, ReadCreateBooking, ReadForInsert, ReadShiftDay,
                RequestDies, Reads, ReadSubmitGuestBooking, ReadSubmitBooking,
                ReadApproveBooking, ReadMarkDepositReceived, ReadCancelBooking,
                ReadCompleteBooking, ReadMarkNoShow, ReadOutcome, ReadRescheduleBooking
  <2> QED
    BY <1>1, <2>1, LifeOfSweep
<1>5. ASSUME NEW r \in Request, WriteShiftDay(r) PROVE LifeStep
  <2>1. ASSUME NEW b \in Booking PROVE Same(row[b], row'[b])
    BY <1>5 DEF WriteShiftDay, Commits, Same, TypeOK, Row
  <2> QED
    BY <2>1 DEF LifeStep
<1> QED
  BY <1>1, <1>2, <1>3, <1>4, <1>5, LifeOfWrite DEF Next, Tick, vars

\* GuestHoldIsFinal: a guest's hold becomes a booking only while it is unexpired
\* at the moment of the write, and once expired stays so.  The guest submit is
\* safe by its own WHERE clause, the two unguarded writes because they only ever
\* carry a row that already had a customer.
THEOREM GuestHoldsAreFinal == Spec => GuestHoldIsFinal
<1>1. IInv /\ [Next]_vars =>
        [\A b \in Booking :
           row[b].guest =>
             /\ row'[b].status = "pending" =>
                  row[b].status = "held" /\ row[b].until > now
             /\ row[b].status = "expired" => row'[b].status = "expired"]_vars
  <2> SUFFICES ASSUME IInv, [Next]_vars, NEW b \in Booking, row[b].guest
               PROVE  /\ row'[b].status = "pending" =>
                           row[b].status = "held" /\ row[b].until > now
                      /\ row[b].status = "expired" => row'[b].status = "expired"
    OBVIOUS
  <2>1. row[b].status \in GuestStatuses
    BY DEF IInv, RowsOK, RowOK
  <2>2. \/ Same(row[b], row'[b]) \/ Ends(row[b], row'[b])
        \/ Advances(row[b], row'[b]) \/ Revives(row[b], row'[b])
    BY LifeOfStep DEF LifeStep
  <2> QED
    BY <2>1, <2>2 DEF Same, Ends, Advances, Revives, GuestStatuses, Blocking
<1> QED
  BY <1>1, Invariant, PTL DEF Spec, GuestHoldIsFinal

-----------------------------------------------------------------------------
(* The written state machine.                                              *)

mstatus == [b \in Booking |-> row[b].status]
mpaid == {b \in Booking : row[b].paid}

\* A change of one row that the written state machine has an action for.
LEMMA AdvanceIsAction ==
  ASSUME TypeOK, TypeOK', NEW b \in Booking, Advances(row[b], row'[b]),
         \A c \in Booking \ {b} : Same(row[c], row'[c])
  PROVE  Matrix!Next
<1> USE DEF Advances, Same
<1>1. mstatus' = [mstatus EXCEPT ![b] = row'[b].status]
  BY DEF mstatus
<1>2. row'[b].paid = row[b].paid => UNCHANGED mpaid
  BY DEF mpaid
<1>3. ASSUME NEW to, <<row[b].status, to>> \in Matrix!Plain, row'[b].status = to,
             row'[b].paid = row[b].paid
      PROVE  Matrix!Next
  <2>1. Matrix!Moves(b, to)
    BY <1>1, <1>2, <1>3 DEF Matrix!Moves, mstatus, mpaid
  <2>2. to \in {pair[2] : pair \in Matrix!Plain}
    BY <1>3
  <2> QED
    BY <2>1, <2>2 DEF Matrix!Next
<1>4. CASE row[b].status \in {"approved", "deposit_paid"} /\ row'[b].status = "confirmed"
           /\ row'[b].paid
  <2>1. mpaid' = mpaid \cup {b}
    BY <1>4 DEF mpaid
  <2>2. Matrix!Confirm(b)
    BY <1>1, <1>4, <2>1 DEF Matrix!Confirm, mstatus, mpaid
  <2> QED
    BY <2>2 DEF Matrix!Next
<1>5. CASE row[b].status \in Blocking /\ row'[b].status = "refund_due"
           /\ row[b].paid /\ row'[b].paid
  <2>1. Matrix!OweRefund(b)
    BY <1>1, <1>2, <1>5 DEF Matrix!OweRefund, Matrix!Open, Blocking, mstatus, mpaid
  <2> QED
    BY <2>1 DEF Matrix!Next
<1>6. CASE <<row[b].status, row'[b].status>> \in Matrix!Plain /\ row'[b].paid = row[b].paid
  BY <1>3, <1>6
<1>7. \/ row[b].status \in {"approved", "deposit_paid"} /\ row'[b].status = "confirmed"
         /\ row'[b].paid
      \/ row[b].status \in Blocking /\ row'[b].status = "refund_due"
         /\ row[b].paid /\ row'[b].paid
      \/ <<row[b].status, row'[b].status>> \in Matrix!Plain /\ row'[b].paid = row[b].paid
  BY DEF Matrix!Plain, Matrix!Open, Blocking
<1> QED
  BY <1>4, <1>5, <1>6, <1>7

LEMMA ExpiryIsAction ==
  ASSUME TypeOK, TypeOK', \A b \in Booking : Same(row[b], row'[b]) \/ Ends(row[b], row'[b])
  PROVE  Matrix!Next
<1> DEFINE B == {b \in Booking : Ends(row[b], row'[b])}
<1>1. \A b \in B : mstatus[b] \in {"held", "pending", "approved"}
  BY DEF Ends, mstatus
<1>2. mstatus' = [b \in Booking |-> IF b \in B THEN "expired" ELSE mstatus[b]]
  BY DEF Ends, Same, mstatus
<1>3. UNCHANGED mpaid
  BY DEF Ends, Same, mpaid
<1>4. PICK C \in SUBSET Booking : C = B
  OBVIOUS
<1>5. Matrix!Expire(C)
  BY <1>1, <1>2, <1>3, <1>4 DEF Matrix!Expire, mstatus, mpaid
<1> QED
  BY <1>5 DEF Matrix!Next

\* FollowsMatrix: without the two endpoints whose UPDATE names only the row
\* (SubmitBooking, MarkDepositReceived), the table implements the written state
\* machine, money included, under every interleaving of every other handler.
THEOREM TableFollowsMatrix ==
  ASSUME "submit" \notin Endpoints, "mark" \notin Endpoints
  PROVE  Spec => FollowsMatrix
<1>1. Init => Matrix!Init
  BY DEF Init, Matrix!Init, NoRow
<1>2. Init => ~Unguarded
  BY DEF Init, Idle, Unguarded
<1>3. IInv /\ ~Unguarded /\ [Next]_vars => ~Unguarded'
  <2> SUFFICES ASSUME TypeOK, ~Unguarded, [Next]_vars PROVE ~Unguarded'
    BY DEF IInv
  <2>1. \A r \in Request : req'[r] = req[r] \/ req'[r].op \notin {"submit", "mark"}
    <3>1. req \in [Request -> Req]
      BY DEF TypeOK
    <3>2. ASSUME NEW r \in Request, NEW b \in Booking, Reads(r, b)
          PROVE  \A o \in Request : req'[o] = req[o] \/ req'[o].op \notin {"submit", "mark"}
      BY <3>1, <3>2
      DEF Reads, ReadSubmitGuestBooking, ReadSubmitBooking, ReadApproveBooking,
          ReadMarkDepositReceived, ReadCancelBooking, ReadCompleteBooking, ReadMarkNoShow,
          ReadOutcome, ReadRescheduleBooking, Arrives, Carries, Idle
    <3>3. ASSUME NEW r \in Request, NEW b \in Booking, Writes(r, b)
          PROVE  \A o \in Request : req'[o] = req[o] \/ req'[o].op \notin {"submit", "mark"}
      <4>1. Answers(r) \/ Carries(r, Idle) \/ Carries(r, [req[r] EXCEPT !.op = "noShowRule"])
        BY <3>3
        DEF Writes, WriteHoldGuestSlot, WriteCreateBooking, Insert, WriteSubmitGuestBooking,
            WriteSubmitBooking, ApplyNoShowRule, WriteApproveBooking,
            WriteMarkDepositReceived, WriteCancelBooking, WriteCompleteBooking,
            WriteMarkNoShow, WriteRescheduleBooking
      <4> QED
        BY <3>1, <4>1 DEF Answers, Carries, Idle, Req
    <3>4. ASSUME NEW r \in Request,
                 \/ ReadHoldGuestSlot(r) \/ ReadCreateBooking(r) \/ ReadShiftDay(r)
                 \/ WriteShiftDay(r) \/ RequestDies(r)
          PROVE  \A o \in Request : req'[o] = req[o] \/ req'[o].op \notin {"submit", "mark"}
      <4>1. CASE ReadHoldGuestSlot(r) \/ ReadCreateBooking(r)
        BY <3>1, <4>1 DEF ReadHoldGuestSlot, ReadCreateBooking, ReadForInsert, Carries, Idle
      <4>2. CASE ReadShiftDay(r)
        BY <3>1, <4>2 DEF ReadShiftDay, Carries, Idle
      <4>3. CASE WriteShiftDay(r) \/ RequestDies(r)
        <5>1. Answers(r)
          BY <4>3 DEF WriteShiftDay, RequestDies
        <5> QED
          BY <3>1, <5>1 DEF Answers, Idle
      <4> QED
        BY <3>4, <4>1, <4>2, <4>3
    <3>5. CASE Tick \/ Sweeps \/ (\E b \in Booking : OneStatement(b)) \/ UNCHANGED vars
      BY <3>5
      DEF Tick, Sweeps, ReleaseExpiredHolds, ExpireDeadlineBookings,
          ExpireStalePendingBookings, OneStatement, ReleaseGuestHold, ConfirmDeposit,
          ConfirmDepositReceived, Confirms, MarkRefunded, vars
    <3> QED
      BY <3>2, <3>3, <3>4, <3>5 DEF Next
  <2> QED
    BY <2>1 DEF Unguarded
<1>4. IInv /\ IInv' /\ ~Unguarded /\ [Next]_vars => [Matrix!Next]_(Matrix!vars)
  <2> SUFFICES ASSUME TypeOK, TypeOK', LifeStep, ~Unguarded PROVE Matrix!Next
    BY LifeOfStep DEF IInv
  <2> QED
    BY AdvanceIsAction, ExpiryIsAction DEF LifeStep
<1> QED
  BY <1>1, <1>2, <1>3, <1>4, Invariant, PTL DEF Spec, FollowsMatrix, Matrix!Spec

=============================================================================
