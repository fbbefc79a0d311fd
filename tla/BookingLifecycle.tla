-------------------------- MODULE BookingLifecycle --------------------------
(***************************************************************************)
(* The bookings table of one artist, and the HTTP requests and background  *)
(* sweeps that change it (internal/booking).                               *)
(*                                                                         *)
(* Every handler of the service reads a booking, judges what it read, and  *)
(* only then writes: two SQL statements with nothing held in between.  A   *)
(* request is therefore two actions, Read... and Write..., and any other   *)
(* request, sweep or minute can come between them.  What the write still   *)
(* relies on from the read is what the request carries in req.  A handler  *)
(* whose UPDATE repeats its whole judgement and carries nothing is one     *)
(* action.                                                                 *)
(*                                                                         *)
(* The calls after the commit (message, waitlist, promo code, audit) touch *)
(* no bookings row and belong to other components.                         *)
(***************************************************************************)
EXTENDS Integers

CONSTANTS
  Booking,         \* ids of the rows the table can come to hold
  Request,         \* HTTP requests that can be in flight at once
  Endpoints,       \* the endpoints that are called
  Grid,            \* the start times on the slot grid
  Shifts,          \* the distances a day may be shifted by, either way
  Duration,        \* length of an appointment
  Buffer,          \* cleanup after it (services.buffer_min)
  HoldFor,         \* SlotHoldDuration
  DepositWindow,   \* deposit_deadline_hours: the deposit is due this long before
  Grace,           \* depositGraceWindow
  CancelWindow,    \* cancellationWindow
  MaxReschedules,  \* maxReschedules
  OpenAt, CloseAt, \* the store's trading day
  MaxTime          \* bound on the clock

AllEndpoints ==
  {"hold", "create", "submitGuest", "submit", "release", "approve", "mark",
   "confirmDeposit", "confirmReceived", "cancel", "refunded", "complete",
   "noShow", "reschedule", "shift", "list"}

ASSUME ParametersAreTimes ==
  /\ Endpoints \subseteq AllEndpoints
  /\ Grid \subseteq Int /\ Shifts \subseteq Nat \ {0}
  /\ {Duration, Buffer, HoldFor, DepositWindow, Grace, CancelWindow} \subseteq Nat
  /\ Duration > 0
  /\ {MaxReschedules, MaxTime} \subseteq Nat
  /\ {OpenAt, CloseAt} \subseteq Int

VARIABLES
  now,    \* the clock the server and the database share
  row,    \* the bookings table
  req,    \* what each request in flight has read and means to write
  landed  \* history: the bookings whose artist confirmed a deposit that was asked for

vars == <<now, row, req, landed>>

-----------------------------------------------------------------------------
(* Rows.                                                                   *)

Statuses ==
  {"held", "pending", "approved", "deposit_paid", "confirmed", "completed",
   "cancelled", "expired", "no_show", "refund_due", "refunded"}

\* What the slot list and the travel check count as taken (BlockingStatuses).
Blocking == {"held", "pending", "approved", "deposit_paid", "confirmed"}
\* What a whole-day shift plans to move (MovableStatuses).
Shiftable == Blocking
\* What a customer may move (isMovableStatus).
Movable == {"pending", "approved", "deposit_paid", "confirmed"}
\* What CancelBooking's UPDATE refuses to touch.
Closed == {"completed", "cancelled", "expired", "no_show", "refund_due", "refunded"}
\* What the exclusion constraint's WHERE leaves out; "none" is no row at all.
Released == {"none", "cancelled", "expired", "no_show", "refunded"}

Never == -1  \* SQL NULL in a column of times

Row ==
  [status   : Statuses \cup {"none"},
   start    : Int,      \* start_time; end_time is start + Duration
   blocked  : Int,      \* blocked_until
   guest    : BOOLEAN,  \* customer_id is still SystemGuestPlaceholderID
   until    : Int,      \* held_until
   deadline : Int,      \* deposit_deadline
   deposit  : BOOLEAN,  \* deposit_amount > 0
   paid     : BOOLEAN,  \* deposit_paid_at IS NOT NULL
   moves    : Nat]      \* reschedule_count

NoRow ==
  [status |-> "none", start |-> 0, blocked |-> 0, guest |-> FALSE,
   until |-> Never, deadline |-> Never, deposit |-> FALSE, paid |-> FALSE,
   moves |-> 0]

Overlap(p, q) == p.start < q.blocked /\ q.start < p.blocked

\* Mutant: a unique index on the start time alone.
UniqueStart(table) ==
  \A b, c \in Booking :
    /\ b # c
    /\ table[b].status \notin Released
    /\ table[c].status \notin Released
    => table[b].start # table[c].start

\* The table the exclusion constraint accepts: no two reservations overlap.
Disjoint(table) ==
  \A b, c \in Booking :
    /\ b # c
    /\ table[b].status \notin Released
    /\ table[c].status \notin Released
    => ~Overlap(table[b], table[c])

-----------------------------------------------------------------------------
(* Requests.                                                               *)

\* What a request carries from its read to its write.
Req ==
  [op      : AllEndpoints \cup {"idle", "noShowRule"},
   ids     : SUBSET Booking,  \* the rows it will write
   at      : Int,             \* a new start time, or the distance of a shift
   until   : Int,             \* a held_until, deposit_deadline or blocked_until
   deposit : BOOLEAN,         \* the service asks for a deposit
   refund  : BOOLEAN]         \* refundDue

Idle ==
  [op |-> "idle", ids |-> {}, at |-> 0, until |-> Never,
   deposit |-> FALSE, refund |-> FALSE]

Arrives(r, endpoint) == endpoint \in Endpoints /\ req[r] = Idle
Carries(r, q) == req' = [req EXCEPT ![r] = q]
Answers(r) == req' = [req EXCEPT ![r] = Idle]
Writing(r, endpoint, b) == req[r].op = endpoint /\ req[r].ids = {b}

\* A statement that would leave the table in breach of the exclusion
\* constraint changes nothing and fails its request.
Commits(table) == row' = IF Disjoint(table) THEN table ELSE row

\* UPDATE ... WHERE id = b AND guard: a guard that is false updates no row.
Updates(b, guard, new) ==
  IF guard THEN Commits([row EXCEPT ![b] = new]) ELSE UNCHANGED row

Init ==
  /\ now = 0
  /\ row = [b \in Booking |-> NoRow]
  /\ req = [r \in Request |-> Idle]
  /\ landed = {}

-----------------------------------------------------------------------------
(* The sweeps.                                                             *)

\* Mutants: only a guest's hold runs out; only an asked-for deposit falls due.
GuestHoldLapsed(p) == p.status = "held" /\ p.guest /\ p.until < now
DepositOverdue(p) == p.status = "approved" /\ p.deposit /\ p.deadline < now

HoldLapsed(p) == p.status = "held" /\ p.until < now
DeadlineLapsed(p) == p.status = "approved" /\ p.deadline < now

Expired(table, Lapsed(_)) ==
  [b \in Booking |->
    IF Lapsed(table[b]) THEN [table[b] EXCEPT !.status = "expired"] ELSE table[b]]

ReleaseExpiredHolds ==
  /\ \E b \in Booking : HoldLapsed(row[b])
  /\ row' = Expired(row, HoldLapsed)
  /\ UNCHANGED <<now, req, landed>>

ExpireDeadlineBookings ==
  /\ \E b \in Booking : DeadlineLapsed(row[b])
  /\ row' = Expired(row, DeadlineLapsed)
  /\ UNCHANGED <<now, req, landed>>

\* Only when the artist opens her list, and only what is past its own start.
ExpireStalePendingBookings ==
  LET Stale(p) == p.status = "pending" /\ p.start < now
  IN /\ "list" \in Endpoints
     /\ \E b \in Booking : Stale(row[b])
     /\ row' = Expired(row, Stale)
     /\ UNCHANGED <<now, req, landed>>

\* GetAvailableSlots runs both sweeps before it reads the table.
Swept == Expired(Expired(row, HoldLapsed), DeadlineLapsed)

\* The starts the slot list offers when the bookings in skip are left out.
Offered(table, skip) ==
  {s \in Grid :
    /\ OpenAt <= s /\ s + Duration <= CloseAt
    /\ \A b \in Booking \ skip :
         table[b].status \in Blocking =>
           ~Overlap(table[b], [start |-> s, blocked |-> s + Duration + Buffer])}

-----------------------------------------------------------------------------
(* A slot is held, then submitted.                                         *)

\* HoldGuestSlot and CreateBooking: the slot list and the price are read first.
ReadForInsert(r, endpoint) ==
  \E s \in Offered(Swept, {}), asks \in BOOLEAN :
    /\ Arrives(r, endpoint)
    /\ s >= now
    /\ row' = Swept
    /\ Carries(r, [Idle EXCEPT !.op = endpoint, !.at = s,
                               !.until = now + HoldFor, !.deposit = asks])
    /\ UNCHANGED <<now, landed>>

Insert(r, endpoint, b) ==
  /\ req[r].op = endpoint
  /\ row[b].status = "none"
  /\ Commits([row EXCEPT ![b] =
       [NoRow EXCEPT !.status = "held",
                     !.start = req[r].at,
                     !.blocked = req[r].at + Duration + Buffer,
                     !.guest = (endpoint = "hold"),
                     !.until = req[r].until,
                     !.deposit = req[r].deposit]])
  /\ Answers(r)
  /\ UNCHANGED <<now, landed>>

ReadHoldGuestSlot(r) == ReadForInsert(r, "hold")
WriteHoldGuestSlot(r, b) == Insert(r, "hold", b)
ReadCreateBooking(r) == ReadForInsert(r, "create")
WriteCreateBooking(r, b) == Insert(r, "create", b)

ReadSubmitGuestBooking(r, b) ==
  /\ Arrives(r, "submitGuest")
  /\ row[b].status = "held" /\ row[b].guest /\ row[b].until >= now
  /\ Carries(r, [Idle EXCEPT !.op = "submitGuest", !.ids = {b}])
  /\ UNCHANGED <<now, row, landed>>

\* Mutant: the UPDATE leaves the hold's expiry to the read.
HeldWhenRead(b) == row[b].status = "held"

\* AttachGuestAndSubmit: the UPDATE asks again whether the hold still stands.
StillHeld(b) == row[b].status = "held" /\ row[b].until > now

WriteSubmitGuestBooking(r, b) ==
  /\ Writing(r, "submitGuest", b)
  /\ Updates(b, StillHeld(b),
       [row[b] EXCEPT !.status = "pending", !.guest = FALSE, !.until = Never])
  /\ Carries(r, IF StillHeld(b) THEN [req[r] EXCEPT !.op = "noShowRule"] ELSE Idle)
  /\ UNCHANGED <<now, landed>>

ReadSubmitBooking(r, b) ==
  /\ Arrives(r, "submit")
  /\ row[b].status = "held" /\ ~row[b].guest
  /\ Carries(r, [Idle EXCEPT !.op = "submit", !.ids = {b}])
  /\ UNCHANGED <<now, row, landed>>

\* UpdateBookingStatus names the row and nothing else about it.
SetStatus(b, status) == [row EXCEPT ![b].status = status]

WriteSubmitBooking(r, b) ==
  /\ Writing(r, "submit", b)
  /\ Commits(SetStatus(b, "pending"))
  /\ Carries(r, IF Disjoint(SetStatus(b, "pending"))
                THEN [req[r] EXCEPT !.op = "noShowRule"] ELSE Idle)
  /\ UNCHANGED <<now, landed>>

\* applyNoShowRule, after either submit: a customer with a history of missed
\* appointments is asked for a deposit where the service asks for none.
ApplyNoShowRule(r, b) ==
  /\ Writing(r, "noShowRule", b)
  /\ \E missedEnough \in BOOLEAN :
       Updates(b, missedEnough /\ ~row[b].deposit, [row[b] EXCEPT !.deposit = TRUE])
  /\ Answers(r)
  /\ UNCHANGED <<now, landed>>

ReleaseGuestHold(b) ==
  /\ "release" \in Endpoints
  /\ row[b].status = "held" /\ row[b].guest
  /\ row' = [row EXCEPT ![b].status = "expired"]
  /\ UNCHANGED <<now, req, landed>>

-----------------------------------------------------------------------------
(* The artist accepts, and the deposit arrives.                            *)

\* The deadline is worked out from the start time and the clock of the read.
DepositDeadline(start) ==
  IF start - DepositWindow >= now THEN start - DepositWindow
  ELSE IF now + Grace > start THEN start ELSE now + Grace

ReadApproveBooking(r, b) ==
  /\ Arrives(r, "approve")
  /\ row[b].status = "pending" /\ row[b].start >= now
  /\ Carries(r, [Idle EXCEPT !.op = "approve", !.ids = {b},
                             !.until = DepositDeadline(row[b].start)])
  /\ UNCHANGED <<now, row, landed>>

\* Mutant: approves by UpdateBookingStatus, as the submit does.
ApproveWhatWasRead(r, b) ==
  /\ Writing(r, "approve", b)
  /\ Commits([row EXCEPT ![b].status = "approved", ![b].deadline = req[r].until])
  /\ Answers(r)
  /\ UNCHANGED <<now, landed>>

WriteApproveBooking(r, b) ==
  /\ Writing(r, "approve", b)
  /\ Updates(b, row[b].status = "pending",
       [row[b] EXCEPT !.status = "approved", !.deadline = req[r].until])
  /\ Answers(r)
  /\ UNCHANGED <<now, landed>>

ReadMarkDepositReceived(r, b) ==
  /\ Arrives(r, "mark")
  /\ row[b].status = "approved"
  /\ Carries(r, [Idle EXCEPT !.op = "mark", !.ids = {b}])
  /\ UNCHANGED <<now, row, landed>>

WriteMarkDepositReceived(r, b) ==
  /\ Writing(r, "mark", b)
  /\ Commits(SetStatus(b, "deposit_paid"))
  /\ Answers(r)
  /\ UNCHANGED <<now, landed>>

\* ConfirmDeposit and ConfirmDepositReceived differ in the status they leave.
Confirms(b, endpoint, from) ==
  /\ endpoint \in Endpoints
  /\ row[b].status = from
  /\ row' = [row EXCEPT ![b].status = "confirmed", ![b].paid = TRUE]
  /\ landed' = IF row[b].deposit THEN landed \cup {b} ELSE landed
  /\ UNCHANGED <<now, req>>

ConfirmDeposit(b) == Confirms(b, "confirmDeposit", "deposit_paid")
ConfirmDepositReceived(b) == Confirms(b, "confirmReceived", "approved")

-----------------------------------------------------------------------------
(* A booking is called off, and the deposit goes back.                     *)

DepositReceived(p) == p.deposit /\ p.paid

\* Mutant: owes back what was asked for, received or not.
RefundAsked(p, bySalon) == p.deposit /\ (bySalon \/ p.start - now > CancelWindow)

\* The salon's side owes back every deposit it received; a customer gets it
\* back while the appointment is further off than the cancellation window.
RefundDue(p, bySalon) ==
  DepositReceived(p) /\ (bySalon \/ p.start - now > CancelWindow)

ReadCancelBooking(r, b, bySalon) ==
  /\ Arrives(r, "cancel")
  /\ row[b].status # "none" /\ (bySalon \/ ~row[b].guest)
  /\ ~(row[b].status = "confirmed" /\ row[b].start < now)
  /\ Carries(r, [Idle EXCEPT !.op = "cancel", !.ids = {b},
                             !.refund = RefundDue(row[b], bySalon)])
  /\ UNCHANGED <<now, row, landed>>

WriteCancelBooking(r, b) ==
  /\ Writing(r, "cancel", b)
  /\ Updates(b, row[b].status \notin Closed,
       [row[b] EXCEPT !.status = IF req[r].refund THEN "refund_due" ELSE "cancelled"])
  /\ Answers(r)
  /\ UNCHANGED <<now, landed>>

\* Mutant: a status the column's CHECK does not list.
MarkRefundSent(b) ==
  /\ "refunded" \in Endpoints
  /\ row[b].status = "refund_due"
  /\ row' = [row EXCEPT ![b].status = "refund_sent"]
  /\ UNCHANGED <<now, req, landed>>

MarkRefunded(b) ==
  /\ "refunded" \in Endpoints
  /\ row[b].status = "refund_due"
  /\ row' = [row EXCEPT ![b].status = "refunded"]
  /\ UNCHANGED <<now, req, landed>>

-----------------------------------------------------------------------------
(* The appointment happens, or does not.                                   *)

ReadOutcome(r, b, endpoint) ==
  /\ Arrives(r, endpoint)
  /\ row[b].status = "confirmed" /\ row[b].start <= now
  /\ Carries(r, [Idle EXCEPT !.op = endpoint, !.ids = {b}])
  /\ UNCHANGED <<now, row, landed>>

ReadCompleteBooking(r, b) == ReadOutcome(r, b, "complete")
ReadMarkNoShow(r, b) == ReadOutcome(r, b, "noShow")

\* GREATEST(end_time, LEAST(blocked_until, NOW())): cleanup not used is given back.
FreedFrom(p) ==
  LET used == IF p.blocked <= now THEN p.blocked ELSE now
  IN IF used >= p.start + Duration THEN used ELSE p.start + Duration

WriteCompleteBooking(r, b) ==
  /\ Writing(r, "complete", b)
  /\ Updates(b, row[b].status = "confirmed",
       [row[b] EXCEPT !.status = "completed", !.blocked = FreedFrom(row[b])])
  /\ Answers(r)
  /\ UNCHANGED <<now, landed>>

WriteMarkNoShow(r, b) ==
  /\ Writing(r, "noShow", b)
  /\ Updates(b, row[b].status = "confirmed", [row[b] EXCEPT !.status = "no_show"])
  /\ Answers(r)
  /\ UNCHANGED <<now, landed>>

-----------------------------------------------------------------------------
(* An appointment moves.                                                   *)

ReadRescheduleBooking(r, b) ==
  /\ Arrives(r, "reschedule")
  /\ row[b].status \in Movable /\ ~row[b].guest /\ row[b].moves < MaxReschedules
  /\ \E s \in Offered(Swept, {b}) :
       /\ s > now
       /\ Carries(r, [Idle EXCEPT !.op = "reschedule", !.ids = {b}, !.at = s,
                                  !.until = s + (row[b].blocked - row[b].start)])
  /\ row' = Swept
  /\ UNCHANGED <<now, landed>>

WriteRescheduleBooking(r, b) ==
  /\ Writing(r, "reschedule", b)
  /\ Updates(b, row[b].status \in Movable /\ row[b].moves < MaxReschedules,
       [row[b] EXCEPT !.start = req[r].at, !.blocked = req[r].until, !.moves = @ + 1])
  /\ Answers(r)
  /\ UNCHANGED <<now, landed>>

\* resolveShift: everything movable and not yet under way moves, if all of it
\* stays inside the trading day and ahead of the clock.
ShiftPlan == {b \in Booking : row[b].status \in Shiftable /\ row[b].start > now}

ReadShiftDay(r) ==
  \E d \in Shifts \cup {-distance : distance \in Shifts} :
    /\ Arrives(r, "shift")
    /\ ShiftPlan # {}
    /\ \A b \in ShiftPlan :
         /\ row[b].start + d > now
         /\ row[b].start + d >= OpenAt
         /\ row[b].start + d + Duration <= CloseAt
    /\ Carries(r, [Idle EXCEPT !.op = "shift", !.ids = ShiftPlan, !.at = d])
    /\ UNCHANGED <<now, row, landed>>

\* One statement over the planned ids, whatever has become of them.
WriteShiftDay(r) ==
  /\ req[r].op = "shift"
  /\ Commits([b \in Booking |->
       IF b \in req[r].ids
       THEN [row[b] EXCEPT !.start = @ + req[r].at, !.blocked = @ + req[r].at]
       ELSE row[b]])
  /\ Answers(r)
  /\ UNCHANGED <<now, landed>>

-----------------------------------------------------------------------------
(* The environment: time passes, and a request may die between its         *)
(* statements (a lost connection, a restart of the server).                *)

Tick ==
  /\ now < MaxTime
  /\ now' = now + 1
  /\ UNCHANGED <<row, req, landed>>

RequestDies(r) ==
  /\ req[r] # Idle
  /\ Answers(r)
  /\ UNCHANGED <<now, row, landed>>

Sweeps == ReleaseExpiredHolds \/ ExpireDeadlineBookings \/ ExpireStalePendingBookings

OneStatement(b) ==
  \/ ReleaseGuestHold(b)
  \/ ConfirmDeposit(b)
  \/ ConfirmDepositReceived(b)
  \/ MarkRefunded(b)

Reads(r, b) ==
  \/ ReadSubmitGuestBooking(r, b)
  \/ ReadSubmitBooking(r, b)
  \/ ReadApproveBooking(r, b)
  \/ ReadMarkDepositReceived(r, b)
  \/ \E bySalon \in BOOLEAN : ReadCancelBooking(r, b, bySalon)
  \/ ReadCompleteBooking(r, b)
  \/ ReadMarkNoShow(r, b)
  \/ ReadRescheduleBooking(r, b)

Writes(r, b) ==
  \/ WriteHoldGuestSlot(r, b)
  \/ WriteCreateBooking(r, b)
  \/ WriteSubmitGuestBooking(r, b)
  \/ WriteSubmitBooking(r, b)
  \/ ApplyNoShowRule(r, b)
  \/ WriteApproveBooking(r, b)
  \/ WriteMarkDepositReceived(r, b)
  \/ WriteCancelBooking(r, b)
  \/ WriteCompleteBooking(r, b)
  \/ WriteMarkNoShow(r, b)
  \/ WriteRescheduleBooking(r, b)

Next ==
  \/ Tick
  \/ Sweeps
  \/ \E b \in Booking : OneStatement(b)
  \/ \E r \in Request :
       \/ ReadHoldGuestSlot(r)
       \/ ReadCreateBooking(r)
       \/ ReadShiftDay(r)
       \/ WriteShiftDay(r)
       \/ RequestDies(r)
       \/ \E b \in Booking : Reads(r, b) \/ Writes(r, b)

Spec == Init /\ [][Next]_vars

\* The ExpiryWorker sweeps every minute, and is restarted when it fails.
\* Nothing makes a customer or an artist act.
Fairness ==
  /\ WF_vars(Tick)
  /\ WF_vars(ReleaseExpiredHolds)
  /\ WF_vars(ExpireDeadlineBookings)

FairSpec == Spec /\ Fairness

-----------------------------------------------------------------------------
(* What holds whichever endpoints are called, in whatever order.           *)

\* Every column keeps its type and every request carries what its write reads.
TypeOK ==
  /\ now \in 0..MaxTime
  /\ row \in [Booking -> Row]
  /\ req \in [Request -> Req]
  /\ landed \subseteq Booking

\* The artist is never promised to two customers at once: appointments that
\* stand, or took place, share no minute, cleanup included, however holds,
\* moves, shifts and revived bookings interleave.
Stands(p) == p.status \in Blocking \cup {"completed"}
NoDoubleBooking ==
  \A b, c \in Booking :
    b # c /\ Stands(row[b]) /\ Stands(row[c]) => ~Overlap(row[b], row[c])

\* A refund is owed, or was made, only where a deposit was asked for and the
\* artist recorded one: CancelBooking decides it from a row it read earlier.
RefundBacked ==
  \A b \in Booking :
    row[b].status \in {"refund_due", "refunded"} => DepositReceived(row[b])

\* No appointment is confirmed, completed or missed without passing one of the
\* two endpoints that record the deposit.
ServedWasConfirmed ==
  \A b \in Booking :
    row[b].status \in {"confirmed", "completed", "no_show"} => row[b].paid

\* maxReschedules is kept against a customer racing her own last move.
MoveLimit == \A b \in Booking : row[b].moves <= MaxReschedules

\* A guest's submit never succeeds on a hold that has run out, even when the
\* hold ran out between its read and its write; an ended hold stays ended.
GuestHoldIsFinal ==
  [][\A b \in Booking :
       row[b].guest =>
         /\ row'[b].status = "pending" =>
              row[b].status = "held" /\ row[b].until > now
         /\ row[b].status = "expired" => row'[b].status = "expired"]_vars

\* An abandoned checkout gives its time back, and so does an approval nobody
\* paid for: no row waits on a person to stop blocking the slot
\* (ExpiryWorker, ReleaseExpiredHolds, ExpireDeadlineBookings).
NothingBlocksForEver ==
  \A b \in Booking :
    /\ row[b].status = "held" ~> row[b].status # "held"
    /\ row[b].status = "approved" ~> row[b].status # "approved"

-----------------------------------------------------------------------------
(* What the code promises elsewhere and an interleaving breaks.            *)

\* The whole table implements the written state machine.
Matrix == INSTANCE BookingMatrix WITH
  status <- [b \in Booking |-> row[b].status],
  paid <- {b \in Booking : row[b].paid}
FollowsMatrix == Matrix!Spec

\* A deposit the artist has received is owed back when the booking is called
\* off in good time, by either side.
ReceivedDepositIsOwedBack ==
  [][\A b \in landed :
       row[b].status # "cancelled" /\ row'[b].status = "cancelled" =>
         row[b].start - now <= CancelWindow]_vars

\* The deposit is never due after the appointment it is for.  Does not hold: a
\* move to an earlier time leaves the deadline as it was.
DeadlineBeforeAppointment ==
  \A b \in Booking : row[b].status = "approved" => row[b].deadline <= row[b].start

=============================================================================
