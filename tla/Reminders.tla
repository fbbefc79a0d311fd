----------------------------- MODULE Reminders ------------------------------
(***************************************************************************)
(* The reminders of an appointment, a day ahead and on its morning: the    *)
(* sweep that reconciles the notifications table with the calendar         *)
(* (internal/booking/reminder_worker.go), the bookings that change under   *)
(* it, and the notification worker that sends what is due.                 *)
(*                                                                         *)
(* A unit of time is longer than the sweep interval and than a batch of    *)
(* the notification worker: between two ticks there is a whole sweep, and  *)
(* what was claimed is finished.                                           *)
(***************************************************************************)
EXTENDS Integers

CONSTANTS
  Booking,
  Starts,       \* the start times a booking can have
  Day,          \* from one midnight of the store to the next
  Lead,         \* reminderLeadTime
  Morning,      \* morningReminderHour
  MinLead,      \* minMorningLead
  Ahead,        \* the seven days the sweep looks ahead
  MaxAttempts,  \* the notification worker's maxAttempts
  MaxMoves,     \* bound on the moves of a booking
  MaxTime       \* bound on the clock

ASSUME ReminderParameters ==
  /\ Starts \subseteq Nat
  /\ {Day, Lead, Morning, MinLead, Ahead, MaxAttempts, MaxMoves, MaxTime} \subseteq Nat
  /\ MaxAttempts > 0
  /\ Morning < Day
  /\ Lead + 1 < Ahead /\ Day + 1 < Ahead

VARIABLES
  now,
  booking,   \* the bookings, as far as the sweep reads them
  reminder,  \* the notifications whose template is a reminder, by booking and kind
  sweep,     \* where the sweep is
  hand,      \* the rows the notification worker has claimed and not recorded
  moves,     \* how often each booking has moved
  tried      \* history: the reminders a worker once claimed

reminderVars == <<now, booking, reminder, sweep, hand, moves, tried>>

-----------------------------------------------------------------------------

\* booking_reminder_24h and booking_reminder_morning.
Kinds == {"day", "morning"}
Reminder == Booking \X Kinds

\* "live" is approved, deposit_paid or confirmed; since, when it last changed.
Booked == [status : {"none", "live", "over"}, start : Nat, since : 0..MaxTime]

\* id tells a row from the one that replaces it after a withdrawal.
ReminderRow ==
  [status : {"none", "pending", "failed", "sent", "dead"},
   at : Int, attempts : 0..MaxAttempts, id : Nat]

\* Mutant: a status the column's CHECK does not list.
MarkedWithdrawn(n) == [n EXCEPT !.status = "withdrawn"]

\* A row that was deleted.
Withdrawn(n) == [n EXCEPT !.status = "none"]

RemindersInit ==
  /\ now = 0
  /\ booking = [b \in Booking |-> [status |-> "none", start |-> 0, since |-> 0]]
  /\ reminder = [r \in Reminder |->
       [status |-> "none", at |-> 0, attempts |-> 0, id |-> 0]]
  /\ sweep = "due"
  /\ hand = {}
  /\ moves = [b \in Booking |-> 0]
  /\ tried = {}

-----------------------------------------------------------------------------
(* The calendar.                                                           *)

Becomes(b, status, s) ==
  /\ booking' = [booking EXCEPT ![b] = [status |-> status, start |-> s, since |-> now]]
  /\ UNCHANGED <<now, reminder, sweep, hand, tried>>

ApproveBooking(b) ==
  /\ booking[b].status = "none"
  /\ \E s \in Starts : s > now /\ Becomes(b, "live", s)
  /\ UNCHANGED moves

\* RescheduleBooking and ShiftDay: neither touches the notifications.
MoveBooking(b) ==
  /\ booking[b].status = "live"
  /\ moves[b] < MaxMoves
  /\ moves' = [moves EXCEPT ![b] = @ + 1]
  /\ \E s \in Starts \ {booking[b].start} : s > now /\ Becomes(b, "live", s)

\* Cancelled, expired, completed or a no-show.
EndBooking(b) ==
  /\ booking[b].status = "live"
  /\ Becomes(b, "over", booking[b].start)
  /\ UNCHANGED moves

-----------------------------------------------------------------------------
(* The sweep: a DELETE, then an INSERT for each kind.                      *)

MorningSchedule(s) == (s - (s % Day)) + Morning

Due(b, kind) ==
  IF kind = "day" THEN booking[b].start - Lead ELSE MorningSchedule(booking[b].start)

\* Mutant: withdraws for a booking that is over, not for one that moved.
OnlyEnded(r) == reminder[r].status = "pending" /\ booking[r[1]].status # "live"

\* "Has it moved?" is asked of each kind with its own schedule.
Stale(r) ==
  /\ reminder[r].status = "pending"
  /\ booking[r[1]].status # "live" \/ reminder[r].at # Due(r[1], r[2])

WithdrawStale ==
  /\ sweep = "due"
  /\ reminder' = [r \in Reminder |->
       IF Stale(r) THEN Withdrawn(reminder[r]) ELSE reminder[r]]
  /\ sweep' = "withdrawn"
  /\ UNCHANGED <<now, booking, hand, moves, tried>>

\* minMorningLead: early appointments have none.
Actionable(b, kind) == kind = "morning" => booking[b].start - Due(b, kind) >= MinLead

Wanted(b, kind) ==
  /\ booking[b].status = "live"
  /\ Due(b, kind) > now
  /\ Actionable(b, kind)
  /\ booking[b].start < now + Ahead

\* ON CONFLICT DO NOTHING, against the index on booking and template.
Insert(kind) ==
  reminder' = [r \in Reminder |->
    IF r[2] = kind /\ Wanted(r[1], kind) /\ reminder[r].status = "none"
    THEN [status |-> "pending", at |-> Due(r[1], kind), attempts |-> 0,
          id |-> reminder[r].id + 1]
    ELSE reminder[r]]

InsertReminders ==
  /\ sweep = "withdrawn"
  /\ Insert("day")
  /\ sweep' = "inserted"
  /\ UNCHANGED <<now, booking, hand, moves, tried>>

SweepMorning ==
  /\ sweep = "inserted"
  /\ Insert("morning")
  /\ sweep' = "done"
  /\ UNCHANGED <<now, booking, hand, moves, tried>>

\* The next tick of the sweep's timer, or its restart after it has died.
SweepAgain ==
  /\ sweep # "due"
  /\ sweep' = "due"
  /\ UNCHANGED <<now, booking, reminder, hand, moves, tried>>

-----------------------------------------------------------------------------
(* The notification worker.                                                *)

Ready(r) ==
  /\ reminder[r].status \in {"pending", "failed"}
  /\ reminder[r].attempts < MaxAttempts
  /\ reminder[r].at <= now

ClaimDue(r) ==
  /\ Ready(r)
  /\ \A claim \in hand : claim.row # r \/ claim.id # reminder[r].id
  /\ hand' = hand \cup
       {[row |-> r, id |-> reminder[r].id, at |-> reminder[r].at,
         attempts |-> reminder[r].attempts]}
  /\ tried' = tried \cup {r}
  /\ UNCHANGED <<now, booking, reminder, sweep, moves>>

\* The outcome is recorded by the row's id; a withdrawn row records nothing.
Records(claim, status) ==
  IF reminder[claim.row].status # "none" /\ reminder[claim.row].id = claim.id
  THEN reminder' = [reminder EXCEPT ![claim.row].status = status,
                                    ![claim.row].attempts = claim.attempts + 1]
  ELSE UNCHANGED reminder

Deliver(claim) ==
  /\ Records(claim, "sent")
  /\ hand' = hand \ {claim}
  /\ UNCHANGED <<now, booking, sweep, moves, tried>>

Refused(claim) ==
  /\ Records(claim, IF claim.attempts + 1 >= MaxAttempts THEN "dead" ELSE "failed")
  /\ hand' = hand \ {claim}
  /\ UNCHANGED <<now, booking, sweep, moves, tried>>

Tick ==
  /\ now < MaxTime
  /\ sweep = "done"
  /\ hand = {}
  /\ now' = now + 1
  /\ sweep' = "due"
  /\ UNCHANGED <<booking, reminder, hand, moves, tried>>

RemindersNext ==
  \/ \E b \in Booking : ApproveBooking(b) \/ MoveBooking(b) \/ EndBooking(b)
  \/ WithdrawStale \/ InsertReminders \/ SweepMorning \/ SweepAgain
  \/ \E r \in Reminder : ClaimDue(r)
  \/ \E claim \in hand : Deliver(claim) \/ Refused(claim)
  \/ Tick

RemindersSpec == RemindersInit /\ [][RemindersNext]_reminderVars

-----------------------------------------------------------------------------

\* Types: every booking, row and claim keeps its shape.
RemindersTypeOK ==
  /\ now \in 0..MaxTime
  /\ booking \in [Booking -> Booked]
  /\ reminder \in [Reminder -> ReminderRow]
  /\ sweep \in {"due", "withdrawn", "inserted", "done"}
  /\ hand \subseteq [row : Reminder, id : Nat, at : Int, attempts : 0..(MaxAttempts - 1)]
  /\ moves \in [Booking -> 0..MaxMoves]
  /\ tried \subseteq Reminder

\* Booked, or moved for the last time, a sweep ahead of the reminder's time.
Settled(b, kind) ==
  booking[b].status = "live" /\ booking[b].since + 1 < Due(b, kind) /\ Actionable(b, kind)

Scheduled(b, kind) ==
  reminder[b, kind].status # "none" /\ reminder[b, kind].at = Due(b, kind)

\* An appointment has both its reminders by the time they are due, however
\* often it moved while they waited (withdrawStale and the two INSERTs).
RemindedUntilTried ==
  \A b \in Booking, kind \in Kinds :
    <<b, kind>> \notin tried /\ Settled(b, kind) /\ now >= Due(b, kind) => Scheduled(b, kind)

\* The first attempt to send is never for an appointment that had moved or
\* ended by the last sweep (withdrawStale).
FirstTryIsFresh ==
  \A claim \in hand :
    claim.attempts = 0 /\ booking[claim.row[1]].since + 1 < now =>
      booking[claim.row[1]].status = "live" /\ claim.at = Due(claim.row[1], claim.row[2])

\* "A sweep [...] is correct by construction", of the later attempts too: does
\* not hold, for withdrawStale leaves a failed row to its retries.
EveryTryIsFresh ==
  \A claim \in hand :
    booking[claim.row[1]].since + 1 < now => booking[claim.row[1]].status = "live"

\* "Appointments earlier than 08:00 + this lead get no morning reminder at
\* all": does not hold, for withdrawStale keeps the row of an appointment that
\* moved to an earlier hour of the same day.
MorningIsActionable ==
  \A claim \in hand :
    claim.row[2] = "morning" /\ claim.attempts = 0 /\ booking[claim.row[1]].since + 1 < now =>
      Actionable(claim.row[1], "morning")

=============================================================================
