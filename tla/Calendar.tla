------------------------------ MODULE Calendar ------------------------------
(***************************************************************************)
(* The calendar file of an appointment (internal/calendar) and the phone   *)
(* it is opened on.  A booking carries a sequence number that every change *)
(* of its hour or its artist raises (migration 031); the link handed out   *)
(* with the approval serves a file that names the booking, the number and  *)
(* the hour.  Files are fetched at any moment and opened later, in any     *)
(* order, or twice; the phone is external and does what the migration says *)
(* a calendar does: it keys events by booking, takes a file with a higher  *)
(* sequence than the one it holds and ignores every other.                 *)
(***************************************************************************)
EXTENDS Integers, FiniteSets

CONSTANTS
  Entry,
  Hours,      \* the starts an appointment may have
  MovesLeft,  \* times the customer may move one (MaxReschedules)
  MaxShifts,  \* bound on the shifts and reassignments of the run
  MaxFiles    \* bound on the files fetched

ASSUME CalendarAssumption ==
  Hours \subseteq Int /\ MovesLeft \in Nat /\ MaxShifts \in Nat /\ MaxFiles \in Nat

VARIABLES
  agenda,   \* the booking's row: status, start, reschedule_count, sequence, token
  plan,    \* the shift an artist's request has worked out and not written
  shifts,  \* shifts and reassignments so far
  saved,   \* the files fetched, each with the version of the row it shows
  opened,  \* those of them that were opened
  phone    \* the event the customer's calendar holds for the booking

calendarVars == <<agenda, plan, shifts, saved, opened, phone>>

MayMove == {"pending", "approved", "deposit_paid", "confirmed"}
CalledOff == {"cancelled", "expired", "refunded", "refund_due"}

\* The status a booking takes from each, approval apart.
Follows ==
  ({"pending", "approved"} \X {"cancelled", "expired"})
  \cup ({"deposit_paid", "confirmed"} \X {"cancelled", "refund_due"})
  \cup {<<"approved", "deposit_paid">>, <<"approved", "confirmed">>,
        <<"deposit_paid", "confirmed">>, <<"confirmed", "completed">>,
        <<"confirmed", "no_show">>, <<"refund_due", "refunded">>}

NoEvent == [method |-> "PUBLISH", seq |-> -1, start |-> 0, version |-> -1]
NoPlan == [ids |-> {}, by |-> 0]

CalendarInit ==
  /\ agenda \in [Entry ->
       [status : {"pending"}, start : Hours, moved : {0}, seq : {0},
        link : {FALSE}, version : {0}]]
  /\ plan = NoPlan
  /\ shifts = 0
  /\ saved = {} /\ opened = {}
  /\ phone = [b \in Entry |-> NoEvent]

-----------------------------------------------------------------------------
(* The statements that write the row.  version counts them.                *)

Turned(row, status) == [row EXCEPT !.status = status, !.version = @ + 1]

\* Mutant: the statement leaves calendar_sequence out.
MovedSilently(row, start) == [row EXCEPT !.start = start, !.version = @ + 1]

\* RescheduleBooking and ShiftBookings: the hour and the sequence in one statement.
MovedTo(row, start) ==
  [row EXCEPT !.start = start, !.seq = @ + 1, !.version = @ + 1]

Rescheduled(row, start) == [MovedTo(row, start) EXCEPT !.moved = @ + 1]

ApproveEntry(b) ==
  /\ agenda[b].status = "pending"
  /\ agenda' = [agenda EXCEPT ![b] = [Turned(@, "approved") EXCEPT !.link = TRUE]]
  /\ UNCHANGED <<plan, shifts, saved, opened, phone>>

Turn(b, status) ==
  /\ <<agenda[b].status, status>> \in Follows
  /\ agenda' = [agenda EXCEPT ![b] = Turned(@, status)]
  /\ UNCHANGED <<plan, shifts, saved, opened, phone>>

MoveEntry(b, start) ==
  /\ agenda[b].status \in MayMove
  /\ agenda[b].moved < MovesLeft
  /\ agenda' = [agenda EXCEPT ![b] = Rescheduled(@, start)]
  /\ UNCHANGED <<plan, shifts, saved, opened, phone>>

\* resolveShift reads the day, less what is under way ...
PlanShift(ids, by) ==
  /\ plan = NoPlan /\ shifts < MaxShifts
  /\ ids # {}
  /\ \A b \in ids : agenda[b].status \in MayMove /\ agenda[b].start + by \in Hours
  /\ plan' = [ids |-> ids, by |-> by]
  /\ UNCHANGED <<agenda, shifts, saved, opened, phone>>

\* ... and ShiftBookings moves those rows, whatever has become of them.
WriteShift ==
  /\ plan # NoPlan
  /\ agenda' = [b \in Entry |->
       IF b \in plan.ids THEN MovedTo(agenda[b], agenda[b].start + plan.by) ELSE agenda[b]]
  /\ plan' = NoPlan /\ shifts' = shifts + 1
  /\ UNCHANGED <<saved, opened, phone>>

\* Another artist, the same hour.
HandOver(b) ==
  /\ agenda[b].status \in MayMove /\ shifts < MaxShifts
  /\ agenda' = [agenda EXCEPT ![b] = MovedTo(@, @.start)]
  /\ shifts' = shifts + 1
  /\ UNCHANGED <<plan, saved, opened, phone>>

-----------------------------------------------------------------------------
(* The link, and the phone.                                                *)

\* Deliberately whatever the status.
GetByCalendarToken(b) == agenda[b].link

GetEvent(row) ==
  [seq |-> row.seq, start |-> row.start, cancelled |-> row.status \in CalledOff,
   version |-> row.version]

Format(event) ==
  [method |-> IF event.cancelled THEN "CANCEL" ELSE "PUBLISH",
   seq |-> event.seq, start |-> event.start, version |-> event.version]

Fetch(b) ==
  /\ GetByCalendarToken(b) /\ Cardinality(saved) < MaxFiles
  /\ saved' = saved \cup {<<b, Format(GetEvent(agenda[b]))>>}
  /\ UNCHANGED <<agenda, plan, shifts, opened, phone>>

\* External.  A calendar holding nothing has nothing to withdraw.
Imported(held, file) ==
  IF held = NoEvent
  THEN IF file.method = "CANCEL" THEN held ELSE file
  ELSE IF file.seq > held.seq THEN file ELSE held

OpenFile(b, file) ==
  /\ <<b, file>> \in saved
  /\ phone' = [phone EXCEPT ![b] = Imported(@, file)]
  /\ opened' = opened \cup {<<b, file>>}
  /\ UNCHANGED <<agenda, plan, shifts, saved>>

CalendarNext ==
  \/ \E b \in Entry :
       \/ ApproveEntry(b)
       \/ \E t \in Follows : Turn(b, t[2])
       \/ \E h \in Hours : MoveEntry(b, h)
       \/ HandOver(b)
       \/ Fetch(b)
  \/ \E ids \in SUBSET Entry, by \in {-1, 1} : PlanShift(ids, by)
  \/ WriteShift
  \/ \E f \in saved : OpenFile(f[1], f[2])

CalendarSpec == CalendarInit /\ [][CalendarNext]_calendarVars

-----------------------------------------------------------------------------
(* What the phone shows.                                                   *)

Files == [method : {"PUBLISH", "CANCEL"}, seq : Nat, start : Int, version : Nat]

\* Types.
CalendarTypeOK ==
  /\ agenda \in [Entry ->
       [status : MayMove \cup CalledOff \cup {"completed", "no_show"},
        start : Int, moved : 0 .. MovesLeft, seq : Nat, link : BOOLEAN, version : Nat]]
  /\ plan \in [ids : SUBSET Entry, by : {-1, 0, 1}]
  /\ shifts \in Nat
  /\ saved \subseteq Entry \X Files
  /\ opened \subseteq saved
  /\ phone \in [Entry -> Files \cup {NoEvent}]

\* However late and in whatever order files are opened, the phone never
\* keeps an hour that a fresher opened file has corrected: a file that knows
\* of a move carries a higher sequence, an old file a lower one (migration
\* 031: "ANY code that changes a booking's start_time or end_time MUST also
\* increment calendar_sequence in the same statement").
HeldIsFreshest ==
  \A f \in opened :
    LET file == f[2]
        held == phone[f[1]]
    IN file.method = "PUBLISH" =>
         /\ held # NoEvent
         /\ file.version > held.version => file.start = held.start

\* A CANCEL file that is opened takes the event away (handler.go 97-99: "that
\* file is what REMOVES the event").  Does not hold: a cancellation leaves
\* calendar_sequence as it was, and the calendar ignores the file.
WithdrawalTaken ==
  \A f \in opened :
    LET file == f[2]
        held == phone[f[1]]
    IN file.method = "CANCEL" /\ held # NoEvent /\ file.version > held.version =>
         held.method = "CANCEL"

=============================================================================
