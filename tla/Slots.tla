-------------------------------- MODULE Slots --------------------------------
(***************************************************************************)
(* The slot list: which times of one day an artist is offered at one store *)
(* (GetAvailableSlots of internal/booking/slots.go), from the store's      *)
(* hours (internal/pkg/openinghours), her rota (internal/pkg/schedule,     *)
(* internal/artist/rota.go), what occupies her (occupancy.go), her road to *)
(* another store (travel.go) and the clock; and what asks that list again: *)
(* the hold (assertOffered) and the reschedule.                            *)
(*                                                                         *)
(* Time is counted in ticks from the store's midnight.  Requests come one  *)
(* at a time: Diaries has their transactions.                              *)
(***************************************************************************)
EXTENDS Integers, FiniteSets, SequencesExt, Folds

CONSTANTS
  Null,
  Day,       \* the length of the day the list is for
  Step,      \* fifteen minutes
  Pad,       \* dayReadPad: twelve hours, a road takes eight and a cleanup two
  Zone,      \* UTC midnight of the date, at this tick: the store is east of it
  Moments,   \* the times the clock shows
  Spans,     \* the hours that forms send, from and to
  Terms,     \* what a service may take: its length and its cleanup
  Settings,  \* a store's notice and early bird cutoff
  Ways,      \* the travel minutes on file
  MaxEntries

ASSUME SlotParameters ==
  /\ Day \in Nat /\ Step \in Nat \ {0} /\ Pad \in Nat /\ Zone \in 0 .. Day - 1
  /\ Moments \subseteq Int
  /\ \A s \in Spans : s.from \in 0 .. Day /\ s.to \in 0 .. Day
  /\ Null \notin Spans
  /\ \A s \in Settings : s.notice \in Nat

\* duration_min >= 15 and buffer_min BETWEEN 0 AND 120 in the schema, the
\* roads at most 480 in the forms: within the pad.
ASSUME PadParameters ==
  \A t \in Terms, y \in Ways :
    /\ t.length \in Nat \ {0} /\ t.cleanup \in Nat
    /\ Null \notin {y.here, y.away}
    /\ \A m \in {y.there, y.back, y.here, y.away} \ {Null} : m \in Nat /\ t.cleanup + m <= Pad

VARIABLES
  hours,   \* the row of business_hours for this weekday
  closure, \* the row of business_hours_exceptions for this date
  rota,    \* her row of artist_schedules for this weekday
  off,     \* her rows of artist_schedule_exceptions for this date
  service, \* length and cleanup of the service asked for
  store,   \* notice and cutoff
  way,     \* her road to the other store
  agenda,  \* her bookings, at this store or the other
  clock,
  shown    \* the times a customer was shown, while nothing else has changed

slotVars == <<hours, closure, rota, off, service, store, way, agenda, clock, shown>>

-----------------------------------------------------------------------------

HoursRow == [open : BOOLEAN, span : Spans]
ClosureRow == [closed : BOOLEAN, span : Spans \cup {Null}]
RotaRow == [working : BOOLEAN, span : Spans]
\* Her date, at this store or at every store: away, or other hours.
OffRow == [everywhere : BOOLEAN, away : {TRUE}, span : {Null}]
            \cup [everywhere : BOOLEAN, away : {FALSE}, span : Spans]
Appointment == [from : Int, to : Int, until : Int, elsewhere : BOOLEAN,
                status : {"held", "standing", "completed"}, lapsed : BOOLEAN]

SlotsInit ==
  /\ hours = Null /\ closure = Null /\ rota = Null
  /\ off = [id \in 1 .. 2 |-> Null]
  /\ service \in Terms /\ store \in Settings /\ way \in Ways
  /\ agenda = {} /\ clock \in Moments /\ shown = {}

-----------------------------------------------------------------------------
(* Windows.                                                                *)

NoWindow == [from |-> 0, to |-> 0]
IsZero(w) == ~(w.from < w.to)
OrNone(w) == IF IsZero(w) THEN NoWindow ELSE w

\* openinghours.Resolve: an exception never opens a day the week has closed.
StoreWindow ==
  IF \/ closure # Null /\ closure.closed
     \/ hours = Null \/ ~hours.open
  THEN NoWindow
  ELSE IF closure # Null /\ closure.span # Null THEN closure.span ELSE hours.span

\* An artist without hours of her own has the store's.
Intersect(w, own) ==
  IF IsZero(own) THEN w
  ELSE OrNone([from |-> IF own.from > w.from THEN own.from ELSE w.from,
               to |-> IF own.to < w.to THEN own.to ELSE w.to])

\* The row that is in force: the store's before the one for every store.
\* Nothing keeps the latter unique, as NULLs are distinct: LIMIT 1 picks one.
Rows(everywhere) == {off[id] : id \in {i \in 1 .. 2 : off[i] # Null /\ off[i].everywhere = everywhere}}
InForce == IF Rows(FALSE) # {} THEN Rows(FALSE)
           ELSE IF Rows(TRUE) # {} THEN Rows(TRUE) ELSE {Null}

ResolveDay(w, x) ==
  IF IsZero(w) THEN NoWindow
  ELSE IF x # Null THEN IF x.away THEN NoWindow ELSE Intersect(w, x.span)
  ELSE IF rota # Null THEN IF rota.working THEN Intersect(w, rota.span) ELSE NoWindow
  ELSE w

\* IsSameDayIn, of the date's UTC midnight.
IsSameDay(now) == Zone \div Day = now \div Day
EarliestStart(w, now) ==
  IF IsSameDay(now) /\ now + store.notice > w.from THEN now + store.notice ELSE w.from

-----------------------------------------------------------------------------
(* What occupies her.                                                      *)

Interval(from, to, kind) == [from |-> from, to |-> to, kind |-> kind]
IsEmpty(i) == ~(i.to > i.from)
Overlaps(i, j) == ~IsEmpty(i) /\ ~IsEmpty(j) /\ i.from < j.to /\ j.from < i.to
KindBlocks(i) == i.kind # "processing_gap"
\* Add: what takes no time is dropped.
Occupancy(intervals) == {i \in intervals : ~IsEmpty(i)}
BlocksArtist(occ, i) == \E j \in occ : KindBlocks(j) /\ Overlaps(j, i)

\* travelMinutes: an override of either direction, else the longer default.
TravelMinutes ==
  LET overrides == {way.there, way.back} \ {Null}
      asked == IF overrides # {} THEN overrides ELSE {way.here, way.away}
  IN CHOOSE m \in asked : \A n \in asked : n <= m

TravelIntervals(from, to, minutes) ==
  IF minutes <= 0 THEN {}
  ELSE {Interval(from - minutes, from, "travel"), Interval(to, to + minutes, "travel")}

BlockingStatuses == {"held", "standing"}
\* Mutant: a read of the day alone.
BetweenMidnights(rows) == {e \in rows : e.status \in BlockingStatuses /\ e.from < Day /\ e.until > 0}
\* GetArtistBookingsBetween, over the day and the pad on either side.
Between(rows) ==
  {e \in rows : e.status \in BlockingStatuses /\ e.from < Day + Pad /\ e.until > 0 - Pad}

Occupied(rows) ==
  LET read == Between(rows)
  IN Occupancy(
       {Interval(e.from, e.to, "service") : e \in read}
         \cup {Interval(e.to, e.until, "buffer") : e \in read}
         \cup UNION {TravelIntervals(e.from, e.until, TravelMinutes) :
                       e \in {f \in read : f.elsewhere}})

\* Merged and FreeWithin: her busy stretches in order, and the gaps between.
Extend(i, stretches) ==
  LET last == stretches[Len(stretches)]
  IN IF stretches # <<>> /\ i.from <= last.to
     THEN [stretches EXCEPT ![Len(stretches)].to = IF i.to > @ THEN i.to ELSE @]
     ELSE Append(stretches, Interval(i.from, i.to, "service"))
Latest(occ) == CHOOSE i \in occ : \A j \in occ : j.from <= i.from
Merged(occ) ==
  MapThenFoldSet(Extend, <<>>, LAMBDA i : i, Latest, {i \in occ : KindBlocks(i)})

\* The gaps found so far, and how far she is known to be busy; a stretch that
\* starts after the window ends the walk, as none starts before it any more.
Gap(found, busy, to) ==
  IF busy.to <= found.cursor \/ busy.from >= to THEN found
  ELSE [cursor |-> busy.to,
        gaps |-> IF busy.from > found.cursor
                 THEN found.gaps \cup {Interval(found.cursor, busy.from, "service")}
                 ELSE found.gaps]
FreeWithin(occ, from, to) ==
  LET found == FoldLeft(LAMBDA f, busy : Gap(f, busy, to),
                        [cursor |-> from, gaps |-> {}], Merged(occ))
  IN {g \in found.gaps \cup {Interval(found.cursor, to, "service")} : ~IsEmpty(g)}

-----------------------------------------------------------------------------
(* The list.                                                               *)

\* ReleaseExpiredHolds, which every list runs first.
Swept(rows) == {e \in rows : ~(e.status = "held" /\ e.lapsed)}

\* isEarlyBirdSlot, what the hold charges for.
IsEarlyBird(t) == store.cutoff # Null /\ t < store.cutoff

\* Mutant: a candidate that keeps no room for its own cleanup.
BareCandidate(t) == Interval(t, t + service.length, "service")
Candidate(t) == Interval(t, t + service.length + service.cleanup, "service")

\* The walk from the first time in steps, to the last that ends by closing.
Slots(rows, x, now) ==
  LET w == ResolveDay(StoreWindow, x)
      first == EarliestStart(w, now)
      occ == Occupied(rows)
  IN IF IsZero(w) THEN {}
     ELSE {[at |-> t, early |-> store.cutoff # Null /\ t < store.cutoff] :
             t \in {u \in first .. w.to : /\ (u - first) % Step = 0
                                          /\ u + service.length <= w.to
                                          /\ ~BlocksArtist(occ, Candidate(u))}}
Times(list) == {s.at : s \in list}

-----------------------------------------------------------------------------
(* The calendar is edited.                                                 *)

Edited == shown' = {} /\ UNCHANGED <<way, agenda, clock>>

HoursBecome(row) == hours' = row
RotaBecomes(row) == rota' = row

SetBusinessHours(row) ==
  /\ row.open => row.span.to > row.span.from
  /\ HoursBecome(row)
  /\ Edited /\ UNCHANGED <<closure, rota, off, service, store>>

\* The defaults go to every day of the week that has a row; the days on
\* which the store trades stay.
UpdateDefaults(span) ==
  /\ hours' = IF hours = Null THEN Null ELSE [hours EXCEPT !.span = span]
  /\ Edited /\ UNCHANGED <<closure, rota, off, service, store>>

UpdateStore(settings) ==
  /\ store' = settings
  /\ Edited /\ UNCHANGED <<hours, closure, rota, off, service>>

CreateException(row) ==
  /\ closure' = row
  /\ Edited /\ UNCHANGED <<hours, rota, off, service, store>>

DeleteException ==
  /\ closure' = Null
  /\ Edited /\ UNCHANGED <<hours, rota, off, service, store>>

\* The whole week at this store is replaced: a day left out has no row.
SetMyRota(row) ==
  /\ row # Null => row.span.from < row.span.to
  /\ RotaBecomes(row)
  /\ Edited /\ UNCHANGED <<hours, closure, off, service, store>>

\* ON CONFLICT replaces the row of this store; a row for every store
\* conflicts with nothing.
SetMyScheduleException(row) ==
  /\ ~row.away => row.span.from < row.span.to
  /\ \E id \in 1 .. 2 :
       /\ IF ~row.everywhere /\ Rows(FALSE) # {}
          THEN off[id] # Null /\ ~off[id].everywhere
          ELSE off[id] = Null
       /\ off' = [off EXCEPT ![id] = row]
  /\ Edited /\ UNCHANGED <<hours, closure, rota, service, store>>

DeleteMyScheduleException(id) ==
  /\ off[id] # Null
  /\ off' = [off EXCEPT ![id] = Null]
  /\ Edited /\ UNCHANGED <<hours, closure, rota, service, store>>

UpdateService(term) ==
  /\ service' = term
  /\ Edited /\ UNCHANGED <<hours, closure, rota, off, store>>

-----------------------------------------------------------------------------
(* Customers.                                                              *)

Diarised == UNCHANGED <<hours, closure, rota, off, service, store, way, clock>>

\* GET /slots.
GetAvailableSlots ==
  /\ agenda' = Swept(agenda)
  /\ \E x \in InForce :
       shown' = shown \cup Times(Slots(agenda', x, clock))
  /\ Diarised

\* bookings_no_overlap, over more statuses than BlockingStatuses.
Guarded == {"held", "standing", "completed"}
Collides(rows, from, until) ==
  \E e \in rows : e.status \in Guarded /\ e.from < until /\ from < e.until
\* lockArtistAndCheckTravel.
TooLittleRoad(rows, from, until) ==
  \E e \in rows : /\ e.elsewhere /\ e.status \in BlockingStatuses
                  /\ e.from < until + TravelMinutes /\ from < e.until + TravelMinutes
Free(rows, from, until) == ~Collides(rows, from, until) /\ ~TooLittleRoad(rows, from, until)

\* HoldGuestSlot: a time on the list, asked for again.
HoldGuestSlot(t) ==
  LET rows == Swept(agenda)
      until == t + service.length + service.cleanup
  IN /\ t > clock /\ Cardinality(rows) < MaxEntries
     /\ \E x \in InForce : t \in Times(Slots(rows, x, clock))
     /\ Free(rows, t, until)
     /\ agenda' = rows \cup {[from |-> t, to |-> t + service.length, until |-> until,
                             elsewhere |-> FALSE, status |-> "held", lapsed |-> FALSE]}
     /\ shown' = {} /\ Diarised

\* RescheduleBooking: the list of the UTC date, without the booking; its
\* length stays what it was when it was made.
RescheduleBooking(e, t) ==
  LET rows == Swept(agenda) \ {e}
      moved == [e EXCEPT !.from = t, !.to = t + (e.to - e.from), !.until = t + (e.until - e.from)]
  IN /\ e.status = "standing" /\ ~e.elsewhere
     /\ t > clock /\ t >= Zone
     /\ \E x \in InForce : t \in Times(Slots(rows, x, clock))
     /\ Free(rows, t, moved.until)
     /\ agenda' = rows \cup {moved}
     /\ shown' = {} /\ Diarised

\* A hold is submitted, cancelled, or passes its window.
Submit(e) == /\ e.status = "held" /\ ~e.lapsed
             /\ agenda' = (agenda \ {e}) \cup {[e EXCEPT !.status = "standing"]}
             /\ shown' = {} /\ Diarised
Cancel(e) == /\ e.status \in BlockingStatuses
             /\ agenda' = agenda \ {e}
             /\ shown' = {} /\ Diarised
Lapse(e) == /\ e.status = "held" /\ ~e.lapsed
            /\ agenda' = (agenda \ {e}) \cup {[e EXCEPT !.lapsed = TRUE]}
            /\ shown' = {} /\ Diarised

\* CompleteBooking: cleanup that is not needed is handed back.
CompleteBooking(e) ==
  LET given == IF e.until < clock THEN e.until ELSE clock
  IN /\ e.status = "standing" /\ e.from <= clock
     /\ agenda' = (agenda \ {e}) \cup
          {[e EXCEPT !.status = "completed", !.until = IF e.to > given THEN e.to ELSE given]}
     /\ shown' = {} /\ Diarised

\* The other store takes a booking of hers by the same rules.
BookElsewhere(t) ==
  LET e == [from |-> t, to |-> t + service.length,
            until |-> t + service.length + service.cleanup,
            elsewhere |-> TRUE, status |-> "standing", lapsed |-> FALSE]
  IN /\ t > clock /\ Cardinality(agenda) < MaxEntries
     /\ ~Collides(agenda, t, e.until)
     /\ ~\E f \in agenda : /\ ~f.elsewhere /\ f.status \in BlockingStatuses
                           /\ f.from < e.until + TravelMinutes /\ t < f.until + TravelMinutes
     /\ agenda' = agenda \cup {e}
     /\ shown' = {} /\ Diarised

Tick ==
  /\ clock + 1 \in Moments /\ clock' = clock + 1
  /\ UNCHANGED <<hours, closure, rota, off, service, store, way, agenda, shown>>

Edit ==
  \/ \E row \in HoursRow : SetBusinessHours(row)
  \/ \E span \in Spans : UpdateDefaults(span)
  \/ \E row \in ClosureRow : CreateException(row)
  \/ DeleteException
  \/ \E row \in RotaRow \cup {Null} : SetMyRota(row)
  \/ \E row \in OffRow : SetMyScheduleException(row)
  \/ \E id \in 1 .. 2 : DeleteMyScheduleException(id)
Sell ==
  \/ \E settings \in Settings : UpdateStore(settings)
  \/ \E term \in Terms : UpdateService(term)
Appoint ==
  \/ \E t \in 0 .. Day : HoldGuestSlot(t)
  \/ \E e \in agenda :
       \/ \E t \in 0 .. Day : RescheduleBooking(e, t)
       \/ Submit(e) \/ Cancel(e) \/ Lapse(e) \/ CompleteBooking(e)
  \/ \E t \in 0 - Pad .. Day + Pad : BookElsewhere(t)

SlotsNext == Edit \/ Sell \/ Appoint \/ GetAvailableSlots \/ Tick

SlotsSpec == SlotsInit /\ [][SlotsNext]_slotVars

-----------------------------------------------------------------------------
(* What is expected of the list.                                           *)

SlotsTypeOK ==
  /\ hours \in HoursRow \cup {Null} /\ closure \in ClosureRow \cup {Null}
  /\ rota \in RotaRow \cup {Null} /\ off \in [1 .. 2 -> OffRow \cup {Null}]
  /\ service \in Terms /\ store \in Settings /\ way \in Ways
  /\ agenda \subseteq Appointment
  /\ clock \in Moments /\ shown \subseteq Int

\* The ticks of a span, the reference the list is compared with.
Ticks(from, to) == from .. to - 1
Trading ==
  IF hours = Null THEN {}
  ELSE {m \in Ticks(0, Day) :
         /\ hours.open /\ (closure # Null => ~closure.closed)
         /\ LET s == IF closure # Null /\ closure.span # Null THEN closure.span ELSE hours.span
            IN m \in Ticks(s.from, s.to)}
Working(x) ==
  {m \in Trading :
     IF x # Null THEN ~x.away /\ m \in Ticks(x.span.from, x.span.to)
     ELSE rota # Null => rota.working /\ m \in Ticks(rota.span.from, rota.span.to)}
Busy(rows) ==
  UNION {LET road == IF e.elsewhere THEN TravelMinutes ELSE 0
         IN Ticks(e.from - road, e.until + road) :
           e \in {f \in rows : f.status \in BlockingStatuses}}

\* A list holds every time, and no other, at which the whole appointment is
\* inside the hours that the store trades and she works, and at which it and
\* its cleanup meet nothing of hers, cleanup and roads included; in steps
\* from when she starts, or on the day from when notice allows; with the
\* badge where the hold charges for it (GetAvailableSlots, step by step,
\* against the rule as a set of minutes).
TimesAreExact ==
  \A x \in InForce :
    LET rows == Swept(agenda)
        work == Working(x)
        start == CHOOSE m \in work : \A n \in work : m <= n
        first == IF clock \in Ticks(0, Day) /\ clock + store.notice > start
                 THEN clock + store.notice ELSE start
    IN Slots(rows, x, clock) =
         IF work = {} THEN {}
         ELSE {[at |-> t, early |-> IsEarlyBird(t)] :
                 t \in {u \in first .. Day :
                          /\ (u - first) % Step = 0
                          /\ Ticks(u, u + service.length) \subseteq work
                          /\ Ticks(u, u + service.length + service.cleanup) \cap Busy(rows) = {}}}

\* The gaps of a day are the minutes nothing of hers takes, each once and as
\* long as it goes (Merged and FreeWithin of occupancy.go).
GapsAreFree ==
  LET rows == Swept(agenda)
      gaps == FreeWithin(Occupied(rows), 0, Day)
  IN /\ UNION {Ticks(g.from, g.to) : g \in gaps} = Ticks(0, Day) \ Busy(rows)
     /\ \A g, h \in gaps : g # h => g.to < h.from \/ h.to < g.from

\* The list and the day view are exact, of whatever hours, rotas, exceptions,
\* roads and appointments the edits have left.
ListIsExact == TimesAreExact /\ GapsAreFree

\* A time on the list that the exclusion constraint would refuse is one of an
\* appointment that was completed before it was over: the only status that
\* the constraint covers and BlockingStatuses leaves out.
RefusedAfterCompletion ==
  \A x \in InForce : \A t \in Times(Slots(Swept(agenda), x, clock)) :
    LET until == t + service.length + service.cleanup
    IN Free({e \in Swept(agenda) : e.status # "completed"}, t, until)

\* A time that was on the list, with nothing changed since but the clock, and
\* that notice still allows, is accepted by the hold ("A slot list is a
\* promise that the time can be booked", slots.go).
PromiseKept ==
  \A t \in shown :
    t > clock /\ t >= clock + store.notice =>
      \E x \in InForce : t \in Times(Slots(Swept(agenda), x, clock))

=============================================================================
