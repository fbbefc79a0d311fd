------------------------------ MODULE Diaries -------------------------------
(***************************************************************************)
(* The diaries of a salon's artists, who work at several stores: the       *)
(* transactions that write them (CreateBooking, CreateGuestHold,           *)
(* RescheduleBooking, ShiftBookings, ReassignBooking of                    *)
(* internal/booking/repository.go), with the advisory lock on an artist    *)
(* that each takes and the check of her road between the stores.           *)
(*                                                                         *)
(* A transaction is READ COMMITTED and goes statement by statement; what   *)
(* it wrote is seen by others once it commits.  Here a booking only moves  *)
(* from held to standing to over; the handlers that revive one that ended  *)
(* are in BookingLifecycle, and so is the clock.                           *)
(***************************************************************************)
EXTENDS Integers, FiniteSets

CONSTANTS
  Booking,
  Artist,    \* numbered in the order of their ids as text
  Store,
  Client,    \* networks that guests hold from
  NoClient,  \* a hold without one, and a booking from an account
  Writer,    \* the requests the API serves at a time
  Opening,   \* the start times on offer
  Distances, \* the distances a day may be shifted by
  Span,      \* an appointment and its cleanup
  WorksAt,   \* artist_stores
  Road,      \* travelMinutes of each artist, from one store to another
  MaxHolds   \* maxGuestHoldsPerClient

ASSUME DiaryParameters ==
  /\ Artist \subseteq Int /\ IsFiniteSet(Artist)
  /\ Artist # {} /\ Store # {}
  /\ NoClient \notin Client
  /\ Opening \subseteq Int /\ Distances \subseteq Int
  /\ Span \in Nat \ {0}
  /\ WorksAt \in [Artist -> SUBSET Store]
  /\ Road \in [Artist -> Nat]
  /\ MaxHolds \in Nat \ {0}
  /\ IsFiniteSet(Booking)

VARIABLES
  diary,   \* the table bookings, as committed
  lapsed,  \* the bookings whose held_until has passed
  writer,  \* where each request is
  crossed  \* history: a booking changed artist under a request that moves it

diaryVars == <<diary, lapsed, writer, crossed>>

-----------------------------------------------------------------------------

Standings == {"none", "held", "standing", "over"}
Entry == [status : Standings, artist : Artist, store : Store, start : Int,
          client : Client \cup {NoClient}]

\* BlockingStatuses.
Blocks(e) == e.status \in {"held", "standing"}

Errands == {"insert", "move", "shift", "reassign"}
\* find, lock, second: which lock comes next; count, write, check, commit.
Stages == {"idle", "find", "lock", "second", "count", "write", "check", "commit"}
\* ids: the bookings it writes; lead: the one whose artist is locked; from:
\* the artist it was found with; to: the artist it writes into the row;
\* roads: the artist whose travel map was worked out; at: a start or a
\* distance; locks: the advisory locks it holds; puts: its rows.
Request ==
  [stage : Stages, errand : Errands, ids : SUBSET Booking, lead : SUBSET Booking,
   from : Artist, to : Artist, roads : Artist, store : Store, at : Int,
   client : Client \cup {NoClient}, locks : SUBSET Artist, puts : [Booking -> Entry]]

Nowhere == [status |-> "none", artist |-> CHOOSE a \in Artist : TRUE,
            store |-> CHOOSE s \in Store : TRUE, start |-> 0, client |-> NoClient]
Unsent ==
  [stage |-> "idle", errand |-> "insert", ids |-> {}, lead |-> {},
   from |-> Nowhere.artist, to |-> Nowhere.artist, roads |-> Nowhere.artist,
   store |-> Nowhere.store, at |-> 0, client |-> NoClient, locks |-> {},
   puts |-> [b \in Booking |-> Nowhere]]

DiariesInit ==
  /\ diary = [b \in Booking |-> Nowhere]
  /\ lapsed = {}
  /\ writer = [w \in Writer |-> Unsent]
  /\ crossed = FALSE

In(w, stage) == writer[w].stage = stage
Sets(w, r) == writer' = [writer EXCEPT ![w] = r]
Comes(w, stage) == Sets(w, [writer[w] EXCEPT !.stage = stage])
Leaves(w) == Sets(w, Unsent)

\* What a statement of the transaction sees, and what it leaves behind.
Sees(w) == [b \in Booking |-> IF b \in writer[w].ids THEN writer[w].puts[b] ELSE diary[b]]

Meet(e, f) == e.start < f.start + Span /\ f.start < e.start + Span
\* She needs m minutes on the road from one to the other, either way.
TooFar(e, f, m) == e.start < f.start + Span + m /\ f.start < e.start + Span + m

-----------------------------------------------------------------------------
(* What the service reads before the transaction.                          *)

\* assertOffered: the slot list leaves out what meets a booking of hers, the
\* road included.
OnOffer(a, s, t, skip) ==
  \A b \in Booking \ skip :
    LET e == [Nowhere EXCEPT !.start = t]
    IN Blocks(diary[b]) /\ diary[b].artist = a =>
         /\ ~Meet(diary[b], e)
         /\ diary[b].store # s => ~TooFar(diary[b], e, Road[a])

\* HoldGuestSlot, and CreateBooking without a client.
ReadToInsert(w, a, s, t, c) ==
  /\ In(w, "idle")
  /\ s \in WorksAt[a] /\ OnOffer(a, s, t, {})
  /\ Sets(w, [Unsent EXCEPT !.stage = "lock", !.from = a, !.to = a, !.roads = a,
                            !.store = s, !.at = t, !.client = c])
  /\ UNCHANGED <<diary, lapsed, crossed>>

ReadToMove(w, b, t) ==
  /\ In(w, "idle")
  /\ diary[b].status = "standing" /\ t # diary[b].start
  /\ OnOffer(diary[b].artist, diary[b].store, t, {b})
  /\ Sets(w, [Unsent EXCEPT !.stage = "find", !.errand = "move", !.ids = {b}, !.lead = {b},
                            !.roads = diary[b].artist, !.at = t])
  /\ UNCHANGED <<diary, lapsed, crossed>>

\* evaluateShift over her day at one store.
ReadToShift(w, a, s, d) ==
  LET ids == {b \in Booking : Blocks(diary[b]) /\ diary[b].artist = a /\ diary[b].store = s}
  IN /\ In(w, "idle") /\ ids # {}
     /\ \A b \in ids :
          /\ diary[b].start + d \in Opening
          /\ \A c \in Booking \ ids :
               Blocks(diary[c]) /\ diary[c].artist = a =>
                 ~TooFar([diary[b] EXCEPT !.start = @ + d], diary[c], Road[a])
     /\ \E b \in ids :
          /\ \A c \in ids : diary[b].start <= diary[c].start
          /\ Sets(w, [Unsent EXCEPT !.stage = "find", !.errand = "shift", !.ids = ids,
                                    !.lead = {b}, !.roads = a, !.at = d])
     /\ UNCHANGED <<diary, lapsed, crossed>>

\* canTake.
ReadToReassign(w, b, a) ==
  /\ In(w, "idle")
  /\ diary[b].status = "standing" /\ a # diary[b].artist
  /\ diary[b].store \in WorksAt[a]
  /\ OnOffer(a, diary[b].store, diary[b].start, {})
  /\ Sets(w, [Unsent EXCEPT !.stage = "lock", !.errand = "reassign", !.ids = {b},
                            !.from = diary[b].artist, !.to = a, !.roads = a])
  /\ UNCHANGED <<diary, lapsed, crossed>>

-----------------------------------------------------------------------------
(* The transaction.                                                        *)

\* SELECT artist_id, before the lock on her is asked for.
FindArtist(w) ==
  /\ In(w, "find")
  /\ \E b \in writer[w].lead :
       Sets(w, [writer[w] EXCEPT !.stage = "lock", !.from = diary[b].artist, !.to = diary[b].artist])
  /\ UNCHANGED <<diary, lapsed, crossed>>

\* Mutant: the lock is on an artist at one store.
TakenAtStore(a, w) ==
  \E x \in Writer \ {w} : a \in writer[x].locks /\ writer[x].store = writer[w].store

\* lockArtist: another transaction has her.
Taken(a, w) == \E x \in Writer \ {w} : a \in writer[x].locks

\* Mutant: the artist who has the booking first, then the one who gets it.
AsGiven(r) == r.from

\* In the order of the ids, so that opposite reassignments cannot deadlock.
FirstOf(r) == IF r.from <= r.to THEN r.from ELSE r.to

SecondOf(r) == IF FirstOf(r) = r.from THEN r.to ELSE r.from

\* The lock on artist and network that a guest hold takes next is always
\* taken under this one.
LockArtist(w) ==
  LET r == writer[w]
  IN /\ In(w, "lock") /\ ~Taken(FirstOf(r), w)
     /\ Sets(w, [r EXCEPT !.locks = {FirstOf(r)},
                          !.stage = IF r.errand = "reassign" THEN "second"
                                    ELSE IF r.client # NoClient THEN "count" ELSE "write"])
     /\ UNCHANGED <<diary, lapsed, crossed>>

LockSecond(w) ==
  LET r == writer[w]
  IN /\ In(w, "second") /\ ~Taken(SecondOf(r), w)
     /\ Sets(w, [r EXCEPT !.locks = @ \cup {SecondOf(r)}, !.stage = "write"])
     /\ UNCHANGED <<diary, lapsed, crossed>>

HoldsOf(table, a, c) ==
  {b \in Booking \ lapsed :
     table[b].status = "held" /\ table[b].artist = a /\ table[b].client = c}

CountHolds(w) ==
  /\ In(w, "count")
  /\ IF Cardinality(HoldsOf(diary, writer[w].to, writer[w].client)) >= MaxHolds
     THEN Leaves(w) ELSE Comes(w, "write")
  /\ UNCHANGED <<diary, lapsed, crossed>>

Written(x) == writer[x].stage \in {"check", "commit"}
RowLocked(b, w) == \E x \in Writer \ {w} : Written(x) /\ b \in writer[x].ids

\* The exclusion constraint, against the rows of a table.
Fits(puts, ids, table) ==
  \A b \in ids, c \in Booking :
    b # c /\ Blocks(puts[b]) /\ puts[b].artist = (IF c \in ids THEN puts[c] ELSE table[c]).artist
      /\ Blocks(IF c \in ids THEN puts[c] ELSE table[c])
    => ~Meet(puts[b], IF c \in ids THEN puts[c] ELSE table[c])

\* One statement: it fails on a committed row in the way, waits for one that
\* is not committed, and has no row to write once its WHERE clause is false.
Writes(w, ids, puts, allowed) ==
  /\ \A b \in ids : ~RowLocked(b, w)
  /\ IF ~allowed \/ ~Fits(puts, ids, diary) THEN Leaves(w)
     ELSE /\ \A x \in Writer \ {w} : Written(x) => Fits(puts, ids, Sees(x))
          /\ Sets(w, [writer[w] EXCEPT !.stage = "check", !.ids = ids,
                     !.puts = [b \in Booking |-> IF b \in ids THEN puts[b] ELSE Nowhere]])
  /\ UNCHANGED <<diary, lapsed, crossed>>

Insert(w) ==
  LET r == writer[w]
  IN /\ In(w, "write") /\ r.errand = "insert"
     /\ \E b \in Booking :
          /\ diary[b].status = "none"
          /\ Writes(w, {b},
               [Unsent.puts EXCEPT ![b] = [status |-> "held", artist |-> r.to, store |-> r.store,
                                           start |-> r.at, client |-> r.client]], TRUE)

MoveBooking(w) ==
  LET r == writer[w]
  IN /\ In(w, "write") /\ r.errand = "move"
     /\ Writes(w, r.ids, [b \in Booking |-> [diary[b] EXCEPT !.start = r.at]],
               \A b \in r.ids : diary[b].status = "standing")

\* WHERE id = ANY(...), and no more.
ShiftBookings(w) ==
  LET r == writer[w]
  IN /\ In(w, "write") /\ r.errand = "shift"
     /\ Writes(w, r.ids, [b \in Booking |-> [diary[b] EXCEPT !.start = @ + r.at]], TRUE)

ReassignBooking(w) ==
  LET r == writer[w]
  IN /\ In(w, "write") /\ r.errand = "reassign"
     /\ Writes(w, r.ids, [b \in Booking |-> [diary[b] EXCEPT !.artist = r.to]],
               \A b \in r.ids : diary[b].status = "standing" /\ diary[b].artist = r.from)

\* travelClash, with the map of the artist it was worked out for: a store
\* that is not in it needs no time.
Clashes(w) ==
  LET r == writer[w]
      t == Sees(w)
  IN \E b \in r.ids, c \in Booking :
       /\ t[c].artist = t[b].artist /\ t[c].store # t[b].store
       /\ t[c].store \in WorksAt[r.roads] /\ Road[r.roads] > 0
       /\ Blocks(t[c])
       /\ TooFar(t[b], t[c], Road[r.roads])

CheckRoad(w) ==
  /\ In(w, "check")
  /\ IF Clashes(w) THEN Leaves(w) ELSE Comes(w, "commit")
  /\ UNCHANGED <<diary, lapsed, crossed>>

\* A request that moves one of these bookings is under way.
PassesAMove(w) ==
  /\ writer[w].errand = "reassign"
  /\ \E x \in Writer \ {w} : /\ writer[x].errand \in {"move", "shift"}
                            /\ writer[x].ids \cap writer[w].ids # {}

Commit(w) ==
  /\ In(w, "commit")
  /\ diary' = Sees(w)
  /\ Leaves(w)
  /\ crossed' = (crossed \/ PassesAMove(w))
  /\ UNCHANGED lapsed

\* A lost connection, a restart: nothing was written.
Rollback(w) ==
  /\ ~In(w, "idle")
  /\ Leaves(w)
  /\ UNCHANGED <<diary, lapsed, crossed>>

-----------------------------------------------------------------------------
(* What happens to a booking beside them.                                  *)

HoldLapses(b) ==
  /\ diary[b].status = "held" /\ b \notin lapsed
  /\ lapsed' = lapsed \cup {b}
  /\ UNCHANGED <<diary, writer, crossed>>

\* An UPDATE waits for a transaction that wrote the row.
Unlocked(b) == \A w \in Writer : ~(Written(w) /\ b \in writer[w].ids)

\* Mutant: a status the column's CHECK does not list.
Requested(e) == [e EXCEPT !.status = "requested"]

Submitted(e) == [e EXCEPT !.status = "standing"]

SubmitGuestBooking(b) ==
  /\ diary[b].status = "held" /\ b \notin lapsed /\ Unlocked(b)
  /\ diary' = [diary EXCEPT ![b] = Submitted(@)]
  /\ UNCHANGED <<lapsed, writer, crossed>>

\* Swept, released, cancelled, expired; a shift that was planned with the
\* booking still finds its artist in the row.
EndBooking(b) ==
  /\ Blocks(diary[b]) /\ Unlocked(b)
  /\ diary' = [diary EXCEPT ![b].status = "over"]
  /\ lapsed' = lapsed \ {b}
  /\ UNCHANGED <<writer, crossed>>

WriterStep(w) ==
  \/ \E a \in Artist, s \in Store, t \in Opening, c \in Client \cup {NoClient} :
       ReadToInsert(w, a, s, t, c)
  \/ \E b \in Booking, t \in Opening : ReadToMove(w, b, t)
  \/ \E a \in Artist, s \in Store, d \in Distances : ReadToShift(w, a, s, d)
  \/ \E b \in Booking, a \in Artist : ReadToReassign(w, b, a)
  \/ FindArtist(w) \/ LockArtist(w) \/ LockSecond(w) \/ CountHolds(w)
  \/ Insert(w) \/ MoveBooking(w) \/ ShiftBookings(w) \/ ReassignBooking(w)
  \/ CheckRoad(w) \/ Commit(w) \/ Rollback(w)

DiariesNext ==
  \/ \E w \in Writer : WriterStep(w)
  \/ \E b \in Booking : HoldLapses(b) \/ SubmitGuestBooking(b) \/ EndBooking(b)

DiariesSpec == DiariesInit /\ [][DiariesNext]_diaryVars

-----------------------------------------------------------------------------
(* Properties.                                                             *)

\* Types: the table and the requests keep their shape.
DiariesTypeOK ==
  /\ diary \in [Booking -> Entry]
  /\ lapsed \subseteq Booking
  /\ writer \in [Writer -> Request]
  /\ crossed \in BOOLEAN

OnTheRoad(b, c) ==
  /\ Blocks(diary[b]) /\ Blocks(diary[c])
  /\ diary[b].artist = diary[c].artist /\ diary[b].store # diary[c].store
  /\ TooFar(diary[b], diary[c], Road[diary[b].artist])

\* Two appointments of an artist at different stores leave her the road
\* between them, though the exclusion constraint cannot see it and each
\* request judged the diary before it had her lock (writeBookingTx,
\* travelClash), as long as no booking changes artist under a request that
\* moves it.
RoadIsKept == crossed \/ \A b, c \in Booking : ~OnTheRoad(b, c)

\* A network never holds more of one artist's slots than the cap: the count
\* and the INSERT are two statements, under one lock (CreateGuestHold).
HoldsAreCapped ==
  \A a \in Artist, c \in Client : Cardinality(HoldsOf(diary, a, c)) <= MaxHolds

\* The lock a request is waiting for.
Wants(w) ==
  CASE In(w, "lock") -> {FirstOf(writer[w])}
    [] In(w, "second") -> {SecondOf(writer[w])}
    [] OTHER -> {}
WaitsFor(w, x) == w # x /\ Wants(w) \cap writer[x].locks # {}

\* No requests wait for one another's artists in a circle, however owners
\* hand bookings to and fro (ReassignBooking: "in a fixed order").
NoCircularWait ==
  \A S \in (SUBSET Writer) \ {{}} : \E w \in S : \A x \in S : ~WaitsFor(w, x)

\* "Every write to an artist's diary takes one per-artist transaction lock,
\* and re-checks travel inside the transaction ... The second writer waits,
\* then sees the first": the road is always kept.
RoadIsAlwaysKept == \A b, c \in Booking : ~OnTheRoad(b, c)

=============================================================================
