# Formal models of the B-Edge API

B-Edge is a Go service over PostgreSQL: HTTP handlers call a domain service,
the service calls a repository, the repository runs SQL, mostly one statement
per call with no transaction around several calls. Beside the handlers a few
background workers poll the same tables. Its correctness therefore hangs on
what can happen *between* two statements, and that is what the modules here
describe: an action is one SQL statement, or one transaction, or a read with
the judgement made on it, and everything else may come in between.

## The system

| Part | State it keeps | Operations | Hard behaviour | Module |
|---|---|---|---|---|
| booking lifecycle (`internal/booking`: service, holds, reschedule, shift, noshow) | `bookings`: status, times, hold and deposit deadlines, deposit, moves | hold, create, submit, approve, deposit, confirm, cancel, refund, complete, no-show, reschedule, shift a day, three expiry sweeps | handlers judge a row they read earlier; some UPDATEs repeat the judgement and some do not; the exclusion constraint is the only guard against double booking | `BookingLifecycle`, `BookingMatrix` |
| artists' diaries (`repository.go`, `reassign.go`, `travel.go`) | bookings of several artists at several stores, advisory locks | hold, book, move, shift, reassign | lock order, a check of the road under the lock, a booking that changes artist | `Diaries` |
| slot list (`slots.go`, `occupancy.go`, `pkg/openinghours`, `pkg/schedule`, `artist/rota.go`) | hours, exceptions, rotas | list times, edit hours and rotas | intervals, roads, midnight, a clock that moves between two lists | `Slots` |
| notification worker (`notification/worker.go`) | `notifications`: status, attempts, lease | claim, send (WhatsApp, SMS), record, alert | several replicas, no lock while sending, timeouts in doubt, lost recordings, crashes | `Outbox` |
| delivery reconciler (`notification/delivery.go`) | `delivery_status`, `delivery_checked_at` | poll the provider | rows that fail stay at the head | `Delivery` |
| waitlist (`waitlist.go`, `waitlist_worker.go`) | `waitlist_entries`: status, confirm deadline | join, cascade, sweep | four statements without a transaction, concurrent cascades | `Waitlist` |
| reminders (`reminder_worker.go`) | reminder rows in `notifications` | withdraw, insert | bookings move and end around the sweep and around the sending | `Reminders` |
| one-time codes (`customerauth`, `pkg/otp`, `artist/phoneverify.go`) | codes, attempts, verified phones, accounts | request, compare, sign in, verify | racing verifications, limits counted in one statement and spent in another | `OneTimeCodes` |
| sessions (`domain/auth`, `customerauth`, `middleware/auth.go`) | users, refresh tokens, reset links | sign in, refresh, log out, freeze, delete, set a password | revocation and suspension against requests in flight | `Sessions` |
| membership (`membership`, `onboarding`, `admin`) | `artists.salon_id`, `salons.owner_id`, invitations, queued messages | invite, answer, approve, remove, leave, transfer | racing answers, transfer against departure | `Membership` |
| reviews (`review`) | reviews, two cached averages | write, hide, show, delete | READ COMMITTED recounts that overlap | `Reviews` |
| media (`media`) | `display_order`, cover | add, delete, reorder, set cover | shifting places under concurrent uploads | `Gallery` |
| earnings (`earnings`) | none (sums over bookings) | totals, rows, days, comparison | who is still a member when it is asked | `Earnings` |
| calendar files (`calendar`) | `calendar_sequence`, token | serve a file; the phone opens it | files opened late, twice, out of order | `Calendar` |
| shop and promo codes (`product`, `promo`, `booking`) | stock, orders, redemptions | check out, retry, cancel, release, book with a code | the last unit, retries, per-customer caps | `Shop` |
| billing (`billing`, `pkg/subscription`, `middleware/billing.go`) | subscription, invoices | look, issue, submit, confirm, void, edit | invoices made by whoever looks, confirmed in any order | `Billing` |
| menu (`offering`, `artist/service.go`, `pkg/pricing`, `pkg/discount`) | services, offerings, quotes | edit price, deposit, promotion; quote | edits in parts, checked against an earlier read | `Menu` |

How they interact: a handler that frees time (cancel, no-show, early
completion, the expiry sweeps) calls the waitlist cascade; handlers, cascades
and the reminder sweep insert into `notifications`; the notification worker
empties it and the reconciler asks what became of each row; the reminder sweep,
the slot list, the earnings pages and the calendar files read `bookings`;
bookings and orders redeem the same promo codes; membership decides whose
offerings and earnings count. All calls after a handler's own UPDATE are best
effort: their failure is only logged.

Two pairs share a table and are modelled apart: `BookingLifecycle` has one artist,
the clock and every status; `Diaries` has several artists and stores, the locks
and the statements inside the transactions, with the statuses reduced to held,
standing and over. A database statement is atomic in both.

## Modules

### BookingLifecycle and BookingMatrix

`row[b]` is a row of `bookings` reduced to what the handlers judge: status,
start, `blocked_until`, whether the customer is still the guest placeholder,
`held_until`, `deposit_deadline`, whether a deposit is asked for and recorded,
and the count of moves. `req[r]` is what an HTTP request has read and carries
to its write. `Read...` is a handler up to its UPDATE, `Write...` the UPDATE
with the WHERE clause the repository really gives it; a handler whose UPDATE
repeats the whole judgement is one action (`Confirms`, `MarkRefunded`,
`ReleaseGuestHold`). `Commits` is the exclusion constraint: a statement that
would break it changes nothing. `now` is one clock for server and database.
`landed` is a history variable: bookings whose artist confirmed a deposit that
was asked for at that moment. `BookingMatrix` is the abstract state machine of
one status per booking, from the grid of `statematrix_test.go`;
`FollowsMatrix` is the refinement.

Left out here: prices (in `Menu`), codes (`Shop`), travel, several artists and
reassignment (`Diaries`), opening hours (`Slots`; here `Grid` is an abstract set
of starts in a trading day), messages and audit records.

### Diaries

`writer[w]` is a request with its stage: what it read before the transaction, the
advisory locks it holds, the rows it has written and not committed. `FindArtist`,
`LockArtist`, `LockSecond`, `CountHolds`, the write, `CheckRoad` and `Commit` are
the statements in the order of the repository. `Writes` is PostgreSQL's behaviour
at an exclusion constraint: a committed conflicting row fails the statement, an
uncommitted one makes it wait. `crossed` records that a booking changed artist
under a request that was moving it, the one hole of the locking.

### Slots

The list as the code computes it (`Slots`, `FreeWithin`, `Occupied`), beside the
set of minutes it stands for (`Trading`, `Working`, `Busy`). The edits of hours,
exceptions, rotas and time off are actions, so the list is checked over whatever
they can leave.

### Outbox and Delivery

A row keeps status, attempts and what is left of its lease; a worker keeps the
claimed rows it has still to send (`batch`), the one it has sent and not
recorded (`hand`) and the time since its claim (`spent`). `FetchPending` is the
single UPDATE with `SKIP LOCKED`. A provider call is accepted, refused or times
out; one that timed out counts as failed and may have been delivered. That a
batch takes less than the lease is the assumption `BatchTime < Lease`: ten
rows of at most two calls of ten seconds against five minutes (the statements
between them are not bounded by the code). `arrived` and `doubt` are history
variables. `Delivery` keeps only the order in which rows are asked about: the rows
never asked about (`unasked`), the others (`asked`) and how many of the last of
these are still within `deliveryRecheckAfter` (`fresh`).

### Waitlist

`cascade[c]` is the statement of `NotifyNextWaitlistEntry` a cascade is about
to run, and the entry it found. `Fails` stops a cascade between two statements.
Whoever is told books like anybody else, and that touches no entry: the booking
is no action here. `told` is a history variable. A cascade may be slow, slower
than a confirm window even; nothing in the code bounds it.

### Reminders

Per booking its status ("live" is approved, deposit_paid or confirmed), start
and when it last changed; per booking one reminder row with a serial number, so
that a recording by id misses a row that was withdrawn and written again. The
sweep's statements are steps. A unit of time holds a whole sweep and finishes
what was claimed: sweeps run every fifteen minutes, a batch takes minutes.

### The others

`OneTimeCodes` follows one phone number, its codes and the accounts that hold it
one after the other. `Sessions` is the refresh tokens of both kinds of user and
the check each signed-in request passes; suspension is an operator's statement,
no route does it. `Membership` is the roster of one salon. `Reviews` keeps a
cached average as the set of reviews it was taken over, and a transaction's
snapshot statement by statement. `Gallery` is one ordered list of photos.
`Earnings` is a function of bookings and memberships. `Calendar` adds the phone,
which is external. `Shop` reads in statements of their own and writes an order in
one transaction. `Billing` has one subscription and invoices named by the start
of their period. `Menu` is one service, one member's price for it and the quote a
booking stores.

## Runs

`CHECK_DEADLOCK FALSE` everywhere: the clocks and counters are bounded, and the
tables are at rest when nobody acts; `NoCircularWait` says what a deadlock of the
locks would be.

| Run | Question and answer |
|---|---|
| `bookings` | Does any interleaving of two requests, the sweeps and the clock break the money or a guest's hold, or let two standing appointments overlap? No: the constraint covers every status that stands. |
| `protocol` | Does the concurrent table implement the written state machine when the two unguarded endpoints are not called? Do holds and unpaid approvals end by the expiry worker alone? Yes, both. |
| `mark_revives` | An endpoint that writes through `UpdateBookingStatus` brings an ended booking back. |
| `cancel_loses_deposit` | A deposit confirmed during a cancellation is not owed back. |
| `diaries` | Is the road between two stores kept, the cap on a network's holds, the order of the locks? Is the slot list exactly the times the rules allow? Yes; the road, as long as no booking changes artist under a move. |
| `road_forgotten` | And if one does? Then it is moved into the other artist's diary without her lock or her road. |
| `today_refused` | Is a time on the list accepted by the hold? Not today's: the list is counted from the clock. |
| `outbox` | Is a row ever in two hands or sent twice without doubt? No. Does every message that does not panic settle, and every verdict arrive? Yes. |
| `waitlist` | Is anybody overtaken, whatever interleaves or fails? No. Does every offer end and, but for a failure, is followed by the next? Yes. |
| `accounts` | Do codes, tokens and links give way to more requests than raced for them; does a code sign in anybody but a customer; does a suspended account wind down? No, no, yes. |
| `salon` | Roster, reviews, gallery, reminders, earnings pages, calendar files, one at a time: is each consistent under its concurrency? Yes, within the conditions each property names. |
| `trade` | Stock, the one-use code, paid months, the order of bills, the quote, who sells what: yes. |

The runs that end in a violation each show one disagreement between the code
and a sentence of its comments or tests; `PROJECT.json` quotes it.

### Bounds, and why they are enough

A race of read and write needs two requests on one row, and a third actor is a
sweep or the clock; so every run has two requests (three cascades in `waitlist`).
Parts that share no state are explored side by side in one run, one at a time
(`focus` in `MCSalon`, `MCTrade`, `MCDiaries`, `MCOutbox`): a step of one changes no
variable of another, so nothing is lost. Some parts are looked at from several
sides, each a smaller instance with other endpoints; the MC module says which.

- `bookings`: one booking under every endpoint, or two that are placed, moved and
  shifted in the first two units of time (`MCBooking!WithinInstances`, an
  action constraint). Times run to 4 so that a hold, a deadline, a start and an
  end can fall before or after any step; every duration is 1. `protocol` runs to
  5, where an end must be reached by waiting, with one booking.
- `outbox` has three rows, the oldest of which panics and comes back in front of
  the others, a claim of two, three attempts, a lease of 2 against a batch of 1
  and two faults; three messages for the reconciler, of which one always fails, a
  batch of two.
- `waitlist`: two requests, the sweep, three entries, three slots, one failure.
- `accounts`: three codes for one account or two for two; two tokens, three links,
  one customer and one member; limits of 1, which two requests can overrun.
- `salon`: four people, three invitations, a ceiling of two; two reviews of two
  artists; three photos; one booking that moves once across a reminder time; two
  bookings, two salons and three months of unequal length for the pages; one
  booking with three files for the calendar.
- `trade`: two products, three sales, two checkouts; months of 3 to a horizon of
  7; amounts of 0 and 3 cents with fees of 0 and 4, so that a fee may exceed a
  price and a half may round.
- `diaries`: two bookings, two artists, one of them at two stores a unit apart,
  two requests, three hours; moves, shifts and holds apart. The slot list is
  checked for one day of 6 ticks with all small hours, exceptions and rotas, and
  with two appointments.

### Fairness

`FairSpec` of `BookingLifecycle` assumes that time passes and that the two
statements of the expiry worker are run: `ExpiryWorker.Start` runs them every
minute and `superviseWorker` restarts it after a panic. No customer, artist or
request is assumed to act. `Outbox` assumes each worker's loop goes on and time
passes; crashes and failed recordings are bounded by `MaxFaults` there.
`Delivery` assumes its loop runs; lookups that always fail (`Lost`) are fewer than
a batch. `Waitlist` assumes the sweep runs and that a cascade that does not fail
goes on to its next statement. The bounded clock of `protocol` can stop after
`MaxTime`; every deadline a row can carry lies before that bound in that run.

## Proofs

What a run shows on a small instance a theorem here states for every value of the
constants the assumptions allow. Each proof follows the same line: an inductive
invariant, that the initial states have it, that every action keeps it, that it
implies the property. A reader should start at the definition of that invariant;
the rest is one lemma per action. `PROJECT.json` lists every theorem with the
property it states.

| Module | About | Inductive invariant |
|---|---|---|
| `BookingProofs` | `BookingLifecycle`, and its refinement of `BookingMatrix` | `IInv` |
| `OutboxProofs` | `Outbox`, `Delivery`, and both as `MCOutbox` composes them | `IInv`, `DeliveryInv` |
| `WaitlistProofs` | `Waitlist` | `IInv` |
| `DiariesProofs` | `Diaries`, `Slots`, and both as `MCDiaries` composes them | `IInv`, `SlotsInv` |
| `SalonProofs` | `Membership`, `Gallery`, `Calendar`, `Reviews`, `Reminders`, `Earnings`, composed in `MCSalon` | `RosterInv`, `GalleryInv`, `CalendarInv`, `ReviewsInv`, `RemindersInv`, `EarningsTypeOK` |
| `TradeProofs` | `Billing`, `Menu`, `Shop`, composed in `MCTrade` | `BillingInv`, `MenuInv`, `ShopInv` |
| `AccountsProofs` | `OneTimeCodes`, `Sessions`, composed in `MCAccounts` | `CodesInv`, `SessionsInv` |
| `FoldProofs` | induction over finite sets and naturals; folds and sums, for `DiariesProofs` and `SalonProofs` | none: lemmas |

### Bookings, messages, waitlist, reminders

`BookingProofs` proves, for every table, set of requests, set of endpoints and
setting of the times allowed by `ParametersAreTimes`: type correctness,
`RefundBacked`, `ServedWasConfirmed`, `MoveLimit`, `NoDoubleBooking`,
`GuestHoldIsFinal`, and `FollowsMatrix` when `submit` and `mark` are not among
the endpoints. `RowsOK` says what a status implies about the other columns of its
row. It is not inductive alone: a write with a weak WHERE clause relies on what its
request read. `CarriedOK` says what of that reading is still true, whatever came
between: the row exists, a refund carried by a cancellation is still backed (no
statement takes a recorded deposit off a row), and a submit or a mark carries a
row that already has a customer. `LifeStep` classifies how a step may change a
status; the action property and the refinement follow from it. `NoDoubleBooking`
needs none of this: `DisjointStep` shows that each step either goes through
`Commits` or only releases time.

`OutboxProofs` covers any number of rows and workers and any lease longer than a
batch; that one inequality, an ASSUME of the module, is all the code has instead of
a lock. The invariant ties the two clocks together: a row a worker holds still
waits, has the attempts the worker read, and has at least as much of its lease left
as the batch has not used (`note[n].lease + spent[w] >= Lease`). So a held row is
never claimable (`HeldIsLeased`), rows are in one place (`Apart`), and the
recordings, which name only the row, always find it as it was read.
`ResentOnlyInDoubt` needs a stronger form for rows that nobody holds: what arrived
is all in doubt. Of `Delivery` it proves, for any messages and any batch, that a
sweep holds each row once and only rows that are still due (`AskedInTurn`), however
many were handed over or lookups failed since the query. That is what the types
rest on: a row that is recorded leaves the part of the order that is due
(`OthersStayDue`), so the part held back stays the end of it.

`WaitlistProofs` proves `NobodyOvertaken` for any number of cascades at once and
any failures. `MarkNotified` does not ask the status again; what saves it is that
entries join in order and nobody waits twice, so nobody ahead of the entry a
cascade carries can have started to wait (`Carries`).

Of reminders `SalonProofs` proves `RemindedUntilTried` and that first tries are fresh. What
is waiting was judged by the last sweep, so it can be stale only for a booking that
changed since (`WaitingIsFresh`); the sweep of the last unit before a reminder is
due finds its booking settled and leaves a row for it (`LastSweepInserts`), which
nothing withdraws any more (`DueIsThere`). `FailedCounted`, `ClaimsAreTries` and
`UntriedWaits` say what a row's status tells of its tries.

### Diaries and the slot list

A request that has written holds the lock of the artist it writes for (`Shape`),
so nobody else writes into her diary (`Apart`), and what the request found there -
no overlap (`Fitting`), the road (`Checked`), room under the cap (`Room`) - is
still so when it commits. The lock is on the right artist as long as no booking
changed hands under a request that moves it (`Straight`); that exception is the
`crossed` of `RoadIsKept`, and `road_forgotten` shows it is needed.
`AppointmentsNeverOverlap` needs `Put`, the rows of a request that are not committed
yet. `LocksNeverDeadlock`: in a circle of waiters each holds a smaller artist than
she waits for, and a finite set of artists has a largest one.

`ListStaysExact` proves `ListIsExact`, in two halves. `TimesAreExact`: over a day of any length, any hours, exceptions, rotas, roads and
agenda, the walk of `GetAvailableSlots` gives exactly the times the rule allows.
Both sides are reduced to the same two things: one window (`SheWorks`: opening
hours, exceptions, rota and time off resolve to one span, whichever row comes
first), and one span about each appointment (`BlockedExactly` for the intervals the
code casts, `BusyExactly` for the minutes of the reference). That needs
`SlotsInv`: spans of a rota and of a date are the right way round (store hours
need not be), an appointment takes time, and cleanup comes after it. It also needs
the pad of the day's read to be as long as any road and cleanup (`PadParameters`):
`dayReadPad` is twelve hours, `buffer_min` at most two by the table's CHECK, a road
at most eight by the form's `max=480`. `OnlyCompletedRefuses` follows: a listed
time meets no appointment that blocks, so the constraint and the road check refuse
it only for a status the list leaves out.

`GapsAreFree`: `Merged` is one pass over the blocking intervals in order of their
start. `Merges` says what it has after any number of them: stretches in order,
apart, that cover exactly those intervals, the last of which started no later than
any interval still to come; so an interval either meets the last stretch or starts
a new one, and nothing earlier (`ExtendMerges`). It holds whichever interval comes
first of those that start together, which is what `sort.Slice`, an unstable sort,
leaves open. `Found` says the same of the walk of `FreeWithin` along the stretches:
what it found is what they leave of the window up to the cursor, and a stretch that
starts after the window ends it because none starts before it any more
(`FoundNext`). `OccupiedCovers` is where the pad is needed: a read of the day alone
misses the road after an appointment of the night before.

### Salon

`RosterInv` says what a request on its way carries (`Carries`): the invitation it
read, to whom it was addressed (`Addressed`), and, past the transaction that joins,
an invitee who is on the roster, where a row never disappears. The owner stays a
member because whoever is handed the salon is one and nobody who is being taken
out owns it or is being handed it (`Handing`). `GalleryInv`: the cover sits at place
0 and no photo has a place above it. `CalendarInv`: of one booking's files the same
number means the same hour and a higher number a later version (`Told`), and no
file is ahead of its row (`Behind`). `ReviewsInv`: a transaction that met no other
is the only one there is (`Alone`), so what it counts is what it leaves (`Counts`).

`PagesAlwaysAgree` proves `PagesAgree` of any bookings, prices and calendar: a sum
over the bookings that count, taken by member or by day, is the sum of its parts
because each of them has one member and one day (`SumByKey`, `CountByKey`); and a
period shares no booking with the one it is compared with, which ends where it
starts or earlier (`MonthBefore`, `PeriodsDoNotMeet`).

### Folds

A fold of the community modules is the value of a recursive function at a set or
sequence, and a recursive function is a CHOOSE: nothing is known of it before some
function is shown to satisfy its equation. `FoldProofs` states induction over a
finite set of a set `G` of the instances that hold (`SetInduction`), not of a
predicate, so that it can be cited: a set can be instantiated where an operator
cannot. `FoldExists` builds the function by the number of elements; the merge, the
walk and the sums are unfolded with it (`MergerExists`, `WalkerExists`,
`AdderExists`). `SumOfParts`, that a sum over a finite set is the sum over the parts
its elements' keys divide it into, carries the pages.

### Trade

`BillingInv`: unless an administrator set a date, what a request has read may be old
but is never wrong. A period ends where an invoice that was made ends, invoices
never go away, and a row an edit will write back has the dates that stand
(`Dated`, `Follows`). `MenuInv`: `AddsUp` is kept by the quote whatever the menu is,
and only a member has an offering. `ShopInv`: an order that stands took exactly its
lines from a shelf whose tracking was not switched on since (`Took`), so what a
cancellation puts back is no more than that; and a code's redemption is released
only by what no longer stands (`Redeemed`).

### Accounts

Nothing holds a check and what it allows together, so limits are overrun; by no
more than the requests that had passed the check. The invariants count them: what
was done and what requests in flight are about to do stays within the limit and the
number of requests (`Limits`, `Issued`; `Exchanged`, `Closed`). A step of a request
moves it from one side of the sum to the other. `SignInsAreCustomers` needs that a
request about to open a session has an account that is, or was, a customer's
(`Customers`).

### Assumptions

The theorems rest on the ASSUMEs of the modules, which TLC evaluates in every run:
durations and bounds are natural numbers, sets of requests, artists, photos,
invitations and codes are finite, a lease is longer than a batch, the sentinel
values differ from the values they stand beside. Two restrict more than types.
`SlotParameters` has UTC midnight of a date fall inside the local day
(`Zone \in 0 .. Day - 1`): the salons are east of Greenwich. `PadParameters` is
explained above. `EarningsParameters` has some months, and finitely many: the
model's calendar has a first month, and a period that starts with it has nothing in
the calendar to be compared with, so the comparison is asked of later ones.

Some definitions are written for the provers without saying anything else: the sums
of `Earnings` are `SumFunction` of the community's `Functions`, `FreeWithin` of
`Slots` skips late stretches in `Gap`, where the Go loop has its `break`, and
`Derive` of `Billing` and `RowAfter` of `Reviews` are IF chains where they were
CASE, with the same order of conditions as the Go code.

## Disagreements without a run

TLC found these on the same models while they were written, with the property
named here, or they were met while reading; they are kept as notes.

Bookings
- A hold that expires between `SubmitBooking`'s read and its UPDATE comes back as
  pending, by the same unguarded statement as `mark_revives` (`repository.go:1105`).
- The confirmations stamp `deposit_paid_at` where no deposit was asked for, and
  the no-show rule may set one afterwards (`noshow.go:43`): a cancellation then
  owes money nobody sent.
- A deposit deadline survives the move of its appointment (`repository.go:1131`).
- A booking moved between `CompleteBooking`'s or `MarkNoShow`'s read and its UPDATE
  ends before its new start (`repository.go:1791` against `service.go:1158`).
- A confirmed appointment that is under way can be moved (`reschedule.go:152`
  against `service.go:976`).
- A day shift moves planned bookings that have ended since, locks only the first
  booking's artist, and sent twice shifts twice, the second time past the clock
  (`repository.go:1319`). `announceShift` queues its messages for `uuid.Nil`
  (`shift.go:324`).
- The no-show deposit, half of the final price, is above the price when the fee
  is, and the table's CHECK refuses the row.

Slots
- The exclusion constraint also covers `completed` and `refund_due`, which
  `BlockingStatuses` leaves out, so times are offered that the insert refuses
  (`slots.go:269`).
- A reschedule asks for the list of the UTC date and keeps the old length; the
  comparison of local days is wrong west of Greenwich (the model assumes
  `Zone >= 0`); exceptions of a whole salon can be inserted twice, NULL stores
  being distinct for UNIQUE; nothing writes `artist_store_buffers`.

Messages
- A row that panics does not stop on its own (`EveryMessageSettles` for `Poisoned`).
- The waitlist stops when a cascade fails half way; two slots of one day leave two
  entries notified at once, or one told twice (`repository.go:1376`, `:1443`); and
  since no booking touches an entry, the next in line is told of a slot that was
  taken (`repository.go:1384`).
- A reminder whose first try failed is tried again after its booking ended
  (`EveryTryIsFresh`); a morning reminder is not withdrawn when the appointment
  moves earlier on its day (`MorningIsActionable`); one that moves after its
  reminder was tried gets no other (`reminder_worker.go:142`), one that moves while
  it is being sent gets two (`:253`).
- Twenty-five rows whose lookups always fail starve the reconciler
  (`delivery.go:59-64`); of two instances the one with the older answer may write
  last.

Accounts and people
- customerauth's refresh says it mirrors auth's, and loads a suspended customer all
  the same (`RefreshMirrorsAuth`).
- A removed member can never join again: any `artists` row refuses. An appointment
  may be booked between the check and the removal (`NoAppointmentEvaporates`,
  BR-5). The ceiling does not count accepted members who wait for approval;
  `SetInvitationStatus` overwrites whatever the row says; the expiry that `Invite`
  does lazily leaves the queued link in its message.
- Two recounts of one salon that overlap each miss the other's review
  (`StoreAccountsForAll`, `review/repository.go:207-209`).
- Two uploads that read one maximum tie (`NewPhotoIsLast`, `media/service.go:188`);
  `SetMediaServices` refuses duplicate ids although its comment speaks of ON
  CONFLICT.
- A cancellation leaves `calendar_sequence`, so the file that should remove the
  event is ignored (`WithdrawalTaken`, `calendar/handler.go:97-99`).
- "The salon total is the sum of every artist's own page" is false for an artist
  who works in two salons; a no-show counts at its whole price
  (`earnings/model.go:24-25`); the overview reads in four statements.

Trade
- Of two lines of one product, a cancelled order returns one unit
  (`StockReturned`, `product/repository.go:553`); a cancelled order never gives its
  code back; a retry that races its original is told "sold out"; the owner's
  absolute edit of stock loses an update; checkouts in flight overrun
  `max_redemptions`; orders that list products in opposite order may deadlock in
  PostgreSQL.
- A next invoice is issued while the last is unpaid (`OneOutstanding`);
  `UpdateSubscription` writes back a whole row it read earlier.
- Two percentage rules differ by a cent with their order; automatic rules are
  never applied. A retired payout account comes back by ON CONFLICT.

## What is only model-checked, and what is not modelled

Liveness (`NothingBlocksForEver`, `EveryMessageSettles`, `VerdictsArrive`,
`OffersEnd`, `QueueMovesUnlessFailed`) stays with TLC: fairness and ENABLED are out
of the prover's reach. Every safety invariant and action property that a passing
run checks is a theorem, for every value of the constants.

Not modelled: read-only domains (discovery, share, report), single-row handlers
(clients, artist profiles, payouts, onboarding's own, admin), audit, inbox and
activity records, uploads and the sweep of orphaned files, configuration,
parsing and formatting: they keep no state that two actors dispute. Of the
modelled parts, `PROJECT.json` says what is left out of each.

## Plan

1. A composition of `Waitlist` with `BookingLifecycle`, where a freed slot is a step
   of the booking and an offer's end another.
2. What the notes above leave open: when the code changes one of them, its
   property becomes a run.
