------------------------------ MODULE Earnings ------------------------------
(***************************************************************************)
(* What a salon and its artists are told they earned (internal/earnings):  *)
(* the totals of a period, the row of each artist, the days of an artist's *)
(* own page, and the period a period is compared with - over bookings that *)
(* end, pass from one artist to another, and outlive the membership of the *)
(* artist they were made with.                                             *)
(*                                                                         *)
(* A unit of time is half a day; a day and a month begin at local          *)
(* midnight, which is what the reporting calendar's time zone is for.      *)
(***************************************************************************)
EXTENDS Integers, FiniteSets, Functions

CONSTANTS
  Salon,
  Worker,      \* the artists
  Job,         \* bookings
  Nobody,      \* the salon, or the booking, that is not there
  Costs,       \* the final prices
  Half,        \* the instants a booking may start at
  MonthStart   \* the first instants of months, the one after the last included

ASSUME EarningsParameters ==
  /\ Costs \subseteq Nat /\ Half \subseteq Nat
  /\ MonthStart \subseteq Nat /\ \A m \in MonthStart : m % 2 = 0
  /\ MonthStart # {} /\ IsFiniteSet(MonthStart)
  /\ Nobody \notin Salon
  /\ IsFiniteSet(Job) /\ IsFiniteSet(Worker)

VARIABLES
  job,      \* the table bookings
  works     \* artists.salon_id

earningsVars == <<job, works>>

-----------------------------------------------------------------------------

RevenueStatuses == {"completed", "no_show"}
CancelledStatuses == {"cancelled", "refund_due", "refunded"}
JobRow == [salon : Salon, by : Worker, start : Half, final : Costs,
           status : {"confirmed"} \cup RevenueStatuses \cup CancelledStatuses]

EarningsInit ==
  /\ job = [j \in Job |-> Nobody]
  /\ works \in [Worker -> Salon]

Made == {j \in Job : job[j] # Nobody}
InPeriod(from, to) == {j \in Made : from <= job[j].start /\ job[j].start < to}
BySalon(s) == {j \in Made : job[j].salon = s}
ByArtist(w) == {j \in Made : job[j].by = w}
Earned(jobs) == {j \in jobs : job[j].status \in RevenueStatuses}
Cancelled(jobs) == {j \in jobs : job[j].status \in CancelledStatuses}
SumOf(jobs) == SumFunction([j \in jobs |-> job[j].final])

Figures(jobs) ==
  [earned |-> SumOf(Earned(jobs)), bookings |-> Cardinality(Earned(jobs)),
   cancelled |-> Cardinality(Cancelled(jobs))]

-----------------------------------------------------------------------------
(* The bookings.                                                           *)

Make(j, w, start, cost) ==
  /\ job[j] = Nobody /\ works[w] # Nobody
  /\ job' = [job EXCEPT ![j] = [salon |-> works[w], by |-> w, start |-> start,
                                final |-> cost, status |-> "confirmed"]]
  /\ UNCHANGED works

Finish(j, status) ==
  /\ j \in Made
  /\ \/ job[j].status = "confirmed" /\ status \in RevenueStatuses \cup {"cancelled", "refund_due"}
     \/ job[j].status = "refund_due" /\ status = "refunded"
  /\ job' = [job EXCEPT ![j].status = status]
  /\ UNCHANGED works

\* Only to a colleague, and only while it stands.
Reassign(j, w) ==
  /\ j \in Made /\ job[j].status = "confirmed" /\ works[w] = job[j].salon
  /\ job' = [job EXCEPT ![j].by = w]
  /\ UNCHANGED works

\* DetachArtist: her bookings keep pointing at her, and at the salon.
Detached(w) ==
  /\ works[w] # Nobody
  /\ works' = [works EXCEPT ![w] = Nobody]
  /\ UNCHANGED job

-----------------------------------------------------------------------------
(* The pages.                                                              *)

GetSalonTotals(s, from, to) == Figures(BySalon(s) \cap InPeriod(from, to))

\* Mutant: the members only.
Members(s, from, to) == {w \in Worker : works[w] = s}

People(s, from, to) ==
  {w \in Worker : works[w] = s} \cup {job[j].by : j \in BySalon(s) \cap InPeriod(from, to)}

\* One row per artist of People, counted over the salon's bookings.
GetSalonArtists(s, from, to) ==
  [w \in People(s, from, to) |-> Figures(BySalon(s) \cap ByArtist(w) \cap InPeriod(from, to))]

GetPeriodSummary(w, from, to) == Figures(ByArtist(w) \cap InPeriod(from, to))

\* Days with nothing earned have no row.
GetDailyBreakdown(w, from, to) ==
  LET earned == Earned(ByArtist(w) \cap InPeriod(from, to))
      days == {job[j].start \div 2 : j \in earned}
  IN [d \in days |-> SumOf({j \in earned : job[j].start \div 2 = d})]

NextMonth(m) == CHOOSE n \in MonthStart : n > m /\ \A o \in MonthStart : o > m => n <= o
PreviousMonth(m) == CHOOSE n \in MonthStart : n < m /\ \A o \in MonthStart : o < m => o <= n
WholeMonth(from, to) == from \in MonthStart /\ \E m \in MonthStart : m > from /\ to = NextMonth(from)

\* A month may be shorter than the part of the next that has run.
CutBefore(prevFrom, from, cut) == IF cut < from THEN cut ELSE from

PreviousPeriod(from, to, now) ==
  LET prevFrom == IF WholeMonth(from, to) THEN PreviousMonth(from) ELSE from - (to - from)
      prevTo == IF from < now /\ now < to
                THEN CutBefore(prevFrom, from, prevFrom + (now - from))
                ELSE from
  IN [from |-> prevFrom, to |-> prevTo]

-----------------------------------------------------------------------------

EarningsNext ==
  \/ \E j \in Job, w \in Worker, start \in Half, cost \in Costs : Make(j, w, start, cost)
  \/ \E j \in Job, status \in RevenueStatuses \cup CancelledStatuses : Finish(j, status)
  \/ \E j \in Job, w \in Worker : Reassign(j, w)
  \/ \E w \in Worker : Detached(w)

EarningsSpec == EarningsInit /\ [][EarningsNext]_earningsVars

-----------------------------------------------------------------------------
(* Properties.                                                             *)

\* Types: each booking has a salon and an artist for good.
EarningsTypeOK ==
  /\ job \in [Job -> JobRow \cup {Nobody}]
  /\ works \in [Worker -> Salon \cup {Nobody}]

\* The periods that can be asked for, of whole days; the first month has
\* none before it to compare with.
FirstMonth == CHOOSE m \in MonthStart : \A n \in MonthStart : m <= n
LastDay == CHOOSE m \in MonthStart : \A n \in MonthStart : n <= m
Periods == {p \in (FirstMonth..LastDay) \X (FirstMonth..LastDay) :
              p[1] % 2 = 0 /\ p[2] % 2 = 0 /\ p[1] < p[2]}

\* The owner's page: its rows are its total, whoever left the salon or was
\* given another's booking meanwhile.
RowsAddUp ==
  \A p \in Periods, s \in Salon :
    LET rows == GetSalonArtists(s, p[1], p[2])
    IN GetSalonTotals(s, p[1], p[2]) =
         [f \in {"earned", "bookings", "cancelled"} |->
            SumFunction([w \in DOMAIN rows |-> rows[w][f]])]

\* An artist's own page: its days are its total.
DaysAddUp ==
  \A p \in Periods, w \in Worker :
    LET days == GetDailyBreakdown(w, p[1], p[2])
    IN GetPeriodSummary(w, p[1], p[2]).earned = SumFunction(days)

\* No booking is counted in a period and in the one it is compared with, and
\* a period that is not over is compared with no more time than has passed.
NothingTwice ==
  \A p \in Periods : \A now \in FirstMonth..LastDay :
    LET prev == PreviousPeriod(p[1], p[2], now)
    IN p[1] > FirstMonth =>
         /\ InPeriod(prev.from, prev.to) \cap InPeriod(p[1], p[2]) = {}
         /\ p[1] < now /\ now < p[2] => prev.to - prev.from <= now - p[1]

\* The figures a salon and its artists are shown agree with each other, with
\* artists leaving and bookings changing hands between the bookings' making
\* and the looking, and with months of unequal lengths.
PagesAgree == Made # {} => RowsAddUp /\ DaysAddUp /\ NothingTwice

=============================================================================
