------------------------------ MODULE Billing ------------------------------
(***************************************************************************)
(* What an artist pays B-Edge: her subscription, its invoices, and what    *)
(* its derived status lets her do (internal/billing, internal/pkg/         *)
(* subscription, internal/middleware/billing.go).                          *)
(*                                                                         *)
(* Nothing here runs on a schedule: invoices are made when somebody looks, *)
(* from a row read before, one statement each.  An administrator's edit of *)
(* a subscription reads the whole row, merges, and writes it all back.     *)
(* Seats and prices are left out: no decision reads them.                  *)
(***************************************************************************)
EXTENDS Integers, FiniteSets

CONSTANTS
  Month, Grace, PastDue,  \* one month, GraceDays, PastDueDays, in ticks
  Trial,                  \* when the trial that the approval gave ends
  Horizon,                \* the last tick
  Desk                    \* the requests the API serves at a time

ASSUME BillingParameters ==
  /\ {Month, Grace, PastDue, Trial, Horizon} \subseteq Nat \ {0}
  /\ Grace < PastDue
  /\ IsFiniteSet(Desk)

VARIABLES
  today,
  sub,       \* the row of subscriptions
  invoice,   \* the rows of invoices, by period_start, their unique key
  desk,      \* where each request is
  overruled  \* history: an administrator set a date, or edited around a payment

billingVars == <<today, sub, invoice, desk, overruled>>

-----------------------------------------------------------------------------

Start == 0..Horizon
\* ends: current_period_end, 0 when NULL.
SubscriptionRow == [plan : {"paid", "comped"}, trial : Nat, ends : Nat, cancelled : BOOLEAN]
InvoiceStates == {"none", "issued", "submitted", "paid", "void"}
\* row: what a look has read, or an edit read and merged.  next, now: where ensureInvoicesUpTo is.
DeskRow == [step : {"idle", "look", "bill", "edit"}, row : SubscriptionRow, next : Nat, now : Nat]

Opened == [plan |-> "paid", trial |-> Trial, ends |-> 0, cancelled |-> FALSE]
Away == [step |-> "idle", row |-> Opened, next |-> 0, now |-> 0]

\* As ApproveWithTrialSubscription leaves it.
BillingInit ==
  /\ today = 0
  /\ sub = Opened
  /\ invoice = [s \in Start |-> "none"]
  /\ desk = [d \in Desk |-> Away]
  /\ overruled = FALSE

Billed(s) == invoice[s] # "none"

-----------------------------------------------------------------------------
(* What the dates say.                                                     *)

\* subscription.Derive: first match wins, and the order is load-bearing.
Derive(r, t) ==
  IF r.cancelled                THEN "cancelled"
  ELSE IF r.plan = "comped"     THEN "active"
  ELSE IF t < r.trial           THEN "trialing"
  ELSE IF r.ends = 0            THEN "past_due"
  ELSE IF t < r.ends            THEN "active"
  ELSE IF t < r.ends + Grace    THEN "grace"
  ELSE IF t < r.ends + PastDue  THEN "past_due"
  ELSE "suspended"

\* subscription.Enforce: shown on Discover and bookable.
Bookable(status) == status \in {"trialing", "active", "grace"}

\* checkArtistAcceptsNewBookings, of an approved artist.
AcceptsNewBookings(r, t) == Bookable(Derive(r, t))

\* The SQL form of the same rule, on Discover, profiles and share links.
VisibleArtistCond(r, t) ==
  /\ ~r.cancelled
  /\ r.plan = "comped" \/ t < r.trial \/ (r.ends # 0 /\ t < r.ends + Grace)

\* RequireActiveSubscription: what it blocks besides.
CanModifyAccount(r, t) == Derive(r, t) # "suspended"

-----------------------------------------------------------------------------
(* Invoices.                                                               *)

\* Where the first period nobody has paid for begins.
First(r) == IF r.ends # 0 THEN r.ends ELSE r.trial

\* Any look at the subscription or the invoices, the administrator's included,
\* reads the row ...
GetMySubscription(d) ==
  /\ desk[d].step = "idle"
  /\ desk' = [desk EXCEPT ![d] = [Away EXCEPT !.step = "look", !.row = sub]]
  /\ UNCHANGED <<today, sub, invoice, overruled>>

Owes(r, t) ==
  /\ r.plan # "comped" /\ Derive(r, t) \notin {"cancelled", "trialing"}
  /\ First(r) <= t

\* Mutant: the period that begins is the next one.
EnsureFromNext(d) ==
  LET r == desk[d].row
  IN /\ desk[d].step = "look"
     /\ desk' = [desk EXCEPT ![d] =
          IF Owes(r, today) /\ First(r) + Month <= today
          THEN [Away EXCEPT !.step = "bill", !.next = First(r) + Month, !.now = today]
          ELSE Away]
     /\ UNCHANGED <<today, sub, invoice, overruled>>

\* ... and makes the invoices that row is due for by now.
EnsureInvoicesUpTo(d) ==
  LET r == desk[d].row
  IN /\ desk[d].step = "look"
     /\ desk' = [desk EXCEPT ![d] =
          IF Owes(r, today)
          THEN [Away EXCEPT !.step = "bill", !.next = First(r), !.now = today]
          ELSE Away]
     /\ UNCHANGED <<today, sub, invoice, overruled>>

\* One INSERT ... ON CONFLICT DO NOTHING per month that has begun.
CreateInvoiceIfMissing(d) ==
  LET s == desk[d].next
  IN /\ desk[d].step = "bill"
     /\ invoice' = [invoice EXCEPT ![s] = IF @ = "none" THEN "issued" ELSE @]
     /\ desk' = [desk EXCEPT ![d] =
          IF s + Month > @.now THEN Away ELSE [@ EXCEPT !.next = s + Month]]
     /\ UNCHANGED <<today, sub, overruled>>

SubmitInvoice(s) ==
  /\ invoice[s] = "issued"
  /\ invoice' = [invoice EXCEPT ![s] = "submitted"]
  /\ UNCHANGED <<today, sub, desk, overruled>>

Later(a, b) == IF a > b THEN a ELSE b

\* Mutant: the last confirmation wins, in whatever order they come.
ExtendTo(s) == s + Month

\* GREATEST(COALESCE(current_period_end, period_end), period_end).
Extended(s) == Later(sub.ends, s + Month)

\* One transaction: the invoice is paid and the subscription extended.
ConfirmInvoice(s) ==
  /\ invoice[s] = "submitted"
  /\ invoice' = [invoice EXCEPT ![s] = "paid"]
  /\ sub' = [sub EXCEPT !.ends = Extended(s)]
  /\ overruled' = (overruled \/ \E d \in Desk : desk[d].step = "edit")
  /\ UNCHANGED <<today, desk>>

VoidInvoice(s) ==
  /\ invoice[s] \in {"issued", "submitted"}
  /\ invoice' = [invoice EXCEPT ![s] = "void"]
  /\ UNCHANGED <<today, sub, desk, overruled>>

-----------------------------------------------------------------------------
(* The administrator's edit.                                               *)

Edits(r) ==
  {[r EXCEPT !.plan = p] : p \in {"paid", "comped"}}
    \cup {[r EXCEPT !.cancelled = b] : b \in BOOLEAN}
    \cup {[r EXCEPT !.trial = t] : t \in Start \ {0}}
    \cup {[r EXCEPT !.ends = t] : t \in Start \ {0}}

ReadToEdit(d) ==
  /\ desk[d].step = "idle"
  /\ \E r \in Edits(sub) :
       /\ desk' = [desk EXCEPT ![d] = [Away EXCEPT !.step = "edit", !.row = r]]
       /\ overruled' = (overruled \/ r.trial # sub.trial \/ r.ends # sub.ends)
  /\ UNCHANGED <<today, sub, invoice>>

\* The whole row, whatever was paid meanwhile.
UpdateSubscription(d) ==
  /\ desk[d].step = "edit"
  /\ sub' = desk[d].row
  /\ desk' = [desk EXCEPT ![d] = Away]
  /\ UNCHANGED <<today, invoice, overruled>>

-----------------------------------------------------------------------------
(* Around them.                                                            *)

DeskFails(d) ==
  /\ desk[d].step # "idle"
  /\ desk' = [desk EXCEPT ![d] = Away]
  /\ UNCHANGED <<today, sub, invoice, overruled>>

Tick ==
  /\ today < Horizon
  /\ today' = today + 1
  /\ UNCHANGED <<sub, invoice, desk, overruled>>

BillingNext ==
  \/ Tick
  \/ \E d \in Desk :
       \/ GetMySubscription(d) \/ EnsureInvoicesUpTo(d) \/ CreateInvoiceIfMissing(d)
       \/ ReadToEdit(d) \/ UpdateSubscription(d)
       \/ DeskFails(d)
  \/ \E s \in Start : SubmitInvoice(s) \/ ConfirmInvoice(s) \/ VoidInvoice(s)

BillingSpec == BillingInit /\ [][BillingNext]_billingVars

-----------------------------------------------------------------------------

\* Types: the row, the invoices and the requests keep their shape.
BillingTypeOK ==
  /\ today \in Start
  /\ sub \in SubscriptionRow
  /\ invoice \in [Start -> InvoiceStates]
  /\ desk \in [Desk -> DeskRow]
  /\ overruled \in BOOLEAN

\* Money received is service given ("the two updates must never happen
\* independently", ConfirmInvoice): as long as no administrator sets a date or
\* holds an edit across a confirmation, every paid month is inside the current
\* period, in whatever order the months were confirmed, and while one runs the
\* artist can change her account and, unless she cancelled, is shown and sold.
PaidIsServed ==
  \A s \in Start : invoice[s] = "paid" /\ ~overruled =>
    /\ s + Month <= sub.ends
    /\ today < s + Month => CanModifyAccount(sub, today)
    /\ today < s + Month /\ ~sub.cancelled =>
         AcceptsNewBookings(sub, today) /\ VisibleArtistCond(sub, today)

\* No month is skipped: invoices follow one another from the end of the trial,
\* whoever looked, stopped half-way, paid or voided in between
\* (ensureInvoicesUpTo), unless an administrator set a date.
BillsInOrder ==
  \A s \in Start : Billed(s) /\ ~overruled =>
    s = Trial \/ (s >= Trial + Month /\ Billed(s - Month))

\* "By construction this never generates more than one OUTSTANDING invoice at
\* a time ... an artist who hasn't paid in three months still has exactly one"
\* (ensureInvoicesUpTo).  Does not hold: the next period's invoice is issued
\* while the last one is still submitted or unpaid.
OneOutstanding ==
  Cardinality({s \in Start : invoice[s] \in {"issued", "submitted"}}) <= 1

=============================================================================
