---------------------------- MODULE TradeProofs -----------------------------
(***************************************************************************)
(* What a salon sells and what its artists pay, for any products, carts,   *)
(* customers, codes, amounts, dates and bounds: the shop and its promo     *)
(* code, a subscription and its invoices, the menu and a booking's price.  *)
(***************************************************************************)
EXTENDS MCTrade, FiniteSetTheorems, TLAPS

-----------------------------------------------------------------------------
(* The subscription.  Unless an administrator set a date, what a request   *)
(* has read may be old but is never wrong: a period ends where an invoice  *)
(* that was made ends, invoices never go away, and a row that an edit will *)
(* write back has the dates that stand.                                    *)

\* After these invoices s may be the next month to bill.
Follows(bills, s) == s = Trial \/ (s >= Trial + Month /\ bills[s - Month] # "none")

\* The row ends its trial and its period where these invoices do.
Dated(bills, r) ==
  /\ r.trial = Trial
  /\ r.ends = 0 \/ \E s \in Start : bills[s] # "none" /\ r.ends = s + Month

BillingInv ==
  /\ BillingTypeOK
  /\ \A d \in Desk : desk[d].step = "bill" => desk[d].next <= desk[d].now /\ desk[d].now <= today
  /\ ~overruled =>
       /\ Dated(invoice, sub)
       /\ \A s \in Start : Billed(s) => Follows(invoice, s)
       /\ \A s \in Start : invoice[s] = "paid" => s + Month <= sub.ends
       /\ \A d \in Desk :
            /\ desk[d].step = "look" => Dated(invoice, desk[d].row)
            /\ desk[d].step = "bill" => Follows(invoice, desk[d].next)
            /\ desk[d].step = "edit" =>
                 desk[d].row.trial = sub.trial /\ desk[d].row.ends = sub.ends

LEMMA Ticks ==
  /\ Month \in Nat /\ Month > 0 /\ Grace \in Nat /\ PastDue \in Nat /\ Grace < PastDue
  /\ Trial \in Nat /\ Trial > 0 /\ Horizon \in Nat
  BY BillingParameters

\* No invoice goes away, so what was read stays true.
LEMMA BillsStay ==
  ASSUME NEW old, NEW new, \A s \in Start : old[s] # "none" => new[s] # "none"
  PROVE  /\ \A r : Dated(old, r) => Dated(new, r)
         /\ \A s \in Start : Follows(old, s) => Follows(new, s)
  <1>1. \A r : Dated(old, r) => Dated(new, r)
    BY DEF Dated
  <1>2. ASSUME NEW s \in Start, Follows(old, s) PROVE Follows(new, s)
    <2>1. s >= Trial + Month => s - Month \in Start
      BY Ticks DEF Start
    <2> QED BY <1>2, <2>1 DEF Follows
  <1> QED BY <1>1, <1>2

\* A row that a look has read has its first unpaid month in order.
LEMMA FirstFollows ==
  ASSUME NEW bills, NEW r \in SubscriptionRow, Dated(bills, r),
         \A s \in Start : bills[s] # "none" => Follows(bills, s)
  PROVE  Follows(bills, First(r))
  <1>1. CASE r.ends = 0
    BY <1>1 DEF First, Follows, Dated
  <1>2. CASE r.ends # 0
    <2>1. PICK s \in Start : bills[s] # "none" /\ r.ends = s + Month
      BY <1>2 DEF Dated
    <2>2. s >= Trial
      BY <2>1, Ticks DEF Follows, Start
    <2>3. First(r) = s + Month /\ (s + Month) - Month = s /\ s + Month >= Trial + Month
      BY <1>2, <2>1, <2>2, Ticks DEF First, Start
    <2> QED BY <2>1, <2>3 DEF Follows
  <1> QED BY <1>1, <1>2

LEMMA AwayTyped == Away \in DeskRow /\ Away.step = "idle"
  BY Ticks DEF Away, DeskRow, Opened, SubscriptionRow

\* One desk goes on, and at most one invoice is made or stamped.
LEMMA DeskGoesOn ==
  ASSUME BillingInv, NEW d \in Desk, NEW row \in DeskRow,
         desk' = [desk EXCEPT ![d] = row], UNCHANGED <<today, sub, overruled>>,
         NEW bills \in [Start -> InvoiceStates], invoice' = bills,
         \A s \in Start : Billed(s) => bills[s] # "none",
         \A s \in Start : bills[s] = "paid" => invoice[s] = "paid",
         ~overruled => \A s \in Start : bills[s] # "none" => Billed(s) \/ Follows(bills, s),
         row.step = "bill" => row.next <= row.now /\ row.now <= today,
         ~overruled =>
            /\ row.step = "look" => Dated(bills, row.row)
            /\ row.step = "bill" => Follows(bills, row.next)
            /\ row.step = "edit" => row.row.trial = sub.trial /\ row.row.ends = sub.ends
  PROVE  BillingInv'
  <1>1. /\ desk' \in [Desk -> DeskRow] /\ desk'[d] = row
        /\ \A x \in Desk : x # d => desk'[x] = desk[x]
    BY DEF BillingInv, BillingTypeOK
  <1>2. BillingTypeOK'
    BY <1>1 DEF BillingInv, BillingTypeOK
  <1>3. \A x \in Desk :
          desk'[x].step = "bill" => desk'[x].next <= desk'[x].now /\ desk'[x].now <= today'
    BY <1>1 DEF BillingInv
  <1>4. /\ \A r : Dated(invoice, r) => Dated(bills, r)
        /\ \A s \in Start : Follows(invoice, s) => Follows(bills, s)
    BY BillsStay DEF Billed
  <1>5. ASSUME ~overruled, NEW x \in Desk
        PROVE  /\ desk'[x].step = "look" => Dated(bills, desk'[x].row)
               /\ desk'[x].step = "bill" => Follows(bills, desk'[x].next)
               /\ desk'[x].step = "edit" =>
                    desk'[x].row.trial = sub.trial /\ desk'[x].row.ends = sub.ends
    <2>1. CASE x = d
      BY <1>1, <1>5, <2>1
    <2>2. CASE x # d
      <3>1. desk[x].step = "bill" => desk[x].next \in Start
        BY Ticks DEF BillingInv, BillingTypeOK, DeskRow, Start
      <3> QED BY <1>1, <1>4, <1>5, <2>2, <3>1 DEF BillingInv
    <2> QED BY <2>1, <2>2
  <1>6. ASSUME ~overruled
        PROVE  /\ Dated(bills, sub)
               /\ \A s \in Start : bills[s] # "none" => Follows(bills, s)
               /\ \A s \in Start : bills[s] = "paid" => s + Month <= sub.ends
    BY <1>4, <1>6 DEF BillingInv
  <1> QED BY <1>2, <1>3, <1>5, <1>6 DEF BillingInv, Billed

\* ... and no invoice.
LEMMA OnlyDeskGoesOn ==
  ASSUME BillingInv, NEW d \in Desk, NEW row \in DeskRow,
         desk' = [desk EXCEPT ![d] = row], UNCHANGED <<today, sub, invoice, overruled>>,
         row.step = "bill" => row.next <= row.now /\ row.now <= today,
         ~overruled =>
            /\ row.step = "look" => Dated(invoice, row.row)
            /\ row.step = "bill" => Follows(invoice, row.next)
            /\ row.step = "edit" => row.row.trial = sub.trial /\ row.row.ends = sub.ends
  PROVE  BillingInv'
  <1>1. PICK bills : bills = invoice
    OBVIOUS
  <1> QED BY <1>1, DeskGoesOn DEF BillingInv, BillingTypeOK, Billed

LEMMA GetMySubscriptionOK ==
  ASSUME BillingInv, NEW d \in Desk, GetMySubscription(d)
  PROVE  BillingInv'
  <1>1. PICK row : row = [Away EXCEPT !.step = "look", !.row = sub]
    OBVIOUS
  <1>2. row = [step |-> "look", row |-> sub, next |-> 0, now |-> 0]
    BY <1>1 DEF Away
  <1>3. row \in DeskRow
    BY <1>2 DEF DeskRow, BillingInv, BillingTypeOK
  <1>4. desk' = [desk EXCEPT ![d] = row] /\ UNCHANGED <<today, sub, invoice, overruled>>
    BY <1>1 DEF GetMySubscription
  <1>5. ~overruled => Dated(invoice, row.row)
    BY <1>2 DEF BillingInv
  <1> QED BY <1>2, <1>3, <1>4, <1>5, OnlyDeskGoesOn

LEMMA EnsureInvoicesUpToOK ==
  ASSUME BillingInv, NEW d \in Desk, EnsureInvoicesUpTo(d)
  PROVE  BillingInv'
  <1>1. CASE desk' = [desk EXCEPT ![d] = Away]
    BY <1>1, AwayTyped, OnlyDeskGoesOn DEF EnsureInvoicesUpTo
  <1>2. CASE Owes(desk[d].row, today)
    <2>1. PICK r : r = desk[d].row
      OBVIOUS
    <2>2. PICK row : row = [Away EXCEPT !.step = "bill", !.next = First(r), !.now = today]
      OBVIOUS
    <2>3. r \in SubscriptionRow /\ First(r) \in Nat /\ First(r) <= today /\ today \in Nat
      BY <1>2, <2>1 DEF Owes, First, BillingInv, BillingTypeOK, DeskRow, SubscriptionRow, Start
    <2>4. row = [step |-> "bill", row |-> Opened, next |-> First(r), now |-> today]
      BY <2>2 DEF Away
    <2>5. Opened \in SubscriptionRow
      BY Ticks DEF Opened, SubscriptionRow
    <2>6. row \in DeskRow
      BY <2>3, <2>4, <2>5 DEF DeskRow
    <2>7. ASSUME ~overruled PROVE Follows(invoice, row.next)
      <3>1. Dated(invoice, r) /\ \A s \in Start : invoice[s] # "none" => Follows(invoice, s)
        BY <2>1, <2>7 DEF BillingInv, EnsureInvoicesUpTo, Billed
      <3> QED BY <2>3, <2>4, <3>1, FirstFollows
    <2>8. desk' = [desk EXCEPT ![d] = row] /\ UNCHANGED <<today, sub, invoice, overruled>>
      BY <1>2, <2>1, <2>2 DEF EnsureInvoicesUpTo
    <2>9. row.step = "bill" /\ row.next <= row.now /\ row.now <= today
      BY <2>3, <2>4
    <2> QED BY <2>6, <2>7, <2>8, <2>9, OnlyDeskGoesOn
  <1> QED BY <1>1, <1>2 DEF EnsureInvoicesUpTo

LEMMA CreateInvoiceIfMissingOK ==
  ASSUME BillingInv, NEW d \in Desk, CreateInvoiceIfMissing(d)
  PROVE  BillingInv'
  <1>1. PICK r : r = desk[d]
    OBVIOUS
  <1>2. PICK s : s = r.next
    OBVIOUS
  <1>3. r \in DeskRow /\ r.step = "bill" /\ s <= r.now /\ r.now <= today
    BY <1>1, <1>2 DEF CreateInvoiceIfMissing, BillingInv, BillingTypeOK
  <1>4. s \in Nat /\ r.now \in Nat /\ today \in Nat /\ s \in Start
    BY <1>2, <1>3, Ticks DEF BillingInv, BillingTypeOK, DeskRow, Start
  <1>5. PICK row : row = IF s + Month > r.now THEN Away ELSE [r EXCEPT !.next = s + Month]
    OBVIOUS
  <1>6. /\ row \in DeskRow /\ row.step \in {"idle", "bill"}
        /\ row.step = "bill" => row.next = s + Month /\ row.now = r.now /\ s + Month <= r.now
    <2>1. CASE s + Month > r.now
      BY <1>5, <2>1, AwayTyped
    <2>2. CASE ~(s + Month > r.now)
      <3>1. row = [r EXCEPT !.next = s + Month]
        BY <1>5, <2>2
      <3>2. row = [step |-> "bill", row |-> r.row, next |-> s + Month, now |-> r.now]
        BY <1>3, <3>1 DEF DeskRow
      <3>3. s + Month \in Nat /\ s + Month <= r.now
        BY <1>4, <2>2, Ticks
      <3> QED BY <1>3, <3>2, <3>3 DEF DeskRow
    <2> QED BY <2>1, <2>2
  <1>7. PICK bills : bills = [invoice EXCEPT ![s] = IF @ = "none" THEN "issued" ELSE @]
    OBVIOUS
  <1>8. /\ bills \in [Start -> InvoiceStates] /\ bills[s] # "none"
        /\ \A t \in Start : t # s => bills[t] = invoice[t]
        /\ \A t \in Start : Billed(t) => bills[t] # "none"
        /\ \A t \in Start : bills[t] = "paid" => invoice[t] = "paid"
    BY <1>4, <1>7 DEF BillingInv, BillingTypeOK, InvoiceStates, Billed
  <1>9. ~overruled => Follows(bills, s)
    BY <1>1, <1>2, <1>3, <1>4, <1>8, BillsStay DEF BillingInv, Billed
  <1>10. ~overruled => \A t \in Start : bills[t] # "none" => Billed(t) \/ Follows(bills, t)
    BY <1>8, <1>9 DEF Billed
  <1>11. ASSUME ~overruled, row.step = "bill" PROVE Follows(bills, row.next)
    <2>1. Follows(bills, s)
      BY <1>9, <1>11
    <2>2. s >= Trial /\ (s + Month) - Month = s /\ s + Month >= Trial + Month
      BY <1>4, <2>1, Ticks DEF Follows
    <2> QED BY <1>6, <1>8, <1>11, <2>2 DEF Follows
  <1>12. desk' = [desk EXCEPT ![d] = row] /\ invoice' = bills /\ UNCHANGED <<today, sub, overruled>>
    BY <1>1, <1>2, <1>5, <1>7 DEF CreateInvoiceIfMissing, BillingInv, BillingTypeOK
  <1>13. row.step = "bill" => row.next <= row.now /\ row.now <= today
    BY <1>3, <1>6
  <1> QED BY <1>6, <1>8, <1>10, <1>11, <1>12, <1>13, DeskGoesOn

\* An invoice that exists is stamped, and nobody has paid with it.
LEMMA StampOK ==
  ASSUME BillingInv, NEW s \in Start, invoice[s] # "none",
         NEW status \in {"submitted", "void"}, invoice' = [invoice EXCEPT ![s] = status],
         UNCHANGED <<today, sub, desk, overruled>>
  PROVE  BillingInv'
  <1>1. PICK bills : bills = invoice'
    OBVIOUS
  <1>2. /\ bills \in [Start -> InvoiceStates]
        /\ \A t \in Start : Billed(t) <=> bills[t] # "none"
        /\ \A t \in Start : bills[t] = "paid" => invoice[t] = "paid"
    BY <1>1 DEF BillingInv, BillingTypeOK, InvoiceStates, Billed
  <1>3. BillingTypeOK'
    BY <1>1, <1>2 DEF BillingInv, BillingTypeOK
  <1>4. /\ \A r : Dated(invoice, r) => Dated(bills, r)
        /\ \A t \in Start : Follows(invoice, t) => Follows(bills, t)
    BY <1>2, BillsStay DEF Billed
  <1>5. \A x \in Desk : desk[x].step = "bill" => desk[x].next \in Start
    BY Ticks DEF BillingInv, BillingTypeOK, DeskRow, Start
  <1>6. ASSUME ~overruled
        PROVE  /\ Dated(bills, sub)
               /\ \A t \in Start : bills[t] # "none" => Follows(bills, t)
               /\ \A t \in Start : bills[t] = "paid" => t + Month <= sub.ends
               /\ \A x \in Desk :
                    /\ desk[x].step = "look" => Dated(bills, desk[x].row)
                    /\ desk[x].step = "bill" => Follows(bills, desk[x].next)
    BY <1>2, <1>4, <1>5, <1>6 DEF BillingInv
  <1> QED BY <1>1, <1>3, <1>6 DEF BillingInv, Billed

\* The period ends where the latest paid month does: a request on its way has
\* read a row as good, an edit would overrule.
LEMMA ConfirmInvoiceOK ==
  ASSUME BillingInv, NEW s \in Start, ConfirmInvoice(s)
  PROVE  BillingInv'
  <1>1. PICK bills : bills = invoice'
    OBVIOUS
  <1>2. PICK row : row = sub'
    OBVIOUS
  <1>3. /\ bills \in [Start -> InvoiceStates] /\ invoice[s] # "none"
        /\ \A t \in Start : Billed(t) <=> bills[t] # "none"
        /\ \A t \in Start : bills[t] = "paid" => invoice[t] = "paid" \/ t = s
    BY <1>1 DEF ConfirmInvoice, BillingInv, BillingTypeOK, InvoiceStates, Billed
  <1>4. sub \in SubscriptionRow /\ sub.ends \in Nat /\ s \in Nat /\ Month \in Nat
    BY Ticks DEF BillingInv, BillingTypeOK, SubscriptionRow, Start
  <1>5. PICK ends : ends = Extended(s)
    OBVIOUS
  <1>6. /\ ends \in Nat /\ (ends = sub.ends \/ ends = s + Month)
        /\ ends >= sub.ends /\ ends >= s + Month
    BY <1>4, <1>5 DEF Extended, Later
  <1>7. row = [plan |-> sub.plan, trial |-> sub.trial, ends |-> ends, cancelled |-> sub.cancelled]
    BY <1>2, <1>4, <1>5 DEF ConfirmInvoice, SubscriptionRow
  <1>8. row \in SubscriptionRow
    BY <1>4, <1>6, <1>7 DEF SubscriptionRow
  <1>9. BillingTypeOK'
    BY <1>1, <1>2, <1>3, <1>8 DEF ConfirmInvoice, BillingInv, BillingTypeOK
  <1>10. /\ \A r : Dated(invoice, r) => Dated(bills, r)
         /\ \A t \in Start : Follows(invoice, t) => Follows(bills, t)
    BY <1>3, BillsStay DEF Billed
  <1>11. \A x \in Desk : desk[x].step = "bill" => desk[x].next \in Start
    BY Ticks DEF BillingInv, BillingTypeOK, DeskRow, Start
  <1>12. ASSUME ~overruled'
         PROVE  /\ Dated(bills, row)
                /\ \A t \in Start : bills[t] # "none" => Follows(bills, t)
                /\ \A t \in Start : bills[t] = "paid" => t + Month <= row.ends
                /\ \A x \in Desk :
                     /\ desk[x].step = "look" => Dated(bills, desk[x].row)
                     /\ desk[x].step = "bill" => Follows(bills, desk[x].next)
                     /\ desk[x].step # "edit"
    <2>1. ~overruled /\ \A x \in Desk : desk[x].step # "edit"
      BY <1>12 DEF ConfirmInvoice, BillingInv, BillingTypeOK
    <2>2. /\ Dated(invoice, sub)
          /\ \A t \in Start : Billed(t) => Follows(invoice, t)
          /\ \A t \in Start : invoice[t] = "paid" => t + Month <= sub.ends
          /\ \A x \in Desk :
               /\ desk[x].step = "look" => Dated(invoice, desk[x].row)
               /\ desk[x].step = "bill" => Follows(invoice, desk[x].next)
      BY <2>1 DEF BillingInv
    <2>3. bills[s] # "none"
      BY <1>3 DEF Billed
    <2>4. Dated(bills, row)
      BY <1>6, <1>7, <1>10, <2>2, <2>3 DEF Dated
    <2>5. ASSUME NEW t \in Start, bills[t] = "paid" PROVE t + Month <= row.ends
      <3>1. t \in Nat /\ (t = s \/ t + Month <= sub.ends)
        BY <1>3, <2>2, <2>5 DEF Start
      <3> QED BY <1>4, <1>6, <1>7, <3>1
    <2> QED BY <1>3, <1>10, <1>11, <2>1, <2>2, <2>4, <2>5
  <1>13. today' = today /\ desk' = desk
    BY DEF ConfirmInvoice
  <1> QED BY <1>1, <1>2, <1>9, <1>12, <1>13 DEF BillingInv, Billed

\* What an edit will write back has the dates that stand, or overrules.
LEMMA ReadToEditOK ==
  ASSUME BillingInv, NEW d \in Desk, ReadToEdit(d)
  PROVE  BillingInv'
  <1>1. PICK r \in Edits(sub) :
          /\ desk' = [desk EXCEPT ![d] = [Away EXCEPT !.step = "edit", !.row = r]]
          /\ overruled' = (overruled \/ r.trial # sub.trial \/ r.ends # sub.ends)
    BY DEF ReadToEdit
  <1>2. sub \in SubscriptionRow
    BY DEF BillingInv, BillingTypeOK
  <1>3. r \in SubscriptionRow
    BY <1>2 DEF Edits, SubscriptionRow, Start
  <1>4. PICK row : row = [Away EXCEPT !.step = "edit", !.row = r]
    OBVIOUS
  <1>5. row = [step |-> "edit", row |-> r, next |-> 0, now |-> 0]
    BY <1>4 DEF Away
  <1>6. row \in DeskRow
    BY <1>3, <1>5 DEF DeskRow
  <1>7. /\ desk' \in [Desk -> DeskRow] /\ desk'[d] = row
        /\ \A x \in Desk : x # d => desk'[x] = desk[x]
    BY <1>1, <1>4, <1>6 DEF BillingInv, BillingTypeOK
  <1>8. UNCHANGED <<today, sub, invoice>> /\ overruled' \in BOOLEAN
    BY <1>1 DEF ReadToEdit
  <1>9. BillingTypeOK'
    BY <1>7, <1>8 DEF BillingInv, BillingTypeOK
  <1>10. ASSUME ~overruled', NEW x \in Desk
         PROVE  /\ desk'[x].step = "look" => Dated(invoice, desk'[x].row)
                /\ desk'[x].step = "bill" => Follows(invoice, desk'[x].next)
                /\ desk'[x].step = "edit" =>
                     desk'[x].row.trial = sub.trial /\ desk'[x].row.ends = sub.ends
    <2>1. ~overruled /\ r.trial = sub.trial /\ r.ends = sub.ends
      BY <1>1, <1>10
    <2>2. CASE x = d
      BY <1>5, <1>7, <2>1, <2>2
    <2>3. CASE x # d
      BY <1>7, <2>1, <2>3 DEF BillingInv
    <2> QED BY <2>2, <2>3
  <1>11. \A x \in Desk :
           desk'[x].step = "bill" => desk'[x].next <= desk'[x].now /\ desk'[x].now <= today
    BY <1>5, <1>7 DEF BillingInv
  <1>12. ~overruled' => ~overruled
    BY <1>1
  <1> QED BY <1>8, <1>9, <1>10, <1>11, <1>12 DEF BillingInv, Billed

LEMMA UpdateSubscriptionOK ==
  ASSUME BillingInv, NEW d \in Desk, UpdateSubscription(d)
  PROVE  BillingInv'
  <1>1. PICK r : r = desk[d].row
    OBVIOUS
  <1>2. /\ sub' = r /\ desk' = [desk EXCEPT ![d] = Away] /\ desk[d].step = "edit"
        /\ UNCHANGED <<today, invoice, overruled>>
    BY <1>1 DEF UpdateSubscription
  <1>3. r \in SubscriptionRow
    BY <1>1 DEF BillingInv, BillingTypeOK, DeskRow
  <1>4. /\ desk' \in [Desk -> DeskRow] /\ desk'[d] = Away
        /\ \A x \in Desk : x # d => desk'[x] = desk[x]
    BY <1>2, AwayTyped DEF BillingInv, BillingTypeOK
  <1>5. BillingTypeOK'
    BY <1>2, <1>3, <1>4 DEF BillingInv, BillingTypeOK
  <1>6. ASSUME ~overruled
        PROVE  /\ r.trial = sub.trial /\ r.ends = sub.ends /\ Dated(invoice, r)
               /\ \A s \in Start : invoice[s] = "paid" => s + Month <= r.ends
    BY <1>1, <1>2, <1>6 DEF BillingInv, Dated
  <1>7. ASSUME ~overruled, NEW x \in Desk
        PROVE  /\ desk'[x].step = "look" => Dated(invoice, desk'[x].row)
               /\ desk'[x].step = "bill" => Follows(invoice, desk'[x].next)
               /\ desk'[x].step = "edit" =>
                    desk'[x].row.trial = r.trial /\ desk'[x].row.ends = r.ends
    <2>1. CASE x = d
      BY <1>4, <2>1, AwayTyped
    <2>2. CASE x # d
      BY <1>4, <1>6, <1>7, <2>2 DEF BillingInv
    <2> QED BY <2>1, <2>2
  <1>8. \A x \in Desk :
          desk'[x].step = "bill" => desk'[x].next <= desk'[x].now /\ desk'[x].now <= today
    BY <1>4, AwayTyped DEF BillingInv
  <1> QED BY <1>2, <1>5, <1>6, <1>7, <1>8 DEF BillingInv, Billed

LEMMA TickOK ==
  ASSUME BillingInv, Tick
  PROVE  BillingInv'
  <1>1. today \in Nat /\ today' = today + 1 /\ today' \in Start
    BY Ticks DEF Tick, BillingInv, BillingTypeOK, Start
  <1>2. BillingTypeOK'
    BY <1>1 DEF Tick, BillingInv, BillingTypeOK
  <1>3. \A x \in Desk : desk[x].step = "bill" => desk[x].next <= desk[x].now /\ desk[x].now <= today'
    BY <1>1 DEF BillingInv, BillingTypeOK, DeskRow
  <1> QED BY <1>2, <1>3 DEF Tick, BillingInv, Billed

LEMMA BillingStep == BillingInv /\ [BillingNext]_billingVars => BillingInv'
  <1> SUFFICES ASSUME BillingInv, [BillingNext]_billingVars PROVE BillingInv'
    OBVIOUS
  <1>1. CASE UNCHANGED billingVars
    BY <1>1 DEF billingVars, BillingInv, BillingTypeOK, Billed
  <1>2. ASSUME NEW d \in Desk,
               \/ GetMySubscription(d) \/ EnsureInvoicesUpTo(d) \/ CreateInvoiceIfMissing(d)
               \/ ReadToEdit(d) \/ UpdateSubscription(d)
               \/ DeskFails(d)
        PROVE  BillingInv'
    <2>1. CASE DeskFails(d)
      BY <2>1, AwayTyped, OnlyDeskGoesOn DEF DeskFails
    <2> QED BY <1>2, <2>1, GetMySubscriptionOK, EnsureInvoicesUpToOK, CreateInvoiceIfMissingOK,
               ReadToEditOK, UpdateSubscriptionOK
  <1>3. ASSUME NEW s \in Start, SubmitInvoice(s) \/ ConfirmInvoice(s) \/ VoidInvoice(s)
        PROVE  BillingInv'
    <2>1. CASE SubmitInvoice(s)
      BY <2>1, StampOK DEF SubmitInvoice
    <2>2. CASE VoidInvoice(s)
      BY <2>2, StampOK DEF VoidInvoice
    <2> QED BY <1>3, <2>1, <2>2, ConfirmInvoiceOK
  <1> QED BY <1>1, <1>2, <1>3, TickOK DEF BillingNext

LEMMA BillingStart == BillingInit => BillingInv
  <1> SUFFICES ASSUME BillingInit PROVE BillingInv
    OBVIOUS
  <1>1. Opened \in SubscriptionRow /\ 0 \in Start
    BY Ticks DEF Opened, SubscriptionRow, Start
  <1>2. BillingTypeOK
    BY <1>1, AwayTyped DEF BillingInit, BillingTypeOK, InvoiceStates
  <1>3. Dated(invoice, sub)
    BY DEF BillingInit, Dated, Opened
  <1> QED BY <1>2, <1>3, AwayTyped DEF BillingInit, BillingInv, Billed

LEMMA BillingHolds == BillingSpec => []BillingInv
  BY BillingStart, BillingStep, PTL DEF BillingSpec

\* The subscription, its invoices and the requests keep their shape.
THEOREM BillingTyped == BillingSpec => []BillingTypeOK
  <1>1. BillingInv => BillingTypeOK
    BY DEF BillingInv
  <1> QED BY <1>1, BillingHolds, PTL

\* No month is skipped, whoever looked, stopped half-way, paid or voided.
THEOREM BillsStayInOrder == BillingSpec => []BillsInOrder
  <1>1. BillingInv => BillsInOrder
    BY DEF BillingInv, BillsInOrder, Follows, Billed
  <1> QED BY <1>1, BillingHolds, PTL

\* Money received is service given: what is paid is inside the period, and a
\* period that runs lets her work and, unless she cancelled, be booked.
THEOREM PaidStaysServed == BillingSpec => []PaidIsServed
  <1>1. ASSUME BillingInv PROVE PaidIsServed
    <2>1. ASSUME NEW s \in Start, invoice[s] = "paid", ~overruled
          PROVE  /\ s + Month <= sub.ends
                 /\ today < s + Month => CanModifyAccount(sub, today)
                 /\ today < s + Month /\ ~sub.cancelled =>
                      AcceptsNewBookings(sub, today) /\ VisibleArtistCond(sub, today)
      <3>1. /\ s + Month <= sub.ends /\ s \in Nat /\ today \in Nat /\ sub.ends \in Nat
            /\ sub.trial \in Nat /\ Month \in Nat /\ Month > 0 /\ Grace \in Nat
            /\ sub.cancelled \in BOOLEAN
        BY <1>1, <2>1, Ticks DEF BillingInv, BillingTypeOK, SubscriptionRow, Start
      <3>2. ASSUME today < s + Month
            PROVE  /\ sub.ends # 0 /\ today < sub.ends /\ today < sub.ends + Grace
                   /\ sub.cancelled => Derive(sub, today) = "cancelled"
                   /\ ~sub.cancelled => Derive(sub, today) \in {"active", "trialing"}
        <4>1. sub.ends # 0 /\ today < sub.ends /\ today < sub.ends + Grace
          BY <3>1, <3>2
        <4> QED BY <3>1, <4>1 DEF Derive
      <3>3. today < s + Month => CanModifyAccount(sub, today)
        BY <3>1, <3>2 DEF CanModifyAccount
      <3>4. today < s + Month /\ ~sub.cancelled =>
              AcceptsNewBookings(sub, today) /\ VisibleArtistCond(sub, today)
        BY <3>1, <3>2 DEF AcceptsNewBookings, Bookable, VisibleArtistCond
      <3> QED BY <3>1, <3>3, <3>4
    <2> QED BY <2>1 DEF PaidIsServed
  <1> QED BY <1>1, BillingHolds, PTL

-----------------------------------------------------------------------------
(* The menu.  The owner is always in her salon, what a request carries is  *)
(* what its writer takes, and a bill adds up from the moment it is drawn.  *)

AddsUp(bill) ==
  /\ bill.deposit <= bill.final
  /\ bill.final + bill.discount = bill.original + bill.fee

MenuInv ==
  /\ MenuTypeOK /\ OffersHere
  /\ owner => place = "member"
  /\ quote # Unset => AddsUp(quote)
  /\ \A e \in Editor :
       /\ editor[e].step = "service" =>
            item \in Item /\ editor[e].price # Keep /\ editor[e].deposit # Keep
       /\ editor[e].step = "book" => editor[e].bill \in QuoteRow /\ AddsUp(editor[e].bill)

LEMMA Cents ==
  /\ Amounts \subseteq Nat /\ Fees \subseteq Nat
  /\ \A code \in Codes : code.kind \in {"fixed", "percentage"} /\ code.value \in Nat
  /\ Unset \notin Int /\ Keep \notin Int /\ Keep # Unset /\ Unset \notin Codes
  BY MenuParameters

\* Rounding half up stays between nothing and, from 1 on, the whole of it.
LEMMA RoundedHalf ==
  ASSUME NEW n \in Nat
  PROVE  Rounded(n, 2) \in Nat /\ (n > 0 => Rounded(n, 2) <= n)
  BY DEF Rounded

LEMMA RoundedCent ==
  ASSUME NEW n \in Nat
  PROVE  Rounded(n, 100) \in Nat
  BY DEF Rounded

LEMMA ReductionTyped ==
  ASSUME NEW code \in Codes, NEW n \in Nat
  PROVE  Reduction(code, n) \in Nat
  <1>1. code.kind \in {"fixed", "percentage"} /\ code.value \in Nat
    BY Cents
  <1>2. Lesser(code.value, n) \in Nat /\ Lesser(code.value, 100) \in Nat
    BY <1>1 DEF Lesser
  <1>3. n * Lesser(code.value, 100) \in Nat
    BY <1>2
  <1>4. Rounded(n * Lesser(code.value, 100), 100) \in Nat
    BY <1>3, RoundedCent
  <1> QED BY <1>2, <1>4 DEF Reduction

\* A code never takes the price below the deposit, and a bill still adds up.
LEMMA ReducedAddsUp ==
  ASSUME NEW bill \in QuoteRow, AddsUp(bill), NEW code \in Codes \cup {Unset},
         code # Unset => bill.discount = 0
  PROVE  /\ Reduced(bill, code) \in QuoteRow /\ AddsUp(Reduced(bill, code))
         /\ Reduced(bill, code).state = bill.state
  <1>1. CASE code = Unset
    BY <1>1 DEF Reduced
  <1>2. CASE code # Unset
    <2>1. PICK off : off = Lesser(Reduction(code, bill.final), Reducible(bill))
      OBVIOUS
    <2>2. PICK left : left = Reduced(bill, code)
      OBVIOUS
    <2>3. /\ bill.deposit \in Nat /\ bill.final \in Int /\ bill.deposit <= bill.final
          /\ bill.final \in Nat /\ bill.original \in Nat /\ bill.fee \in Nat
          /\ bill.final = bill.original + bill.fee
      BY <1>2 DEF QuoteRow, AddsUp
    <2>4. Reduction(code, bill.final) \in Nat
      BY <1>2, <2>3, ReductionTyped
    <2>5. Reducible(bill) = bill.final - bill.deposit
      BY <2>3 DEF Reducible
    <2>6. off \in Nat /\ off <= bill.final - bill.deposit
      BY <2>1, <2>3, <2>4, <2>5 DEF Lesser
    <2>7. left = [bill EXCEPT !.discount = off, !.final = @ - off]
      BY <1>2, <2>1, <2>2 DEF Reduced
    <2>8. left = [state |-> bill.state, original |-> bill.original, fee |-> bill.fee,
                  deposit |-> bill.deposit, discount |-> off, final |-> bill.final - off]
      BY <2>7 DEF QuoteRow
    <2>9. left \in QuoteRow
      BY <2>3, <2>6, <2>8 DEF QuoteRow
    <2>10. AddsUp(left)
      BY <2>3, <2>6, <2>8 DEF AddsUp
    <2> QED BY <2>2, <2>8, <2>9, <2>10
  <1> QED BY <1>1, <1>2

LEMMA MenuRestingTyped == Resting \in EditorRow /\ Resting.step = "idle"
  BY DEF Resting, EditorRow

\* One request goes on, in a salon that she stays in.
LEMMA EditorGoesOn ==
  ASSUME MenuInv, NEW e \in Editor, NEW row \in EditorRow,
         editor' = [editor EXCEPT ![e] = row],
         item' \in Item \cup {Unset}, item \in Item => item' \in Item,
         own' \in OwnRow \cup {Unset}, own' # Unset => place = "member",
         quote' \in QuoteRow \cup {Unset}, quote' # Unset => AddsUp(quote'),
         row.step = "service" => item' \in Item /\ row.price # Keep /\ row.deposit # Keep,
         row.step = "book" => row.bill \in QuoteRow /\ AddsUp(row.bill),
         UNCHANGED <<place, owner>>
  PROVE  MenuInv'
  <1>1. /\ editor' \in [Editor -> EditorRow] /\ editor'[e] = row
        /\ \A x \in Editor : x # e => editor'[x] = editor[x]
    BY DEF MenuInv, MenuTypeOK
  <1>2. MenuTypeOK' /\ OffersHere' /\ (owner' => place' = "member")
    BY <1>1 DEF MenuInv, MenuTypeOK, OffersHere
  <1>3. ASSUME NEW x \in Editor
        PROVE  /\ editor'[x].step = "service" =>
                    item' \in Item /\ editor'[x].price # Keep /\ editor'[x].deposit # Keep
               /\ editor'[x].step = "book" =>
                    editor'[x].bill \in QuoteRow /\ AddsUp(editor'[x].bill)
    BY <1>1 DEF MenuInv
  <1> QED BY <1>2, <1>3 DEF MenuInv

\* ... and nothing else changes.
LEMMA OnlyEditorGoesOn ==
  ASSUME MenuInv, NEW e \in Editor, NEW row \in EditorRow,
         editor' = [editor EXCEPT ![e] = row],
         row.step = "service" => item \in Item /\ row.price # Keep /\ row.deposit # Keep,
         row.step = "book" => row.bill \in QuoteRow /\ AddsUp(row.bill),
         UNCHANGED <<item, own, place, owner, quote>>
  PROVE  MenuInv'
  BY EditorGoesOn DEF MenuInv, MenuTypeOK, OffersHere

\* The tables change, the requests stay.
LEMMA TablesGoOn ==
  ASSUME MenuInv,
         item' \in Item \cup {Unset}, item \in Item => item' \in Item,
         own' \in OwnRow \cup {Unset}, own' # Unset => place' = "member",
         place' \in {"before", "member", "gone"}, owner => place' = "member",
         quote' \in QuoteRow \cup {Unset}, quote' # Unset => AddsUp(quote'),
         UNCHANGED <<owner, editor>>
  PROVE  MenuInv'
  <1>1. MenuTypeOK' /\ OffersHere' /\ (owner' => place' = "member")
    BY DEF MenuInv, MenuTypeOK, OffersHere
  <1> QED BY <1>1 DEF MenuInv

LEMMA CreateServiceOK ==
  ASSUME MenuInv, NEW price \in Amounts, NEW deposit \in Amounts, CreateService(price, deposit)
  PROVE  MenuInv'
  <1>1. item' \in Item
    BY DEF CreateService, Item
  <1>2. own' \in OwnRow \cup {Unset} /\ (own' # Unset => place' = "member")
    BY DEF CreateService, OwnRow, MenuInv
  <1> QED BY <1>1, <1>2, TablesGoOn DEF CreateService, MenuInv, MenuTypeOK

LEMMA DeleteServiceOK ==
  ASSUME MenuInv, DeleteService
  PROVE  MenuInv'
  <1>1. item \in Item /\ item' = [item EXCEPT !.active = FALSE]
    BY DEF DeleteService, OnTheMenu, Hidden, MenuInv, MenuTypeOK
  <1>2. item' \in Item
    BY <1>1 DEF Item
  <1> QED BY <1>2, TablesGoOn DEF DeleteService, MenuInv, MenuTypeOK, OffersHere

LEMMA JoinOK ==
  ASSUME MenuInv, Join
  PROVE  MenuInv'
  BY TablesGoOn DEF Join, MenuInv, MenuTypeOK, OffersHere

LEMMA DetachOK ==
  ASSUME MenuInv, Detach
  PROVE  MenuInv'
  BY TablesGoOn DEF Detach, MenuInv, MenuTypeOK

LEMMA ReadServiceOK ==
  ASSUME MenuInv, NEW e \in Editor, NEW price \in Asked, NEW deposit \in Asked,
         NEW active \in BOOLEAN \cup {Unset}, ReadService(e, price, deposit, active)
  PROVE  MenuInv'
  <1>1. PICK row : row = [Resting EXCEPT !.step = "service", !.price = price,
                                         !.deposit = deposit, !.active = active]
    OBVIOUS
  <1>2. row = [step |-> "service", price |-> price, deposit |-> deposit, active |-> active,
               bill |-> Unset]
    BY <1>1 DEF Resting
  <1>3. row \in EditorRow
    BY <1>2 DEF EditorRow, Asked
  <1>4. price # Keep /\ deposit # Keep
    BY Cents DEF Asked
  <1>5. item \in Item
    BY DEF ReadService, OnTheMenu, MenuInv, MenuTypeOK
  <1>6. editor' = [editor EXCEPT ![e] = row] /\ UNCHANGED <<item, own, place, owner, quote>>
    BY <1>1 DEF ReadService, Submits
  <1> QED BY <1>2, <1>3, <1>4, <1>5, <1>6, OnlyEditorGoesOn

LEMMA UpdateServiceOK ==
  ASSUME MenuInv, NEW e \in Editor, UpdateService(e)
  PROVE  MenuInv'
  <1>1. PICK sent : sent = editor[e]
    OBVIOUS
  <1>2. /\ sent \in EditorRow /\ sent.step = "service" /\ item \in Item
        /\ sent.price # Keep /\ sent.deposit # Keep
    BY <1>1 DEF UpdateService, MenuInv, MenuTypeOK
  <1>3. PICK row : row = [price   |-> Or(sent.price, item.price),
                          deposit |-> Or(sent.deposit, item.deposit),
                          active  |-> Or(sent.active, item.active)]
    OBVIOUS
  <1>4. /\ Or(sent.price, item.price) \in Amounts
        /\ Or(sent.deposit, item.deposit) \in Amounts
        /\ Or(sent.active, item.active) \in BOOLEAN
    BY <1>2 DEF Or, EditorRow, Item
  <1>5. row \in Item
    BY <1>3, <1>4 DEF Item
  <1>6. item' \in Item
    BY <1>1, <1>2, <1>3, <1>5 DEF UpdateService
  <1>7. editor' = [editor EXCEPT ![e] = Resting] /\ UNCHANGED <<own, place, owner, quote>>
    BY DEF UpdateService, Answered
  <1> QED BY <1>6, <1>7, MenuRestingTyped, EditorGoesOn DEF MenuInv, MenuTypeOK, OffersHere

LEMMA ReadOfferingOK ==
  ASSUME MenuInv, NEW e \in Editor, NEW price \in Asked \cup {Keep},
         NEW deposit \in Asked \cup {Keep}, ReadOffering(e, price, deposit)
  PROVE  MenuInv'
  <1>1. PICK row : row = [Resting EXCEPT !.step = "offer", !.price = price, !.deposit = deposit]
    OBVIOUS
  <1>2. row = [step |-> "offer", price |-> price, deposit |-> deposit, active |-> Unset,
               bill |-> Unset]
    BY <1>1 DEF Resting
  <1>3. row \in EditorRow
    BY <1>2 DEF EditorRow, Asked
  <1>4. editor' = [editor EXCEPT ![e] = row] /\ UNCHANGED <<item, own, place, owner, quote>>
    BY <1>1 DEF ReadOffering, Submits
  <1> QED BY <1>2, <1>3, <1>4, OnlyEditorGoesOn

LEMMA ReadToSwitchOffOK ==
  ASSUME MenuInv, NEW e \in Editor, ReadToSwitchOff(e)
  PROVE  MenuInv'
  <1>1. PICK row : row = [Resting EXCEPT !.step = "delete"]
    OBVIOUS
  <1>2. row = [step |-> "delete", price |-> Unset, deposit |-> Unset, active |-> Unset,
               bill |-> Unset]
    BY <1>1 DEF Resting
  <1>3. row \in EditorRow
    BY <1>2 DEF EditorRow
  <1>4. editor' = [editor EXCEPT ![e] = row] /\ UNCHANGED <<item, own, place, owner, quote>>
    BY <1>1 DEF ReadToSwitchOff, Submits
  <1> QED BY <1>2, <1>3, <1>4, OnlyEditorGoesOn

\* The statement writes where she is a member at that moment, and only there.
LEMMA UpsertOK ==
  ASSUME MenuInv, NEW e \in Editor, Upsert(e)
  PROVE  MenuInv'
  <1>1. PICK sent : sent = editor[e]
    OBVIOUS
  <1>2. PICK had : had = Or(own, [price |-> Unset, deposit |-> Unset])
    OBVIOUS
  <1>3. sent \in EditorRow /\ sent.step = "offer"
    BY <1>1 DEF Upsert, MenuInv, MenuTypeOK
  <1>4. had \in OwnRow
    BY <1>2 DEF Or, OwnRow, MenuInv, MenuTypeOK
  <1>5. PICK row : row = [price   |-> IF sent.price = Keep THEN had.price ELSE sent.price,
                          deposit |-> IF sent.deposit = Keep THEN had.deposit ELSE sent.deposit]
    OBVIOUS
  <1>6. row \in OwnRow
    BY <1>3, <1>4, <1>5 DEF OwnRow, EditorRow
  <1>7. own' = IF place = "member" THEN row ELSE own
    BY <1>1, <1>2, <1>5 DEF Upsert, SellsHere
  <1>8. own' \in OwnRow \cup {Unset} /\ (own' # Unset => place = "member")
    BY <1>6, <1>7 DEF MenuInv, MenuTypeOK, OffersHere
  <1>9. editor' = [editor EXCEPT ![e] = Resting] /\ UNCHANGED <<item, place, owner, quote>>
    BY DEF Upsert, Answered
  <1> QED BY <1>8, <1>9, MenuRestingTyped, EditorGoesOn DEF MenuInv, MenuTypeOK

LEMMA SwitchOffOK ==
  ASSUME MenuInv, NEW e \in Editor, SwitchOff(e)
  PROVE  MenuInv'
  <1>1. editor' = [editor EXCEPT ![e] = Resting] /\ own' = Unset
        /\ UNCHANGED <<item, place, owner, quote>>
    BY DEF SwitchOff, Answered
  <1> QED BY <1>1, MenuRestingTyped, EditorGoesOn DEF MenuInv, MenuTypeOK

LEMMA ReadToBookOK ==
  ASSUME MenuInv, NEW e \in Editor, NEW fee \in Fees, NEW code \in Codes \cup {Unset},
         ReadToBook(e, fee, code)
  PROVE  MenuInv'
  <1>1. PICK cost : cost = Price
    OBVIOUS
  <1>2. PICK asked : asked = Deposit
    OBVIOUS
  <1>3. item \in Item /\ own \in OwnRow
    BY DEF ReadToBook, Offered, OnTheMenu, MenuInv, MenuTypeOK
  <1>4. cost \in Nat
    BY <1>1, <1>3, Cents DEF Price, Or, Item, OwnRow
  <1>5. asked \in Nat /\ asked <= cost
    BY <1>1, <1>2, <1>3, <1>4, Cents DEF Deposit, Lesser, Or, Item, OwnRow
  <1>6. PICK bill : bill = [state |-> "held", original |-> cost, fee |-> fee, deposit |-> asked,
                            discount |-> 0, final |-> cost + fee]
    OBVIOUS
  <1>7. fee \in Nat
    BY Cents
  <1>8. bill \in QuoteRow /\ AddsUp(bill) /\ bill.discount = 0
    BY <1>4, <1>5, <1>6, <1>7 DEF QuoteRow, AddsUp
  <1>9. PICK net : net = Reduced(bill, code)
    OBVIOUS
  <1>10. net \in QuoteRow /\ AddsUp(net)
    BY <1>8, <1>9, ReducedAddsUp
  <1>11. PICK row : row = [Resting EXCEPT !.step = "book", !.bill = net]
    OBVIOUS
  <1>12. row = [step |-> "book", price |-> Unset, deposit |-> Unset, active |-> Unset,
                bill |-> net]
    BY <1>11 DEF Resting
  <1>13. row \in EditorRow
    BY <1>10, <1>12 DEF EditorRow
  <1>14. editor' = [editor EXCEPT ![e] = row] /\ UNCHANGED <<item, own, place, owner, quote>>
    BY <1>1, <1>2, <1>6, <1>9, <1>11 DEF ReadToBook, Submits
  <1> QED BY <1>10, <1>12, <1>13, <1>14, OnlyEditorGoesOn

LEMMA InsertBillOK ==
  ASSUME MenuInv, NEW e \in Editor, InsertBill(e)
  PROVE  MenuInv'
  <1>1. editor[e].bill \in QuoteRow /\ AddsUp(editor[e].bill)
    BY DEF InsertBill, MenuInv
  <1>2. quote' \in QuoteRow \cup {Unset} /\ (quote' # Unset => AddsUp(quote'))
    BY <1>1 DEF InsertBill, MenuInv, MenuTypeOK
  <1>3. editor' = [editor EXCEPT ![e] = Resting] /\ UNCHANGED <<item, own, place, owner>>
    BY DEF InsertBill, Answered
  <1> QED BY <1>2, <1>3, MenuRestingTyped, EditorGoesOn DEF MenuInv, MenuTypeOK, OffersHere

LEMMA SubmitOK ==
  ASSUME MenuInv, NEW code \in Codes \cup {Unset}, Submit(code)
  PROVE  MenuInv'
  <1>1. quote \in QuoteRow /\ AddsUp(quote) /\ (code # Unset => quote.discount = 0)
    BY DEF Submit, MenuInv, MenuTypeOK, QuoteRow
  <1>2. PICK net : net = Reduced(quote, code)
    OBVIOUS
  <1>3. net \in QuoteRow /\ AddsUp(net)
    BY <1>1, <1>2, ReducedAddsUp
  <1>4. PICK row : row = [net EXCEPT !.state = "pending"]
    OBVIOUS
  <1>5. row = [state |-> "pending", original |-> net.original, fee |-> net.fee,
               deposit |-> net.deposit, discount |-> net.discount, final |-> net.final]
    BY <1>3, <1>4 DEF QuoteRow
  <1>6. row \in QuoteRow /\ AddsUp(row)
    BY <1>3, <1>5 DEF QuoteRow, AddsUp
  <1>7. quote' = row /\ UNCHANGED <<item, own, place, owner, editor>>
    BY <1>2, <1>4 DEF Submit
  <1> QED BY <1>6, <1>7, TablesGoOn DEF MenuInv, MenuTypeOK, OffersHere

LEMMA RequireNoShowDepositOK ==
  ASSUME MenuInv, RequireNoShowDeposit
  PROVE  MenuInv'
  <1>1. quote \in QuoteRow /\ AddsUp(quote) /\ quote.final > 0 /\ quote.final \in Nat
    BY DEF RequireNoShowDeposit, MenuInv, MenuTypeOK, QuoteRow
  <1>2. PICK half : half = Rounded(quote.final, 2)
    OBVIOUS
  <1>3. half \in Nat /\ half <= quote.final
    BY <1>1, <1>2, RoundedHalf
  <1>4. PICK row : row = [quote EXCEPT !.deposit = half]
    OBVIOUS
  <1>5. row = [state |-> quote.state, original |-> quote.original, fee |-> quote.fee,
               deposit |-> half, discount |-> quote.discount, final |-> quote.final]
    BY <1>1, <1>4 DEF QuoteRow
  <1>6. row \in QuoteRow /\ AddsUp(row)
    BY <1>1, <1>3, <1>5 DEF QuoteRow, AddsUp
  <1>7. quote' = row /\ UNCHANGED <<item, own, place, owner, editor>>
    BY <1>2, <1>4 DEF RequireNoShowDeposit
  <1> QED BY <1>6, <1>7, TablesGoOn DEF MenuInv, MenuTypeOK, OffersHere

LEMMA MenuStep == MenuInv /\ [MenuNext]_menuVars => MenuInv'
  <1> SUFFICES ASSUME MenuInv, [MenuNext]_menuVars PROVE MenuInv'
    OBVIOUS
  <1>1. CASE UNCHANGED menuVars
    BY <1>1 DEF menuVars, MenuInv, MenuTypeOK, OffersHere
  <1>2. ASSUME NEW e \in Editor, EditorStep(e) PROVE MenuInv'
    BY <1>2, ReadServiceOK, UpdateServiceOK, ReadOfferingOK, ReadToSwitchOffOK, UpsertOK,
       SwitchOffOK, ReadToBookOK, InsertBillOK DEF EditorStep
  <1> QED BY <1>1, <1>2, CreateServiceOK, DeleteServiceOK, JoinOK, DetachOK, SubmitOK,
             RequireNoShowDepositOK DEF MenuNext

LEMMA MenuStart == MenuInit => MenuInv
  BY MenuRestingTyped DEF MenuInit, MenuInv, MenuTypeOK, OffersHere

LEMMA MenuHolds == MenuSpec => []MenuInv
  BY MenuStart, MenuStep, PTL DEF MenuSpec

\* The menu, the requests and the booking's prices keep their shape.
THEOREM MenuTyped == MenuSpec => []MenuTypeOK
  <1>1. MenuInv => MenuTypeOK
    BY DEF MenuInv
  <1> QED BY <1>1, MenuHolds, PTL

\* In whatever order the owner's and the artist's edits landed, a booking adds
\* up and asks for no deposit above its price.
THEOREM QuoteAlwaysStands == MenuSpec => []QuoteStands
  <1>1. MenuInv => QuoteStands
    BY DEF MenuInv, QuoteStands, AddsUp
  <1> QED BY <1>1, MenuHolds, PTL

\* Nobody offers the service of a salon that she is not in, late requests
\* included.
THEOREM OffersStayHere == MenuSpec => []OffersHere
  <1>1. MenuInv => OffersHere
    BY DEF MenuInv
  <1> QED BY <1>1, MenuHolds, PTL

-----------------------------------------------------------------------------
(* The shop.  An order that stands took exactly its lines from a shelf     *)
(* whose tracking was not switched on since, so what a cancellation puts   *)
(* back is no more than it took; and a redemption is given back only for   *)
(* what no longer stands.                                                  *)

Took ==
  \A s \in Sale, p \in Product :
    sale[s].state \in OrderStates /\ ~switched[p] /\ Tracked(p) =>
      sale[s].took[p] = Units(sale[s].lines, p)

Redeemed ==
  /\ \A s, t \in Sale :
       sale[s].used = "consumed" /\ sale[t].used = "consumed" /\ sale[s].who = sale[t].who
       => s = t
  /\ \A s \in Sale : sale[s].used = "released" => sale[s].state = "cancelled"
  /\ \A r \in Checkout :
       checkout[r].step = "release" =>
         checkout[r].of \in Sale /\ sale[checkout[r].of].state = "cancelled"

ShopInv == ShopTypeOK /\ NeverOversold /\ Took /\ Redeemed

LEMMA Shelf ==
  /\ Untracked \notin Int /\ Levels \subseteq Nat /\ Carts \subseteq Seq(Product)
  /\ Nobody \notin Customer /\ NoKey \notin Key /\ 0 \notin Sale
  BY ShopParameters

LEMMA UnitsCount ==
  ASSUME NEW lines \in Carts \cup {<<>>}, NEW p
  PROVE  /\ Units(lines, p) \in Nat
         /\ p \in Wanted(lines) => Units(lines, p) >= 1
         /\ p \notin Wanted(lines) => Units(lines, p) = 0
  <1>1. lines \in Seq(Product)
    <2>1. CASE lines = <<>>
      BY <2>1
    <2>2. CASE lines \in Carts
      BY <2>2, Shelf
    <2> QED BY <2>1, <2>2
  <1>2. PICK n \in Nat : DOMAIN lines = 1 .. n
    BY <1>1
  <1>3. IsFiniteSet(DOMAIN lines)
    BY <1>2, FS_Interval
  <1>4. PICK I : I = {i \in DOMAIN lines : lines[i] = p}
    OBVIOUS
  <1>5. IsFiniteSet(I)
    BY <1>3, <1>4, FS_Subset
  <1>6. Cardinality(I) \in Nat /\ (Cardinality(I) = 0 <=> I = {})
    BY <1>5, FS_CardinalityType, FS_EmptySet
  <1>7. p \in Wanted(lines) <=> I # {}
    BY <1>4 DEF Wanted
  <1> QED BY <1>4, <1>6, <1>7 DEF Units

LEMMA IdleTyped == Idle \in CheckoutRow /\ Idle.step = "idle"
  BY DEF Idle, CheckoutRow, Steps

LEMMA NothingTyped == Nothing \in [Product -> Nat]
  BY DEF Nothing

\* A request goes on, the tables stay.
LEMMA CheckoutGoesOn ==
  ASSUME ShopInv, NEW r \in Checkout, NEW row \in CheckoutRow, Moves(r, row),
         row.step # "release",
         UNCHANGED <<product, discount, sale, held, supplied, switched>>
  PROVE  ShopInv'
  <1>1. /\ checkout' \in [Checkout -> CheckoutRow] /\ checkout'[r] = row
        /\ \A x \in Checkout : x # r => checkout'[x] = checkout[x]
    BY DEF Moves, ShopInv, ShopTypeOK
  <1>2. ShopTypeOK'
    BY <1>1 DEF ShopInv, ShopTypeOK
  <1>3. NeverOversold' /\ Took'
    BY DEF ShopInv, NeverOversold, Took, Tracked
  <1>4. Redeemed'
    BY <1>1 DEF ShopInv, Redeemed
  <1> QED BY <1>2, <1>3, <1>4 DEF ShopInv

\* The same request, a step further.
LEMMA ProceedsOK ==
  ASSUME ShopInv, NEW r \in Checkout, NEW step \in Steps \ {"release"}, Proceeds(r, step),
         UNCHANGED <<product, discount, sale, held, supplied, switched>>
  PROVE  ShopInv'
  <1>1. PICK old : old = checkout[r]
    OBVIOUS
  <1>2. PICK row : row = [old EXCEPT !.step = step]
    OBVIOUS
  <1>3. old \in CheckoutRow
    BY <1>1 DEF ShopInv, ShopTypeOK
  <1>4. row = [step |-> step, key |-> old.key, who |-> old.who, lines |-> old.lines,
               asks |-> old.asks, applied |-> old.applied, of |-> old.of]
    BY <1>2, <1>3 DEF CheckoutRow
  <1>5. row \in CheckoutRow
    BY <1>3, <1>4 DEF CheckoutRow
  <1> QED BY <1>1, <1>2, <1>4, <1>5, CheckoutGoesOn DEF Proceeds

LEMMA EndsOK ==
  ASSUME ShopInv, NEW r \in Checkout, Ends(r),
         UNCHANGED <<product, discount, sale, held, supplied, switched>>
  PROVE  ShopInv'
  BY IdleTyped, CheckoutGoesOn DEF Ends

LEMMA PlaceOrderOK ==
  ASSUME ShopInv, NEW r \in Checkout, NEW c \in Customer, NEW k \in Key \cup {NoKey},
         NEW lines \in Carts, NEW asks \in BOOLEAN, PlaceOrder(r, c, k, lines, asks)
  PROVE  ShopInv'
  <1>1. PICK step : step = IF k = NoKey THEN "price" ELSE "look"
    OBVIOUS
  <1>2. PICK row : row = [Idle EXCEPT !.step = step, !.key = k, !.who = c, !.lines = lines,
                                      !.asks = asks]
    OBVIOUS
  <1>3. row = [step |-> step, key |-> k, who |-> c, lines |-> lines, asks |-> asks,
               applied |-> FALSE, of |-> 0]
    BY <1>2 DEF Idle
  <1>4. row \in CheckoutRow /\ row.step # "release"
    BY <1>1, <1>3 DEF CheckoutRow, Steps
  <1> QED BY <1>1, <1>2, <1>4, CheckoutGoesOn DEF PlaceOrder

LEMMA BookOK ==
  ASSUME ShopInv, NEW r \in Checkout, NEW c \in Customer, Book(r, c)
  PROVE  ShopInv'
  <1>1. PICK row : row = [Idle EXCEPT !.step = "resolve", !.who = c, !.asks = TRUE]
    OBVIOUS
  <1>2. row = [step |-> "resolve", key |-> NoKey, who |-> c, lines |-> <<>>, asks |-> TRUE,
               applied |-> FALSE, of |-> 0]
    BY <1>1 DEF Idle
  <1>3. row \in CheckoutRow /\ row.step # "release"
    BY <1>2 DEF CheckoutRow, Steps
  <1> QED BY <1>1, <1>3, CheckoutGoesOn DEF Book

LEMMA ApplyDiscountOK ==
  ASSUME ShopInv, NEW r \in Checkout, ApplyDiscount(r)
  PROVE  ShopInv'
  <1>1. PICK old : old = checkout[r]
    OBVIOUS
  <1>2. PICK yes : yes = Eligible(old.who)
    OBVIOUS
  <1>3. PICK row : row = [[old EXCEPT !.applied = yes] EXCEPT !.step = "create"]
    OBVIOUS
  <1>4. old \in CheckoutRow
    BY <1>1 DEF ShopInv, ShopTypeOK
  <1>5. yes \in BOOLEAN
    BY <1>2 DEF Eligible
  <1>6. row = [step |-> "create", key |-> old.key, who |-> old.who, lines |-> old.lines,
               asks |-> old.asks, applied |-> yes, of |-> old.of]
    BY <1>3, <1>4 DEF CheckoutRow
  <1>7. row \in CheckoutRow /\ row.step # "release"
    BY <1>4, <1>5, <1>6 DEF CheckoutRow, Steps
  <1> QED BY <1>1, <1>2, <1>3, <1>7, CheckoutGoesOn DEF ApplyDiscount, Resolve

\* One sale is written.
LEMMA SaleGoesOn ==
  ASSUME ShopInv, NEW s \in Sale, NEW row \in SaleRow, sale' = [sale EXCEPT ![s] = row],
         UNCHANGED switched,
         \A p \in Product : product'[p].stock # Untracked => product[p].stock # Untracked,
         row.state \in OrderStates =>
           \A p \in Product :
             ~switched[p] /\ Tracked(p) => row.took[p] = Units(row.lines, p),
         row.used = "released" => row.state = "cancelled",
         row.used = "consumed" =>
           \A t \in Sale \ {s} : sale[t].used = "consumed" => sale[t].who # row.who,
         sale[s].state = "cancelled" => row.state = "cancelled",
         \A q \in Checkout :
           checkout'[q].step = "release" =>
             \/ checkout[q].step = "release" /\ checkout'[q].of = checkout[q].of
             \/ checkout'[q].of = s /\ row.state = "cancelled"
  PROVE  sale' \in [Sale -> SaleRow] /\ Took' /\ Redeemed'
  <1>1. /\ sale' \in [Sale -> SaleRow] /\ sale'[s] = row
        /\ \A t \in Sale : t # s => sale'[t] = sale[t]
    BY DEF ShopInv, ShopTypeOK
  <1>2. Took'
    <2>1. ASSUME NEW t \in Sale, NEW p \in Product, sale'[t].state \in OrderStates,
                 ~switched[p], product'[p].stock # Untracked
          PROVE  sale'[t].took[p] = Units(sale'[t].lines, p)
      <3>1. CASE t = s
        BY <1>1, <2>1, <3>1 DEF Tracked
      <3>2. CASE t # s
        BY <1>1, <2>1, <3>2 DEF Tracked, ShopInv, Took
      <3> QED BY <3>1, <3>2
    <2> QED BY <2>1 DEF Took, Tracked
  <1>3. ASSUME NEW t \in Sale, NEW u \in Sale, sale'[t].used = "consumed",
               sale'[u].used = "consumed", sale'[t].who = sale'[u].who
        PROVE  t = u
    <2>1. CASE t = s
      BY <1>1, <1>3, <2>1
    <2>2. CASE u = s
      BY <1>1, <1>3, <2>2
    <2>3. CASE t # s /\ u # s
      BY <1>1, <1>3, <2>3 DEF ShopInv, Redeemed
    <2> QED BY <2>1, <2>2, <2>3
  <1>4. ASSUME NEW t \in Sale, sale'[t].used = "released" PROVE sale'[t].state = "cancelled"
    BY <1>1, <1>4 DEF ShopInv, Redeemed
  <1>5. ASSUME NEW q \in Checkout, checkout'[q].step = "release"
        PROVE  checkout'[q].of \in Sale /\ sale'[checkout'[q].of].state = "cancelled"
    BY <1>1, <1>5 DEF ShopInv, Redeemed
  <1> QED BY <1>1, <1>2, <1>3, <1>4, <1>5 DEF Redeemed

\* A sale is created by a request that found the code free for its customer.
LEMMA NewSaleTyped ==
  ASSUME ShopInv, NEW r \in Checkout, NEW state \in {"placed", "booked"},
         NEW took \in [Product -> Nat], FirstRedemption(checkout[r]),
         NEW s \in Sale, NEW row,
         row = [state |-> state, key |-> checkout[r].key, who |-> checkout[r].who,
                lines |-> checkout[r].lines, took |-> took,
                used |-> IF checkout[r].applied THEN "consumed" ELSE "no"]
  PROVE  /\ row \in SaleRow /\ row.used # "released"
         /\ row.used = "consumed" =>
              \A t \in Sale \ {s} : sale[t].used = "consumed" => sale[t].who # row.who
  <1>1. checkout[r] \in CheckoutRow
    BY DEF ShopInv, ShopTypeOK
  <1>2. row \in SaleRow
    BY <1>1 DEF CheckoutRow, SaleRow, SaleStates, OrderStates
  <1> QED BY <1>2 DEF FirstRedemption, ConsumedBy, Consumed

LEMMA CreateBookingOK ==
  ASSUME ShopInv, NEW r \in Checkout, CreateBooking(r)
  PROVE  ShopInv'
  <1>1. CASE FirstRedemption(checkout[r])
    <2>1. PICK s \in Sale :
            /\ sale[s].state = "none"
            /\ sale' = [sale EXCEPT ![s] =
                 [state |-> "booked", key |-> checkout[r].key, who |-> checkout[r].who,
                  lines |-> checkout[r].lines, took |-> Nothing,
                  used |-> IF checkout[r].applied THEN "consumed" ELSE "no"]]
      BY <1>1 DEF CreateBooking, NewSale
    <2>2. PICK row : row = [state |-> "booked", key |-> checkout[r].key, who |-> checkout[r].who,
                            lines |-> checkout[r].lines, took |-> Nothing,
                            used |-> IF checkout[r].applied THEN "consumed" ELSE "no"]
      OBVIOUS
    <2>3. /\ row \in SaleRow /\ row.used # "released" /\ row.state = "booked"
          /\ row.used = "consumed" =>
               \A t \in Sale \ {s} : sale[t].used = "consumed" => sale[t].who # row.who
      BY <1>1, <2>2, NewSaleTyped, NothingTyped
    <2>4. /\ checkout' \in [Checkout -> CheckoutRow] /\ checkout'[r].step = "idle"
          /\ \A x \in Checkout : x # r => checkout'[x] = checkout[x]
      BY IdleTyped DEF CreateBooking, Ends, Moves, ShopInv, ShopTypeOK
    <2>5. UNCHANGED <<product, discount, held, supplied, switched>>
      BY DEF CreateBooking
    <2>6. sale' \in [Sale -> SaleRow] /\ Took' /\ Redeemed'
      BY <2>1, <2>2, <2>3, <2>4, <2>5, SaleGoesOn DEF OrderStates
    <2>7. ShopTypeOK' /\ NeverOversold'
      BY <2>4, <2>5, <2>6 DEF ShopInv, ShopTypeOK, NeverOversold, Tracked
    <2> QED BY <2>6, <2>7 DEF ShopInv
  <1>2. CASE ~FirstRedemption(checkout[r])
    BY <1>2, EndsOK DEF CreateBooking
  <1> QED BY <1>1, <1>2

\* Each line comes off a shelf that has it, and is held as it comes off.
LEMMA CreateOrderOK ==
  ASSUME ShopInv, NEW r \in Checkout, CreateOrder(r)
  PROVE  ShopInv'
  <1>1. CASE PlacedWith(checkout[r].key) # {}
    BY <1>1, ProceedsOK DEF CreateOrder, Steps
  <1>2. CASE Ends(r) /\ UNCHANGED <<product, sale, held>>
    BY <1>2, EndsOK DEF CreateOrder
  <1>3. CASE /\ PlacedWith(checkout[r].key) = {}
             /\ InStock(checkout[r].lines) /\ FirstRedemption(checkout[r])
    <2>1. PICK lines : lines = checkout[r].lines
      OBVIOUS
    <2>2. lines \in Carts \cup {<<>>}
      BY <2>1 DEF ShopInv, ShopTypeOK, CheckoutRow
    <2>3. PICK took : took = Takes(lines)
      OBVIOUS
    <2>4. took \in [Product -> Nat]
      BY <2>2, <2>3, UnitsCount DEF Takes
    <2>5. PICK s \in Sale :
            /\ sale[s].state = "none"
            /\ sale' = [sale EXCEPT ![s] =
                 [state |-> "placed", key |-> checkout[r].key, who |-> checkout[r].who,
                  lines |-> checkout[r].lines, took |-> took,
                  used |-> IF checkout[r].applied THEN "consumed" ELSE "no"]]
      BY <1>3, <2>1, <2>3 DEF CreateOrder, NewSale
    <2>6. PICK row : row = [state |-> "placed", key |-> checkout[r].key, who |-> checkout[r].who,
                            lines |-> checkout[r].lines, took |-> took,
                            used |-> IF checkout[r].applied THEN "consumed" ELSE "no"]
      OBVIOUS
    <2>7. /\ row \in SaleRow /\ row.used # "released" /\ row.state = "placed"
          /\ row.used = "consumed" =>
               \A t \in Sale \ {s} : sale[t].used = "consumed" => sale[t].who # row.who
      BY <1>3, <2>4, <2>6, NewSaleTyped
    <2>8. /\ checkout' \in [Checkout -> CheckoutRow] /\ checkout'[r].step = "idle"
          /\ \A x \in Checkout : x # r => checkout'[x] = checkout[x]
      BY <1>3, IdleTyped DEF CreateOrder, Ends, Moves, ShopInv, ShopTypeOK
    <2>9. /\ product' = [p \in Product |->
               IF Tracked(p) THEN [product[p] EXCEPT !.stock = @ - Units(lines, p)]
               ELSE product[p]]
          /\ held' = [p \in Product |-> held[p] + took[p]]
          /\ UNCHANGED <<discount, supplied, switched>>
      BY <1>3, <2>1, <2>3 DEF CreateOrder
    <2>10. ASSUME NEW p \in Product
           PROVE  /\ product'[p] \in [stock : Int \cup {Untracked}, active : BOOLEAN]
                  /\ product'[p].stock # Untracked => Tracked(p)
                  /\ Tracked(p) =>
                       /\ product[p].stock \in Int /\ took[p] = Units(lines, p)
                       /\ product'[p].stock = product[p].stock - Units(lines, p)
                       /\ product[p].stock >= 0 => product'[p].stock >= 0
      <3>1. product[p] \in [stock : Int \cup {Untracked}, active : BOOLEAN]
        BY DEF ShopInv, ShopTypeOK
      <3>2. CASE Tracked(p)
        <4>1. PICK n : n = Units(lines, p)
          OBVIOUS
        <4>2. n \in Nat /\ (p \in Wanted(lines) => n >= 1) /\ (p \notin Wanted(lines) => n = 0)
          BY <2>2, <4>1, UnitsCount
        <4>3. product[p].stock \in Int
          BY <3>1, <3>2 DEF Tracked
        <4>4. product'[p] = [product[p] EXCEPT !.stock = product[p].stock - n]
          BY <2>9, <3>2, <4>1
        <4>5. product'[p] = [stock |-> product[p].stock - n, active |-> product[p].active]
          BY <3>1, <4>4
        <4>6. p \in Wanted(lines) => product[p].stock >= n
          BY <1>3, <2>1, <3>2, <4>1 DEF InStock
        <4>7. took[p] = n
          BY <2>3, <3>2, <4>1 DEF Takes
        <4>8. product[p].stock - n \in Int
          BY <4>2, <4>3
        <4> QED BY <3>1, <3>2, <4>1, <4>2, <4>3, <4>5, <4>6, <4>7, <4>8
      <3>3. CASE ~Tracked(p)
        BY <2>9, <3>1, <3>3 DEF Tracked
      <3> QED BY <3>2, <3>3
    <2>11. \A p \in Product :
             ~switched[p] /\ Tracked(p) => row.took[p] = Units(row.lines, p)
      BY <2>1, <2>6, <2>10
    <2>12. sale' \in [Sale -> SaleRow] /\ Took' /\ Redeemed'
      <3>1. \A q \in Checkout : checkout'[q].step = "release" =>
              checkout[q].step = "release" /\ checkout'[q].of = checkout[q].of
        BY <2>8
      <3>2. sale' = [sale EXCEPT ![s] = row] /\ sale[s].state # "cancelled"
        BY <2>5, <2>6
      <3>3. \A p \in Product : product'[p].stock # Untracked => product[p].stock # Untracked
        BY <2>10 DEF Tracked
      <3> QED BY <2>7, <2>9, <2>11, <3>1, <3>2, <3>3, SaleGoesOn
    <2>13. ShopTypeOK'
      <3>1. product' \in [Product -> [stock : Int \cup {Untracked}, active : BOOLEAN]]
        BY <2>9, <2>10
      <3>2. held' \in [Product -> Int]
        BY <2>4, <2>9 DEF ShopInv, ShopTypeOK
      <3> QED BY <2>8, <2>9, <2>12, <3>1, <3>2 DEF ShopInv, ShopTypeOK
    <2>14. ASSUME NEW p \in Product, ~switched[p], product'[p].stock # Untracked
           PROVE  product'[p].stock >= 0 /\ product'[p].stock + held'[p] <= supplied[p]
      <3>1. Tracked(p)
        BY <2>10, <2>14
      <3>2. product[p].stock >= 0 /\ product[p].stock + held[p] <= supplied[p]
        BY <2>14, <3>1 DEF ShopInv, NeverOversold
      <3>3. held[p] \in Int /\ supplied[p] \in Int /\ took[p] \in Nat /\ held'[p] = held[p] + took[p]
        BY <2>4, <2>9 DEF ShopInv, ShopTypeOK
      <3> QED BY <2>10, <3>1, <3>2, <3>3
    <2>15. NeverOversold'
      BY <2>9, <2>14 DEF NeverOversold, Tracked
    <2> QED BY <2>12, <2>13, <2>15 DEF ShopInv
  <1> QED BY <1>1, <1>2, <1>3 DEF CreateOrder

\* A sale that is there takes another state.
LEMMA StateTyped ==
  ASSUME ShopInv, NEW s \in Sale, NEW state \in SaleStates, NEW row,
         row = [sale[s] EXCEPT !.state = state]
  PROVE  /\ row \in SaleRow /\ row.state = state /\ row.who = sale[s].who
         /\ row.took = sale[s].took /\ row.lines = sale[s].lines /\ row.used = sale[s].used
  <1>1. PICK old : old = sale[s]
    OBVIOUS
  <1>2. old \in SaleRow
    BY <1>1 DEF ShopInv, ShopTypeOK
  <1>3. row = [state |-> state, key |-> old.key, who |-> old.who, lines |-> old.lines,
               took |-> old.took, used |-> old.used]
    BY <1>1, <1>2 DEF SaleRow
  <1> QED BY <1>1, <1>2, <1>3 DEF SaleRow

LEMMA StateGoesOn ==
  ASSUME ShopInv, NEW s \in Sale, NEW state \in SaleStates,
         sale' = [sale EXCEPT ![s] = [@ EXCEPT !.state = state]],
         UNCHANGED switched,
         \A p \in Product : product'[p].stock # Untracked => product[p].stock # Untracked,
         state \in OrderStates => sale[s].state \in OrderStates,
         state = "cancelled" \/ sale[s].state # "cancelled",
         state = "cancelled" \/ sale[s].used # "released",
         \A q \in Checkout :
           checkout'[q].step = "release" =>
             \/ checkout[q].step = "release" /\ checkout'[q].of = checkout[q].of
             \/ checkout'[q].of = s /\ state = "cancelled"
  PROVE  sale' \in [Sale -> SaleRow] /\ Took' /\ Redeemed'
  <1>1. PICK row : row = [sale[s] EXCEPT !.state = state]
    OBVIOUS
  <1>2. /\ row \in SaleRow /\ row.state = state /\ row.who = sale[s].who
        /\ row.took = sale[s].took /\ row.lines = sale[s].lines /\ row.used = sale[s].used
    BY <1>1, StateTyped
  <1>3. sale' = [sale EXCEPT ![s] = row]
    BY <1>1 DEF ShopInv, ShopTypeOK
  <1>4. row.state \in OrderStates =>
          \A p \in Product : ~switched[p] /\ Tracked(p) => row.took[p] = Units(row.lines, p)
    BY <1>2 DEF ShopInv, Took
  <1>5. row.used = "released" => row.state = "cancelled"
    BY <1>2
  <1>6. row.used = "consumed" =>
          \A t \in Sale \ {s} : sale[t].used = "consumed" => sale[t].who # row.who
    BY <1>2 DEF ShopInv, Redeemed
  <1>7. sale[s].state = "cancelled" => row.state = "cancelled"
    BY <1>2
  <1>8. \A q \in Checkout :
          checkout'[q].step = "release" =>
            \/ checkout[q].step = "release" /\ checkout'[q].of = checkout[q].of
            \/ checkout'[q].of = s /\ row.state = "cancelled"
    BY <1>2
  <1> QED BY <1>2, <1>3, <1>4, <1>5, <1>6, <1>7, <1>8, SaleGoesOn

\* ... while the shelves stay.
LEMMA OnlyStateGoesOn ==
  ASSUME ShopInv, NEW s \in Sale, NEW state \in SaleStates,
         sale' = [sale EXCEPT ![s] = [@ EXCEPT !.state = state]],
         checkout' \in [Checkout -> CheckoutRow],
         UNCHANGED <<product, discount, held, supplied, switched>>,
         state \in OrderStates => sale[s].state \in OrderStates,
         state = "cancelled" \/ sale[s].state # "cancelled",
         state = "cancelled" \/ sale[s].used # "released",
         \A q \in Checkout :
           checkout'[q].step = "release" =>
             \/ checkout[q].step = "release" /\ checkout'[q].of = checkout[q].of
             \/ checkout'[q].of = s /\ state = "cancelled"
  PROVE  ShopInv'
  <1>1. sale' \in [Sale -> SaleRow] /\ Took' /\ Redeemed'
    BY StateGoesOn
  <1>2. ShopTypeOK' /\ NeverOversold'
    BY <1>1 DEF ShopInv, ShopTypeOK, NeverOversold, Tracked
  <1> QED BY <1>1, <1>2 DEF ShopInv

LEMMA UpdateOrderStatusOK ==
  ASSUME ShopInv, NEW s \in Sale, UpdateOrderStatus(s)
  PROVE  ShopInv'
  <1>1. PICK state \in {"confirmed", "shipped", "delivered"} :
          /\ sale' = [sale EXCEPT ![s].state = state]
          /\ sale[s].state \in {"placed", "confirmed", "shipped"}
    BY DEF UpdateOrderStatus
  <1>2. UNCHANGED <<product, discount, checkout, held, supplied, switched>>
    BY DEF UpdateOrderStatus
  <1>3. sale[s].used # "released"
    BY <1>1 DEF ShopInv, Redeemed
  <1>4. /\ state \in SaleStates /\ sale[s].state \in OrderStates
        /\ checkout' \in [Checkout -> CheckoutRow]
    BY <1>1, <1>2 DEF SaleStates, OrderStates, ShopInv, ShopTypeOK
  <1> QED BY <1>1, <1>2, <1>3, <1>4, OnlyStateGoesOn

LEMMA CompleteBookingOK ==
  ASSUME ShopInv, NEW s \in Sale, CompleteBooking(s)
  PROVE  ShopInv'
  <1>1. sale[s].used # "released" /\ sale[s].state = "booked"
    BY DEF CompleteBooking, ShopInv, Redeemed
  <1>2. /\ "completed" \in SaleStates /\ "completed" \notin OrderStates
        /\ checkout' \in [Checkout -> CheckoutRow]
    BY DEF CompleteBooking, SaleStates, OrderStates, ShopInv, ShopTypeOK
  <1> QED BY <1>1, <1>2, OnlyStateGoesOn DEF CompleteBooking

LEMMA CancelBookingOK ==
  ASSUME ShopInv, NEW r \in Checkout, NEW s \in Sale, NEW blameless \in BOOLEAN,
         CancelBooking(r, s, blameless)
  PROVE  ShopInv'
  <1>1. /\ "cancelled" \in SaleStates /\ "cancelled" \notin OrderStates
        /\ sale' = [sale EXCEPT ![s].state = "cancelled"]
        /\ UNCHANGED <<product, discount, held, supplied, switched>>
    BY DEF CancelBooking, SaleStates, OrderStates
  <1>2. PICK row : row = [Idle EXCEPT !.step = "release", !.of = s]
    OBVIOUS
  <1>3. row = [step |-> "release", key |-> NoKey, who |-> Nobody, lines |-> <<>>,
               asks |-> FALSE, applied |-> FALSE, of |-> s]
    BY <1>2 DEF Idle
  <1>4. row \in CheckoutRow
    BY <1>3 DEF CheckoutRow, Steps
  <1>5. checkout' = checkout \/ checkout' = [checkout EXCEPT ![r] = row]
    BY <1>2 DEF CancelBooking, Moves
  <1>6. /\ checkout' \in [Checkout -> CheckoutRow]
        /\ \A q \in Checkout :
             \/ checkout'[q] = checkout[q]
             \/ checkout'[q].of = s
    <2>1. CASE checkout' = checkout
      BY <2>1 DEF ShopInv, ShopTypeOK
    <2>2. CASE checkout' = [checkout EXCEPT ![r] = row]
      <3>1. row.of = s
        BY <1>3
      <3>2. checkout \in [Checkout -> CheckoutRow]
        BY DEF ShopInv, ShopTypeOK
      <3> QED BY <1>4, <2>2, <3>1, <3>2
    <2> QED BY <1>5, <2>1, <2>2
  <1> QED BY <1>1, <1>6, OnlyStateGoesOn

\* Of each product no more goes back than the order took.
LEMMA CancelOrderOK ==
  ASSUME ShopInv, NEW s \in Sale, CancelOrder(s)
  PROVE  ShopInv'
  <1>1. PICK lines : lines = sale[s].lines
    OBVIOUS
  <1>2. PICK took : took = sale[s].took
    OBVIOUS
  <1>3. lines \in Carts \cup {<<>>} /\ took \in [Product -> Nat] /\ sale[s].state \in OrderStates
    BY <1>1, <1>2 DEF CancelOrder, OrderStates, ShopInv, ShopTypeOK, SaleRow
  <1>4. /\ product' = [p \in Product |->
             IF Tracked(p) THEN [product[p] EXCEPT !.stock = @ + Returned(lines, p)]
             ELSE product[p]]
        /\ held' = [p \in Product |-> held[p] - took[p]]
        /\ sale' = [sale EXCEPT ![s].state = "cancelled"]
        /\ UNCHANGED <<discount, checkout, supplied, switched>>
    BY <1>1, <1>2 DEF CancelOrder
  <1>5. ASSUME NEW p \in Product
        PROVE  /\ product'[p] \in [stock : Int \cup {Untracked}, active : BOOLEAN]
               /\ product'[p].stock # Untracked => Tracked(p)
               /\ Tracked(p) =>
                    /\ product[p].stock \in Int
                    /\ product'[p].stock = product[p].stock + Returned(lines, p)
               /\ Returned(lines, p) \in Nat /\ Returned(lines, p) <= Units(lines, p)
               /\ Units(lines, p) \in Nat
    <2>1. product[p] \in [stock : Int \cup {Untracked}, active : BOOLEAN]
      BY DEF ShopInv, ShopTypeOK
    <2>2. PICK n : n = Returned(lines, p)
      OBVIOUS
    <2>3. n \in Nat /\ n <= Units(lines, p) /\ Units(lines, p) \in Nat
      BY <1>3, <2>2, UnitsCount DEF Returned
    <2>4. CASE Tracked(p)
      <3>1. product[p].stock \in Int
        BY <2>1, <2>4 DEF Tracked
      <3>2. product'[p] = [product[p] EXCEPT !.stock = product[p].stock + n]
        BY <1>4, <2>2, <2>4
      <3>3. product'[p] = [stock |-> product[p].stock + n, active |-> product[p].active]
        BY <2>1, <3>2
      <3>4. product[p].stock + n \in Int
        BY <2>3, <3>1
      <3> QED BY <2>1, <2>2, <2>3, <2>4, <3>1, <3>3, <3>4
    <2>5. CASE ~Tracked(p)
      BY <1>4, <2>1, <2>2, <2>3, <2>5 DEF Tracked
    <2> QED BY <2>4, <2>5
  <1>6. sale' \in [Sale -> SaleRow] /\ Took' /\ Redeemed'
    <2>1. "cancelled" \in SaleStates /\ "cancelled" \notin OrderStates
      BY DEF SaleStates, OrderStates
    <2>2. \A p \in Product : product'[p].stock # Untracked => product[p].stock # Untracked
      BY <1>5 DEF Tracked
    <2> QED BY <1>4, <2>1, <2>2, StateGoesOn
  <1>7. ShopTypeOK'
    <2>1. product' \in [Product -> [stock : Int \cup {Untracked}, active : BOOLEAN]]
      BY <1>4, <1>5
    <2>2. held' \in [Product -> Int]
      BY <1>3, <1>4 DEF ShopInv, ShopTypeOK
    <2> QED BY <1>4, <1>6, <2>1, <2>2 DEF ShopInv, ShopTypeOK
  <1>8. ASSUME NEW p \in Product, ~switched[p], product'[p].stock # Untracked
        PROVE  product'[p].stock >= 0 /\ product'[p].stock + held'[p] <= supplied[p]
    <2>1. Tracked(p)
      BY <1>5, <1>8
    <2>2. took[p] = Units(lines, p)
      BY <1>1, <1>2, <1>3, <1>8, <2>1 DEF ShopInv, Took
    <2>3. product[p].stock >= 0 /\ product[p].stock + held[p] <= supplied[p]
      BY <1>8, <2>1 DEF ShopInv, NeverOversold
    <2>4. held[p] \in Int /\ supplied[p] \in Int /\ held'[p] = held[p] - took[p]
      BY <1>4 DEF ShopInv, ShopTypeOK
    <2> QED BY <1>5, <2>1, <2>2, <2>3, <2>4
  <1>9. NeverOversold'
    BY <1>4, <1>8 DEF NeverOversold, Tracked
  <1> QED BY <1>6, <1>7, <1>9 DEF ShopInv

\* Only what is cancelled has its code given back.
LEMMA ReleaseForBookingOK ==
  ASSUME ShopInv, NEW r \in Checkout, ReleaseForBooking(r)
  PROVE  ShopInv'
  <1>1. CASE UNCHANGED sale
    BY <1>1, EndsOK DEF ReleaseForBooking
  <1>2. CASE sale' = [sale EXCEPT ![checkout[r].of] = Released(@)]
    <2>1. PICK s \in Sale : s = checkout[r].of
      BY DEF ReleaseForBooking, At, ShopInv, Redeemed
    <2>2. PICK old : old = sale[s]
      OBVIOUS
    <2>3. old \in SaleRow /\ old.state = "cancelled"
      BY <2>1, <2>2 DEF ReleaseForBooking, At, ShopInv, ShopTypeOK, Redeemed
    <2>4. PICK row : row = [old EXCEPT !.used = "released"]
      OBVIOUS
    <2>5. row = [state |-> old.state, key |-> old.key, who |-> old.who, lines |-> old.lines,
                 took |-> old.took, used |-> "released"]
      BY <2>3, <2>4 DEF SaleRow
    <2>6. row \in SaleRow /\ row.state = "cancelled" /\ row.used = "released"
      BY <2>3, <2>5 DEF SaleRow
    <2>7. sale' = [sale EXCEPT ![s] = row]
      BY <1>2, <2>1, <2>2, <2>4 DEF Released, ShopInv, ShopTypeOK
    <2>8. /\ checkout' \in [Checkout -> CheckoutRow] /\ checkout'[r].step = "idle"
          /\ \A x \in Checkout : x # r => checkout'[x] = checkout[x]
      BY IdleTyped DEF ReleaseForBooking, Ends, Moves, ShopInv, ShopTypeOK
    <2>9. UNCHANGED <<product, discount, held, supplied, switched>>
      BY DEF ReleaseForBooking
    <2>10. sale' \in [Sale -> SaleRow] /\ Took' /\ Redeemed'
      BY <2>6, <2>7, <2>8, <2>9, SaleGoesOn DEF OrderStates
    <2>11. ShopTypeOK' /\ NeverOversold'
      BY <2>8, <2>9, <2>10 DEF ShopInv, ShopTypeOK, NeverOversold, Tracked
    <2> QED BY <2>10, <2>11 DEF ShopInv
  <1> QED BY <1>1, <1>2 DEF ReleaseForBooking

\* What the owner types in is what there is to sell, beside what is held.
LEMMA SetStockOK ==
  ASSUME ShopInv, NEW p \in Product, NEW n \in Levels, SetStock(p, n)
  PROVE  ShopInv'
  <1>1. n \in Nat /\ held[p] \in Int /\ n + held[p] \in Int
    BY Shelf DEF ShopInv, ShopTypeOK
  <1>2. PICK row : row = [product[p] EXCEPT !.stock = n]
    OBVIOUS
  <1>3. product[p] \in [stock : Int \cup {Untracked}, active : BOOLEAN]
    BY DEF ShopInv, ShopTypeOK
  <1>4. row = [stock |-> n, active |-> product[p].active]
    BY <1>2, <1>3
  <1>5. row \in [stock : Int \cup {Untracked}, active : BOOLEAN] /\ row.stock = n
    BY <1>1, <1>3, <1>4
  <1>6. /\ product' \in [Product -> [stock : Int \cup {Untracked}, active : BOOLEAN]]
        /\ product'[p] = row
        /\ \A q \in Product : q # p => product'[q] = product[q]
    BY <1>2, <1>5 DEF SetStock, ShopInv, ShopTypeOK
  <1>7. /\ supplied' \in [Product -> Int] /\ supplied'[p] = n + held[p]
        /\ \A q \in Product : q # p => supplied'[q] = supplied[q]
    BY <1>1 DEF SetStock, ShopInv, ShopTypeOK
  <1>8. /\ switched' \in [Product -> BOOLEAN]
        /\ switched'[p] = (switched[p] \/ ~Tracked(p))
        /\ \A q \in Product : q # p => switched'[q] = switched[q]
    BY DEF SetStock, ShopInv, ShopTypeOK
  <1>9. UNCHANGED <<discount, sale, checkout, held>>
    BY DEF SetStock
  <1>10. ShopTypeOK'
    BY <1>6, <1>7, <1>8, <1>9 DEF ShopInv, ShopTypeOK
  <1>11. ASSUME NEW q \in Product, ~switched'[q], product'[q].stock # Untracked
         PROVE  /\ ~switched[q] /\ Tracked(q)
                /\ product'[q].stock >= 0 /\ product'[q].stock + held[q] <= supplied'[q]
    <2>1. CASE q = p
      BY <1>1, <1>5, <1>6, <1>7, <1>8, <1>11, <2>1
    <2>2. CASE q # p
      <3>1. ~switched[q] /\ Tracked(q)
        BY <1>6, <1>8, <1>11, <2>2 DEF Tracked
      <3> QED BY <1>6, <1>7, <2>2, <3>1 DEF ShopInv, NeverOversold
    <2> QED BY <2>1, <2>2
  <1>12. NeverOversold'
    BY <1>9, <1>11 DEF NeverOversold, Tracked
  <1>13. Took'
    <2>1. ASSUME NEW s \in Sale, NEW q \in Product, sale[s].state \in OrderStates,
                 ~switched'[q], product'[q].stock # Untracked
          PROVE  sale[s].took[q] = Units(sale[s].lines, q)
      BY <1>11, <2>1 DEF ShopInv, Took
    <2> QED BY <1>9, <2>1 DEF Took, Tracked
  <1>14. Redeemed'
    BY <1>9 DEF ShopInv, Redeemed
  <1> QED BY <1>10, <1>12, <1>13, <1>14 DEF ShopInv

LEMMA WithdrawOK ==
  ASSUME ShopInv, NEW p \in Product, Withdraw(p)
  PROVE  ShopInv'
  <1>1. PICK row : row = [product[p] EXCEPT !.active = ~product[p].active]
    OBVIOUS
  <1>2. product[p] \in [stock : Int \cup {Untracked}, active : BOOLEAN]
    BY DEF ShopInv, ShopTypeOK
  <1>3. row = [stock |-> product[p].stock, active |-> ~product[p].active]
    BY <1>1, <1>2
  <1>4. row \in [stock : Int \cup {Untracked}, active : BOOLEAN]
    BY <1>2, <1>3
  <1>5. product' = [product EXCEPT ![p] = row]
    BY <1>1 DEF Withdraw, ShopInv, ShopTypeOK
  <1>6. /\ product' \in [Product -> [stock : Int \cup {Untracked}, active : BOOLEAN]]
        /\ \A q \in Product : product'[q].stock = product[q].stock
    BY <1>3, <1>4, <1>5 DEF ShopInv, ShopTypeOK
  <1>7. UNCHANGED <<discount, sale, checkout, held, supplied, switched>>
    BY DEF Withdraw
  <1>8. ShopTypeOK'
    BY <1>6, <1>7 DEF ShopInv, ShopTypeOK
  <1>9. NeverOversold' /\ Took' /\ Redeemed'
    BY <1>6, <1>7 DEF ShopInv, NeverOversold, Took, Redeemed, Tracked
  <1> QED BY <1>8, <1>9 DEF ShopInv

LEMMA UpdateDiscountOK ==
  ASSUME ShopInv, UpdateDiscount
  PROVE  ShopInv'
  BY DEF UpdateDiscount, ShopInv, ShopTypeOK, NeverOversold, Took, Redeemed, Tracked

LEMMA CheckoutStepOK ==
  ASSUME ShopInv, NEW r \in Checkout, CheckoutStep(r)
  PROVE  ShopInv'
  <1>1. CASE PlacedOrder(r)
    BY <1>1, ProceedsOK, EndsOK DEF PlacedOrder, Steps
  <1>2. CASE PriceOrder(r)
    <2>1. CASE Ends(r)
      BY <1>2, <2>1, EndsOK DEF PriceOrder
    <2>2. CASE Proceeds(r, "resolve") \/ Proceeds(r, "create")
      BY <1>2, <2>2, ProceedsOK DEF PriceOrder, Steps
    <2> QED BY <1>2, <2>1, <2>2 DEF PriceOrder
  <1>3. CASE AnswerDuplicate(r)
    BY <1>3, EndsOK DEF AnswerDuplicate
  <1> QED BY <1>1, <1>2, <1>3, PlaceOrderOK, ApplyDiscountOK, CreateOrderOK, BookOK,
             CreateBookingOK, CancelBookingOK, ReleaseForBookingOK DEF CheckoutStep

LEMMA ShopStep == ShopInv /\ [ShopNext]_shopVars => ShopInv'
  <1> SUFFICES ASSUME ShopInv, [ShopNext]_shopVars PROVE ShopInv'
    OBVIOUS
  <1>1. CASE UNCHANGED shopVars
    BY <1>1 DEF shopVars, ShopInv, ShopTypeOK, NeverOversold, Took, Redeemed, Tracked
  <1> QED BY <1>1, CheckoutStepOK, UpdateOrderStatusOK, CancelOrderOK, CompleteBookingOK,
             WithdrawOK, SetStockOK, UpdateDiscountOK DEF ShopNext

LEMMA ShopStart == ShopInit => ShopInv
  <1> SUFFICES ASSUME ShopInit PROVE ShopInv
    OBVIOUS
  <1>1. Blank \in SaleRow /\ Blank.state = "none" /\ Blank.used = "no"
    BY NothingTyped DEF Blank, SaleRow, SaleStates
  <1>2. ASSUME NEW p \in Product
        PROVE  /\ product[p].stock \in Int \cup {Untracked} /\ product[p].active = TRUE
               /\ supplied[p] \in Int /\ held[p] = 0
               /\ product[p].stock # Untracked =>
                    product[p].stock \in Nat /\ supplied[p] = product[p].stock
    <2>1. product[p] \in [stock : Levels \cup {Untracked}, active : {TRUE}]
      BY DEF ShopInit
    <2>2. product[p].stock \in Levels \cup {Untracked} /\ product[p].active = TRUE
      BY <2>1
    <2>3. supplied[p] = Level(product[p].stock) /\ held[p] = 0
      BY DEF ShopInit, Nothing
    <2>4. CASE product[p].stock = Untracked
      <3>1. Level(product[p].stock) = 0
        BY <2>4 DEF Level
      <3> QED BY <2>2, <2>3, <2>4, <3>1
    <2>5. CASE product[p].stock # Untracked
      <3>1. Level(product[p].stock) = product[p].stock
        BY <2>5 DEF Level
      <3>2. product[p].stock \in Nat
        BY <2>2, <2>5, Shelf
      <3> QED BY <2>2, <2>3, <3>1, <3>2
    <2> QED BY <2>4, <2>5
  <1>3. /\ product \in [Product -> [stock : Int \cup {Untracked}, active : BOOLEAN]]
        /\ supplied \in [Product -> Int] /\ held \in [Product -> Int]
    <2>1. ASSUME NEW p \in Product
          PROVE  product[p] \in [stock : Int \cup {Untracked}, active : BOOLEAN]
      <3>1. product[p] \in [stock : Levels \cup {Untracked}, active : {TRUE}]
        BY DEF ShopInit
      <3> QED BY <1>2, <3>1
    <2>2. product \in [Product -> [stock : Int \cup {Untracked}, active : BOOLEAN]]
      BY <2>1 DEF ShopInit
    <2>3. supplied \in [Product -> Int]
      BY <1>2 DEF ShopInit
    <2> QED BY <2>2, <2>3, NothingTyped DEF ShopInit
  <1>4. ShopTypeOK
    BY <1>1, <1>3, IdleTyped DEF ShopInit, ShopTypeOK
  <1>5. NeverOversold
    <2>1. ASSUME NEW p \in Product, product[p].stock # Untracked
          PROVE  product[p].stock >= 0 /\ product[p].stock + held[p] <= supplied[p]
      <3>1. product[p].stock \in Nat /\ supplied[p] = product[p].stock /\ held[p] = 0
        BY <1>2, <2>1
      <3> QED BY <3>1
    <2> QED BY <2>1 DEF NeverOversold, Tracked
  <1>6. Took /\ Redeemed
    BY <1>1, IdleTyped DEF ShopInit, Took, Redeemed, OrderStates
  <1> QED BY <1>4, <1>5, <1>6 DEF ShopInv

LEMMA ShopHolds == ShopSpec => []ShopInv
  BY ShopStart, ShopStep, PTL DEF ShopSpec

\* The shop's tables keep their shape.
THEOREM ShopTyped == ShopSpec => []ShopTypeOK
  <1>1. ShopInv => ShopTypeOK
    BY DEF ShopInv
  <1> QED BY <1>1, ShopHolds, PTL

\* No shelf goes below zero, and what is on it and in orders that stand is
\* never more than there was to sell.
THEOREM NeverIsOversold == ShopSpec => []NeverOversold
  <1>1. ShopInv => NeverOversold
    BY DEF ShopInv
  <1> QED BY <1>1, ShopHolds, PTL

\* A customer has the code taken off one thing at most of all that stand.
THEOREM CodeIsGivenOnce == ShopSpec => []CodeGivenOnce
  <1>1. ASSUME ShopInv PROVE CodeGivenOnce
    <2>1. \A s \in Sale : sale[s].used # "no" /\ sale[s].state \in Sold => sale[s].used = "consumed"
      BY <1>1 DEF ShopInv, ShopTypeOK, SaleRow, Redeemed, Sold, OrderStates
    <2> QED BY <1>1, <2>1 DEF ShopInv, Redeemed, CodeGivenOnce
  <1> QED BY <1>1, ShopHolds, PTL

-----------------------------------------------------------------------------
(* The three together: they share no variable.                             *)

\* None disturbs another, from any of the starts that the runs look at.
THEOREM TradeTyped == TradeSpec => []TradeTypeOK
  <1>1. TradeInit => ShopInv /\ BillingInv /\ MenuInv
    BY ShopStart, BillingStart, MenuStart DEF TradeInit
  <1>2. ASSUME ShopInv, BillingInv, MenuInv, [TradeNext]_tradeVars
        PROVE  ShopInv' /\ BillingInv' /\ MenuInv'
    <2>1. [ShopNext]_shopVars /\ [BillingNext]_billingVars /\ [MenuNext]_menuVars
      BY <1>2 DEF TradeNext, tradeVars, Selling, Paying, Pricing
    <2> QED BY <1>2, <2>1, ShopStep, BillingStep, MenuStep
  <1>3. ShopInv /\ BillingInv /\ MenuInv => TradeTypeOK
    BY DEF ShopInv, BillingInv, MenuInv, TradeTypeOK
  <1> QED BY <1>1, <1>2, <1>3, PTL DEF TradeSpec

=============================================================================
