-------------------------------- MODULE Menu --------------------------------
(***************************************************************************)
(* One service of a salon's menu, as one of its artists sells it, and the  *)
(* price a booking of it is given: the owner's edits (internal/artist),    *)
(* the artist's own price and deposit (internal/offering, pkg/pricing),    *)
(* her coming and going (internal/membership), and what a booking stores   *)
(* of it all (internal/booking, internal/promo, pkg/discount).             *)
(*                                                                         *)
(* Two people set four numbers, each edit is checked against values read   *)
(* in an earlier statement, and each names only some of them.  Amounts are *)
(* cents.                                                                  *)
(***************************************************************************)
EXTENDS Integers

CONSTANTS
  Amounts,    \* the amounts that are typed in
  Fees,       \* early_bird_fee, 0 for a time it does not cover
  Codes,      \* the rules of promo codes: [kind, value]
  Unset,      \* a NULL column, an absent field, a row that is not there
  Keep,       \* an absent field where NULL clears the column
  Editor      \* the requests the API serves at a time

ASSUME MenuParameters ==
  /\ Amounts \subseteq Nat /\ 0 \in Fees /\ Fees \subseteq Nat
  /\ Codes \subseteq [kind : {"fixed", "percentage"}, value : Nat]
  /\ Unset \notin Int /\ Keep \notin Int /\ Keep # Unset /\ Unset \notin Codes

VARIABLES
  item,     \* the row of services
  own,      \* the artist's row of artist_services
  place,    \* artists.salon_id: is the salon hers
  owner,    \* she is the salon's owner
  editor,   \* where each request is
  quote     \* the prices of a booking

menuVars == <<item, own, place, owner, editor, quote>>

-----------------------------------------------------------------------------

Item == [price : Amounts, deposit : Amounts, active : BOOLEAN]
OwnRow == [price : Amounts \cup {Unset}, deposit : Amounts \cup {Unset}]
QuoteRow == [state : {"held", "pending"}, original : Nat, fee : Nat, deposit : Nat,
             discount : Nat, final : Int]
\* price, deposit: what the request asks for; active: is_active, or the
\* offered of an offering; bill: the booking to insert.
EditorRow == [step : {"idle", "service", "delete", "offer", "book"},
              price : Amounts \cup {Unset, Keep}, deposit : Amounts \cup {Unset, Keep},
              active : BOOLEAN \cup {Unset}, bill : QuoteRow \cup {Unset}]

Resting == [step |-> "idle", price |-> Unset, deposit |-> Unset, active |-> Unset,
            bill |-> Unset]

MenuInit ==
  /\ item = Unset /\ own = Unset /\ quote = Unset
  /\ owner \in BOOLEAN
  /\ place = IF owner THEN "member" ELSE "before"
  /\ editor = [e \in Editor |-> Resting]

Or(value, otherwise) == IF value = Unset THEN otherwise ELSE value
Rounded(n, d) == (2 * n + d) \div (2 * d)
Lesser(m, n) == IF m < n THEN m ELSE n

\* A menu where nothing is sold leaves nothing to do.
Submits(e, row) == editor[e] = Resting /\ editor' = [editor EXCEPT ![e] = row]
Answered(e) == editor' = [editor EXCEPT ![e] = Resting]

-----------------------------------------------------------------------------
(* The owner's side of the menu.                                           *)

\* The service and the owner's offering, in one statement.
CreateService(price, deposit) ==
  /\ item = Unset /\ deposit <= price
  /\ item' = [price |-> price, deposit |-> deposit, active |-> TRUE]
  /\ own' = IF owner THEN [price |-> Unset, deposit |-> Unset] ELSE Unset
  /\ UNCHANGED <<place, owner, editor, quote>>

\* A hidden service keeps its row.
OnTheMenu == item # Unset

\* checkDepositCeiling, on the values the row will have as far as the
\* request knows.
ReadService(e, price, deposit, active) ==
  /\ OnTheMenu
  /\ Or(deposit, item.deposit) <= Or(price, item.price)
  /\ Submits(e, [Resting EXCEPT !.step = "service", !.price = price, !.deposit = deposit,
                                !.active = active])
  /\ UNCHANGED <<item, own, place, owner, quote>>

\* services_deposit_not_above_price.
UpdateService(e) ==
  LET row == [price   |-> Or(editor[e].price, item.price),
              deposit |-> Or(editor[e].deposit, item.deposit),
              active  |-> Or(editor[e].active, item.active)]
  IN /\ editor[e].step = "service"
     /\ item' = IF row.deposit <= row.price THEN row ELSE item
     /\ Answered(e)
     /\ UNCHANGED <<own, place, owner, quote>>

Hidden(row) == [row EXCEPT !.active = FALSE]

DeleteService ==
  /\ OnTheMenu
  /\ item' = Hidden(item)
  /\ UNCHANGED <<own, place, owner, editor, quote>>

-----------------------------------------------------------------------------
(* The artist's side of it, which the owner may write for her.             *)

\* Her own deposit, sent or stored, against the price she will charge.
WithinPrice(price, deposit) ==
  LET had == Or(own, [price |-> Unset, deposit |-> Unset])
      newPrice == IF price = Keep THEN had.price ELSE price
      newDeposit == IF deposit = Keep THEN had.deposit ELSE deposit
  IN newDeposit # Unset => newDeposit <= Or(newPrice, item.price)

ReadOffering(e, price, deposit) ==
  /\ place = "member" /\ OnTheMenu
  /\ WithinPrice(price, deposit)
  /\ Submits(e, [Resting EXCEPT !.step = "offer", !.price = price, !.deposit = deposit])
  /\ UNCHANGED <<item, own, place, owner, quote>>

ReadToSwitchOff(e) ==
  /\ place = "member" /\ own # Unset
  /\ Submits(e, [Resting EXCEPT !.step = "delete"])
  /\ UNCHANGED <<item, own, place, owner, quote>>

\* Mutant: the statement relies on the membership that was read.
SellsHereAsRead == TRUE

\* The WHERE EXISTS of Upsert.
SellsHere == place = "member"

Upsert(e) ==
  LET had == Or(own, [price |-> Unset, deposit |-> Unset])
      sent == editor[e]
  IN /\ sent.step = "offer"
     /\ own' = IF SellsHere
               THEN [price   |-> IF sent.price = Keep THEN had.price ELSE sent.price,
                     deposit |-> IF sent.deposit = Keep THEN had.deposit ELSE sent.deposit]
               ELSE own
     /\ Answered(e)
     /\ UNCHANGED <<item, place, owner, quote>>

SwitchOff(e) ==
  /\ editor[e].step = "delete"
  /\ own' = Unset
  /\ Answered(e)
  /\ UNCHANGED <<item, place, owner, quote>>

\* Onboarding with an invitation; a removed artist has no way back in.
Join ==
  /\ place = "before"
  /\ place' = "member"
  /\ UNCHANGED <<item, own, owner, editor, quote>>

\* DetachArtist drops her offerings in the statement that drops her.
Detach ==
  /\ place = "member" /\ ~owner
  /\ place' = "gone" /\ own' = Unset
  /\ UNCHANGED <<item, owner, editor, quote>>

-----------------------------------------------------------------------------
(* What it costs.                                                          *)

Price == Or(own.price, item.price)

Deposit == Lesser(Or(own.deposit, item.deposit), Price)

\* applyGroup, with the one rule a code is.
Reduction(rule, from) ==
  IF rule.kind = "fixed" THEN Lesser(rule.value, from)
  ELSE Rounded(from * Lesser(rule.value, 100), 100)

\* Mutant: no floor under the price.
UpToThePrice(bill) == bill.final

\* A code never takes the price below the deposit.
Reducible(bill) ==
  bill.final - IF bill.deposit > bill.final THEN 0 ELSE bill.deposit

\* A code that reduces nothing is not applied, which writes the same prices.
Reduced(bill, code) ==
  LET off == Lesser(Reduction(code, bill.final), Reducible(bill))
  IN IF code = Unset THEN bill
     ELSE [bill EXCEPT !.discount = off, !.final = @ - off]

\* GetOfferedService: shown by the salon, switched on by its artist.
Offered == OnTheMenu /\ item.active /\ own # Unset /\ place = "member"

\* HoldGuestSlot takes no code, CreateBooking may.
ReadToBook(e, fee, code) ==
  /\ quote = Unset
  /\ Offered
  /\ Submits(e, [Resting EXCEPT !.step = "book",
       !.bill = Reduced([state |-> "held", original |-> Price, fee |-> fee,
                         deposit |-> Deposit, discount |-> 0, final |-> Price + fee], code)])
  /\ UNCHANGED <<item, own, place, owner, quote>>

\* bookings_deposit_not_above_price.
Payable(bill) == bill.deposit <= bill.original

InsertBill(e) ==
  /\ editor[e].step = "book"
  /\ quote' = IF quote = Unset /\ Payable(editor[e].bill) THEN editor[e].bill ELSE quote
  /\ Answered(e)
  /\ UNCHANGED <<item, own, place, owner>>

\* Nobody else writes a held booking's prices, so reading them first makes
\* no difference.  Only a booking without a code takes one: a guest's hold.
Submit(code) ==
  /\ quote # Unset /\ quote.state = "held"
  /\ quote.discount > 0 => code = Unset
  /\ quote' = [Reduced(quote, code) EXCEPT !.state = "pending"]
  /\ UNCHANGED <<item, own, place, owner, editor>>

\* D29, best-effort: half of the final price where none was asked for, if
\* the CHECK lets it.
RequireNoShowDeposit ==
  LET asked == [quote EXCEPT !.deposit = Rounded(quote.final, 2)]
  IN /\ quote # Unset /\ quote.state = "pending" /\ quote.deposit = 0
     /\ quote.final > 0
     /\ Payable(asked)
     /\ quote' = asked
     /\ UNCHANGED <<item, own, place, owner, editor>>

-----------------------------------------------------------------------------

Asked == Amounts \cup {Unset}

EditorStep(e) ==
  \/ \E price, deposit \in Asked, active \in BOOLEAN \cup {Unset} :
       ReadService(e, price, deposit, active)
  \/ UpdateService(e)
  \/ \E price, deposit \in Asked \cup {Keep} : ReadOffering(e, price, deposit)
  \/ ReadToSwitchOff(e) \/ Upsert(e) \/ SwitchOff(e)
  \/ \E fee \in Fees, code \in Codes \cup {Unset} : ReadToBook(e, fee, code)
  \/ InsertBill(e)

MenuNext ==
  \/ \E price, deposit \in Amounts : CreateService(price, deposit)
  \/ DeleteService \/ Join \/ Detach
  \/ \E e \in Editor : EditorStep(e)
  \/ \E code \in Codes \cup {Unset} : Submit(code)
  \/ RequireNoShowDeposit

MenuSpec == MenuInit /\ [][MenuNext]_menuVars

-----------------------------------------------------------------------------
(* Properties.                                                             *)

\* Types: the rows keep their shapes.
MenuTypeOK ==
  /\ item \in Item \cup {Unset}
  /\ own \in OwnRow \cup {Unset}
  /\ place \in {"before", "member", "gone"}
  /\ owner \in BOOLEAN
  /\ editor \in [Editor -> EditorRow]
  /\ quote \in QuoteRow \cup {Unset}

\* Whatever the owner and the artist typed in and in whatever order their
\* edits landed, a booking adds up - the price and the fee are what is paid
\* and what the code took - and its deposit is never more than it costs.
QuoteStands ==
  quote # Unset =>
    /\ quote.deposit <= quote.final
    /\ quote.final + quote.discount = quote.original + quote.fee

\* An artist offers a salon's service only while she is in the salon, late
\* requests included: PP-7, who joins finds every switch off.
OffersHere == own # Unset => place = "member"

=============================================================================
