-------------------------------- MODULE Shop --------------------------------
(***************************************************************************)
(* A salon's shop and its promo code: checkouts of products                *)
(* (internal/product), the code's eligibility and its redemptions          *)
(* (internal/promo), and the bookings that redeem the same code            *)
(* (internal/booking).                                                     *)
(*                                                                         *)
(* A checkout reads in statements of their own - the earlier order of the  *)
(* same request_id, the products, the code - and then writes in one        *)
(* transaction.  Several run at once, and a cart retries with its          *)
(* request_id.  A line of a cart is one unit of a product; two lines may   *)
(* name the same product, nothing in the request's validation forbids it.  *)
(***************************************************************************)
EXTENDS Integers, FiniteSets, Sequences

CONSTANTS
  Product,
  Customer,
  Nobody,         \* the customer of a row that is not there
  Sale,           \* orders and bookings ids, in order of creation
  Checkout,       \* the requests the API serves at a time
  Key,            \* request_ids; NoKey for a request without one
  NoKey,
  Carts,          \* the carts that are tried: sequences of products
  Levels,         \* the stock_quantity an owner may type in
  Untracked,      \* a NULL stock_quantity
  MaxUses,        \* max_redemptions of the code
  FirstTimeOnly

ASSUME ShopParameters ==
  /\ Nobody \notin Customer /\ NoKey \notin Key /\ Untracked \notin Int
  /\ Sale \subseteq Nat \ {0} /\ Levels \subseteq Nat
  /\ IsFiniteSet(Sale) /\ IsFiniteSet(Checkout) /\ IsFiniteSet(Product)
  /\ Carts \subseteq Seq(Product)
  /\ MaxUses \in Nat \ {0} /\ FirstTimeOnly \in BOOLEAN

VARIABLES
  product,    \* the table products
  discount,   \* the code's is_active
  sale,       \* the tables orders, order_items, bookings, discount_redemptions
  checkout,   \* where each request is
  held,       \* history: the units of each product in orders that stand
  supplied,   \* history: the units of each product there were to sell
  switched    \* history: tracking was switched on for the product

shopVars == <<product, discount, sale, checkout, held, supplied, switched>>

-----------------------------------------------------------------------------

OrderStates == {"placed", "confirmed", "shipped", "delivered"}
SaleStates == {"none", "cancelled", "booked", "completed"} \cup OrderStates
Sold == OrderStates \cup {"booked", "completed"}

\* took: history, what the placement took of each product's stock.
\* used: the redemption row of the sale.
SaleRow == [state : SaleStates, key : Key \cup {NoKey}, who : Customer \cup {Nobody},
            lines : Carts \cup {<<>>}, took : [Product -> Nat],
            used : {"no", "consumed", "released"}]
Steps == {"idle", "look", "price", "resolve", "create", "again", "release"}
\* asks: the request names the code; applied: Resolve accepted it; of: the
\* booking whose code is to be released.
CheckoutRow == [step : Steps, key : Key \cup {NoKey}, who : Customer \cup {Nobody},
                lines : Carts \cup {<<>>}, asks : BOOLEAN, applied : BOOLEAN,
                of : Sale \cup {0}]

Nothing == [p \in Product |-> 0]
Blank == [state |-> "none", key |-> NoKey, who |-> Nobody, lines |-> <<>>,
          took |-> Nothing, used |-> "no"]
Idle == [step |-> "idle", key |-> NoKey, who |-> Nobody, lines |-> <<>>,
         asks |-> FALSE, applied |-> FALSE, of |-> 0]

Level(n) == IF n = Untracked THEN 0 ELSE n

ShopInit ==
  /\ product \in [Product -> [stock : Levels \cup {Untracked}, active : {TRUE}]]
  /\ discount = TRUE
  /\ sale = [s \in Sale |-> Blank]
  /\ checkout = [r \in Checkout |-> Idle]
  /\ held = Nothing
  /\ supplied = [p \in Product |-> Level(product[p].stock)]
  /\ switched = [p \in Product |-> FALSE]

At(r, step) == checkout[r].step = step
Moves(r, row) == checkout' = [checkout EXCEPT ![r] = row]
Proceeds(r, step) == Moves(r, [checkout[r] EXCEPT !.step = step])
Ends(r) == Moves(r, Idle)

Units(lines, p) == Cardinality({i \in DOMAIN lines : lines[i] = p})
Wanted(lines) == {lines[i] : i \in DOMAIN lines}
Tracked(p) == product[p].stock # Untracked
PlacedWith(k) == {s \in Sale : k # NoKey /\ sale[s].key = k}
\* The rows of the code in the partial unique index.
Consumed == {s \in Sale : sale[s].used = "consumed"}
ConsumedBy(c) == {s \in Consumed : sale[s].who = c}

-----------------------------------------------------------------------------
(* Checking out.                                                           *)

\* A request_id is the cart's secret: a retry is the same customer's cart.
PlaceOrder(r, c, k, lines, asks) ==
  /\ At(r, "idle") /\ lines # <<>>
  /\ \A s \in PlacedWith(k) : sale[s].who = c /\ sale[s].lines = lines
  /\ \A q \in Checkout :
       k # NoKey /\ checkout[q].key = k => checkout[q].who = c /\ checkout[q].lines = lines
  /\ Moves(r, [Idle EXCEPT !.step = IF k = NoKey THEN "price" ELSE "look",
                           !.key = k, !.who = c, !.lines = lines, !.asks = asks])
  /\ UNCHANGED <<product, discount, sale, held, supplied, switched>>

PlacedOrder(r) ==
  /\ At(r, "look")
  /\ IF PlacedWith(checkout[r].key) # {} THEN Ends(r) ELSE Proceeds(r, "price")
  /\ UNCHANGED <<product, discount, sale, held, supplied, switched>>

OnShelf(p) == product[p].active /\ (Tracked(p) => product[p].stock >= 1)

\* Each line on its own, unlocked.
PriceOrder(r) ==
  /\ At(r, "price")
  /\ IF \A p \in Wanted(checkout[r].lines) : OnShelf(p)
     THEN Proceeds(r, IF checkout[r].asks THEN "resolve" ELSE "create")
     ELSE Ends(r)
  /\ UNCHANGED <<product, discount, sale, held, supplied, switched>>

Book(r, c) ==
  /\ At(r, "idle")
  /\ Moves(r, [Idle EXCEPT !.step = "resolve", !.who = c, !.asks = TRUE])
  /\ UNCHANGED <<product, discount, sale, held, supplied, switched>>

IsNew(c) == \A s \in Sale : sale[s].who = c => sale[s].state # "completed"

\* Check, first refusal first; a refused code is no error.
Eligible(c) ==
  /\ discount
  /\ Cardinality(Consumed) < MaxUses
  /\ ConsumedBy(c) = {}
  /\ FirstTimeOnly => IsNew(c)

Resolve(row) == [row EXCEPT !.applied = Eligible(row.who)]

ApplyDiscount(r) ==
  /\ At(r, "resolve")
  /\ Moves(r, [Resolve(checkout[r]) EXCEPT !.step = "create"])
  /\ UNCHANGED <<product, discount, sale, held, supplied, switched>>

\* Mutant: the stock that PriceOrder saw is taken for granted.
InStockAsRead(lines) == TRUE

\* The WHERE clause of the decrement, line after line.
InStock(lines) ==
  \A p \in Wanted(lines) : Tracked(p) => product[p].stock >= Units(lines, p)

Takes(lines) ==
  [p \in Product |-> IF Tracked(p) THEN Units(lines, p) ELSE 0]

\* Mutant: the unique index on redemptions is gone, the check remains.
AnyRedemption(row) == TRUE

\* idx_discount_redemption_once.
FirstRedemption(row) == row.applied => ConsumedBy(row.who) = {}

NewSale(row, state, took) ==
  \E s \in Sale :
    /\ sale[s].state = "none"
    /\ \A t \in Sale : t < s => sale[t].state # "none"
    /\ sale' = [sale EXCEPT ![s] =
         [state |-> state, key |-> row.key, who |-> row.who, lines |-> row.lines,
          took |-> took, used |-> IF row.applied THEN "consumed" ELSE "no"]]

\* One transaction: the order, each line's decrement, the redemption.  The
\* unique request_id is met first, before any stock is taken.
CreateOrder(r) ==
  LET row == checkout[r]
  IN /\ At(r, "create") /\ row.lines # <<>>
     /\ IF PlacedWith(row.key) # {} THEN Proceeds(r, "again") /\ UNCHANGED <<product, sale, held>>
        ELSE IF ~InStock(row.lines) \/ ~FirstRedemption(row)
        THEN Ends(r) /\ UNCHANGED <<product, sale, held>>
        ELSE /\ NewSale(row, "placed", Takes(row.lines))
             /\ product' = [p \in Product |->
                  IF Tracked(p)
                  THEN [product[p] EXCEPT !.stock = @ - Units(row.lines, p)]
                  ELSE product[p]]
             /\ held' = [p \in Product |-> held[p] + Takes(row.lines)[p]]
             /\ Ends(r)
     /\ UNCHANGED <<discount, supplied, switched>>

\* The refused retry answers with the order that beat it.
AnswerDuplicate(r) ==
  /\ At(r, "again")
  /\ Ends(r)
  /\ UNCHANGED <<product, discount, sale, held, supplied, switched>>

\* The booking and its redemption, in one transaction.
CreateBooking(r) ==
  /\ At(r, "create") /\ checkout[r].lines = <<>>
  /\ IF FirstRedemption(checkout[r])
     THEN NewSale(checkout[r], "booked", Nothing)
     ELSE UNCHANGED sale
  /\ Ends(r)
  /\ UNCHANGED <<product, discount, held, supplied, switched>>

-----------------------------------------------------------------------------
(* What becomes of an order, and of a booking.                             *)

\* Guarded by the status it moves from.
UpdateOrderStatus(s) ==
  /\ \/ sale[s].state = "placed" /\ sale' = [sale EXCEPT ![s].state = "confirmed"]
     \/ sale[s].state = "confirmed" /\ sale' = [sale EXCEPT ![s].state = "shipped"]
     \/ sale[s].state = "shipped" /\ sale' = [sale EXCEPT ![s].state = "delivered"]
  /\ UNCHANGED <<product, discount, checkout, held, supplied, switched>>

\* UPDATE products ... FROM order_items updates a product once, by one of
\* the lines that join it.
Returned(lines, p) == IF p \in Wanted(lines) THEN 1 ELSE 0

\* The WHERE clause repeats the status CancelOrder read, so a stale read
\* changes nothing.  The code the order used is not released.
CancelOrder(s) ==
  /\ sale[s].state \in {"placed", "confirmed"}
  /\ sale' = [sale EXCEPT ![s].state = "cancelled"]
  /\ product' = [p \in Product |->
       IF Tracked(p) THEN [product[p] EXCEPT !.stock = @ + Returned(sale[s].lines, p)]
       ELSE product[p]]
  /\ held' = [p \in Product |-> held[p] - sale[s].took[p]]
  /\ UNCHANGED <<discount, checkout, supplied, switched>>

\* Who broke it decides if the code goes back: blameless.
CancelBooking(r, s, blameless) ==
  /\ At(r, "idle") /\ sale[s].state = "booked"
  /\ sale' = [sale EXCEPT ![s].state = "cancelled"]
  /\ IF blameless /\ sale[s].used # "no"
     THEN Moves(r, [Idle EXCEPT !.step = "release", !.of = s])
     ELSE UNCHANGED checkout
  /\ UNCHANGED <<product, discount, held, supplied, switched>>

\* Mutant: a status the column's CHECK does not list.
Forgiven(row) == [row EXCEPT !.used = "forgiven"]

Released(row) == [row EXCEPT !.used = "released"]

\* After the cancellation's commit; a failure is logged.
ReleaseForBooking(r) ==
  /\ At(r, "release")
  /\ \/ sale' = [sale EXCEPT ![checkout[r].of] = Released(@)]
     \/ UNCHANGED sale
  /\ Ends(r)
  /\ UNCHANGED <<product, discount, held, supplied, switched>>

CompleteBooking(s) ==
  /\ sale[s].state = "booked"
  /\ sale' = [sale EXCEPT ![s].state = "completed"]
  /\ UNCHANGED <<product, discount, checkout, held, supplied, switched>>

-----------------------------------------------------------------------------
(* What the owner edits: COALESCE leaves what the request does not name,   *)
(* and so never brings back a NULL.                                        *)

SetStock(p, n) ==
  /\ product' = [product EXCEPT ![p].stock = n]
  /\ supplied' = [supplied EXCEPT ![p] = n + held[p]]
  /\ switched' = [switched EXCEPT ![p] = @ \/ ~Tracked(p)]
  /\ UNCHANGED <<discount, sale, checkout, held>>

Withdraw(p) ==
  /\ product' = [product EXCEPT ![p].active = ~@]
  /\ UNCHANGED <<discount, sale, checkout, held, supplied, switched>>

UpdateDiscount ==
  /\ discount' = ~discount
  /\ UNCHANGED <<product, sale, checkout, held, supplied, switched>>

-----------------------------------------------------------------------------

CheckoutStep(r) ==
  \/ \E c \in Customer, k \in Key \cup {NoKey}, lines \in Carts, asks \in BOOLEAN :
       PlaceOrder(r, c, k, lines, asks)
  \/ PlacedOrder(r) \/ PriceOrder(r) \/ ApplyDiscount(r) \/ CreateOrder(r) \/ AnswerDuplicate(r)
  \/ \E c \in Customer : Book(r, c)
  \/ CreateBooking(r)
  \/ \E s \in Sale, blameless \in BOOLEAN : CancelBooking(r, s, blameless)
  \/ ReleaseForBooking(r)

ShopNext ==
  \/ \E r \in Checkout : CheckoutStep(r)
  \/ \E s \in Sale : UpdateOrderStatus(s) \/ CancelOrder(s) \/ CompleteBooking(s)
  \/ \E p \in Product : Withdraw(p) \/ \E n \in Levels : SetStock(p, n)
  \/ UpdateDiscount

ShopSpec == ShopInit /\ [][ShopNext]_shopVars

-----------------------------------------------------------------------------
(* Properties.                                                             *)

\* Types: each table keeps its shape.
ShopTypeOK ==
  /\ product \in [Product -> [stock : Int \cup {Untracked}, active : BOOLEAN]]
  /\ discount \in BOOLEAN
  /\ sale \in [Sale -> SaleRow]
  /\ checkout \in [Checkout -> CheckoutRow]
  /\ held \in [Product -> Int]
  /\ supplied \in [Product -> Int]
  /\ switched \in [Product -> BOOLEAN]

\* However checkouts, retries, cancellations and the owner's edits
\* interleave, no shelf goes below zero, and the units on it and those in
\* orders that stand are never more than there were to sell.
NeverOversold ==
  \A p \in Product :
    ~switched[p] /\ Tracked(p) =>
      product[p].stock >= 0 /\ product[p].stock + held[p] <= supplied[p]

\* A customer has the code taken off one thing at most among all orders and
\* bookings that stand, in whatever order releases and checkouts arrive.
CodeGivenOnce ==
  \A s, t \in Sale :
    /\ sale[s].used # "no" /\ sale[s].state \in Sold
    /\ sale[t].used # "no" /\ sale[t].state \in Sold
    /\ sale[s].who = sale[t].who
    => s = t

\* A cancelled order gives back each unit its placement took, and no other
\* (UpdateOrderStatus: "Cancelling or returning an order releases the stock it
\* held at placement time").  Does not hold:
\* of two lines of one product, one is returned.
StockReturned ==
  [][\A s \in Sale, p \in Product :
       sale[s].state \in OrderStates /\ sale'[s].state = "cancelled" /\ Tracked(p)
       => product'[p].stock = product[p].stock + sale[s].took[p]]_shopVars

=============================================================================
