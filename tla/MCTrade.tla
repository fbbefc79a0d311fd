------------------------------ MODULE MCTrade -------------------------------
(***************************************************************************)
(* What a salon sells and what its artists pay - the shop and its promo    *)
(* code, a subscription and its invoices, the menu and the prices it gives *)
(* a booking - one part at a time: they share no state.  The shop is       *)
(* looked at from three sides.                                             *)
(***************************************************************************)
EXTENDS Shop, Billing, Menu, TLC

CONSTANTS soap, towel

VARIABLE focus

Cart == {<<soap>>, <<soap, soap>>, <<soap, towel>>}
Rules == {[kind |-> "fixed", value |-> 2], [kind |-> "percentage", value |-> 50]}

TradeInit ==
  /\ ShopInit /\ BillingInit /\ MenuInit
  /\ focus \in {"stock", "retry", "code", "billing", "menu"}
  /\ ~Tracked(towel)
  /\ focus \notin {"stock", "retry"} => ~Tracked(soap)
  /\ focus # "menu" => owner

Buyers ==
  ({checkout[r].who : r \in Checkout} \cup {sale[s].who : s \in Sale}) \ {Nobody}
\* Carts only, and none that names the code.
Codeless ==
  \A r \in Checkout :
    checkout'[r].step # "idle" => checkout'[r].lines # <<>> /\ ~checkout'[r].asks
\* Every cart names it.
Coded == \A r \in Checkout : checkout'[r].lines # <<>> => checkout'[r].asks
Keyed(keyed) ==
  \A r \in Checkout : checkout'[r].lines # <<>> => (checkout'[r].key # NoKey) = keyed
Buying(carts) == \A r \in Checkout : checkout'[r].lines \in carts \cup {<<>>}
Orders ==
  Cardinality({s \in Sale : sale[s].lines # <<>>}) + Cardinality({r \in Checkout : checkout[r].lines # <<>>})

\* One customer, two orders without request_ids.
Stock ==
  /\ Codeless /\ Keyed(FALSE) /\ UNCHANGED discount
  /\ Cardinality(Buyers)' <= 1 /\ sale'[3].state = "none"
  /\ \A p \in Product : product'[p].active
  /\ ~Tracked(towel)'
\* One customer, one cart and its retries.
Retry ==
  /\ Codeless /\ Keyed(TRUE) /\ Buying({<<soap>>}) /\ UNCHANGED <<discount, supplied>>
  /\ Cardinality(Buyers)' <= 1 /\ product'[towel].active
\* At most one order beside the bookings, of a product without stock.
Code ==
  /\ Coded /\ Keyed(FALSE) /\ Buying({<<soap>>}) /\ UNCHANGED product
  /\ \A s \in Sale : sale'[s].state \notin {"confirmed", "shipped", "delivered"}
  /\ Orders' <= 1

Selling ==
  /\ ShopNext
  /\ CASE focus = "stock" -> Stock
       [] focus = "retry" -> Retry
       [] focus = "code"  -> Code
       [] OTHER           -> FALSE

Paying == BillingNext /\ ~overruled /\ focus = "billing"

\* The owner edits one thing at a time.  A booking keeps its prices: what
\* becomes of the menu after it is nothing to it, and not looked at.
Pricing ==
  /\ MenuNext /\ focus = "menu"
  /\ \A e \in Editor :
       editor'[e].step = "service" =>
         Cardinality({f \in {"price", "deposit", "active"} : editor'[e][f] # Unset}) = 1
  /\ quote # Unset => UNCHANGED <<item, own, place, editor>>

TradeNext ==
  /\ \/ Selling /\ UNCHANGED <<billingVars, menuVars>>
     \/ Paying /\ UNCHANGED <<shopVars, menuVars>>
     \/ Pricing /\ UNCHANGED <<shopVars, billingVars>>
  /\ UNCHANGED focus

tradeVars == <<shopVars, billingVars, menuVars, focus>>
TradeSpec == TradeInit /\ [][TradeNext]_tradeVars

Symmetry == Permutations(Checkout) \cup Permutations(Customer)

\* Types: the parts keep their shapes.
TradeTypeOK == ShopTypeOK /\ BillingTypeOK /\ MenuTypeOK

=============================================================================
