SPECIFICATION TradeSpec
CONSTANTS
  Product = {soap, towel}
  soap = soap
  towel = towel
  Customer = {c1, c2}
  Nobody = Nobody
  Sale = {1, 2, 3}
  Checkout = {r1, r2}
  Key = {k1}
  NoKey = NoKey
  Carts <- Cart
  Levels = {1, 2}
  Untracked = Untracked
  MaxUses = 1
  FirstTimeOnly = TRUE
  Month = 3
  Grace = 2
  PastDue = 3
  Trial = 1
  Horizon = 7
  Desk = {r1, r2}
  Amounts = {0, 3}
  Fees = {0, 4}
  Codes <- Rules
  Unset = Unset
  Keep = Keep
  Editor = {r1, r2}
CHECK_DEADLOCK FALSE
SYMMETRY Symmetry
INVARIANTS
  TradeTypeOK
  NeverOversold
  
  PaidIsServed
  BillsInOrder
  QuoteStands
  OffersHere
