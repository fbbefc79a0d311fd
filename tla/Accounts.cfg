SPECIFICATION AccountsSpec
CONSTANTS
  Code = {1, 2, 3}
  Account = {a1, a2}
  Request = {r1, r2}
  Nobody = Nobody
  RateMax = 1
  MaxTries = 1
  Member = {m1}
  Guest = {g1}
  Token = {1, 2}
  Link = {1, 2, 3}
  Server = {p1, p2}
  None = None
SYMMETRY Symmetry
CHECK_DEADLOCK FALSE
INVARIANTS
  AccountsTypeOK
  RacesGiveLittle
  SignedInAsCustomer
  
