SPECIFICATION SalonSpec
CONSTANTS
  Person = {f, a, b, c}
  Founder = f
  Invitation = {1, 2, 3}
  Call = {r1, r2}
  NoOne = NoOne
  Ceiling = 2
  MaxLive = 2
  Visit = {v1, v2}
  Artist = {a1, a2}
  Writer = {r1, r2}
  NoVisit = NoVisit
  Photo = {p1, p2, p3}
  NoPhoto = NoPhoto
  Caller = {r1, r2}
  MaxPhotos = 2
  LastPlace = 3
  Booking = {b1}
  Starts = {6, 9, 10}
  Day = 4
  Lead = 4
  Morning = 1
  MinLead = 1
  Ahead = 6
  MaxAttempts = 2
  MaxMoves = 1
  MaxTime = 10
  Salon = {s1, s2}
  Worker = {w1, w2}
  Job = {j1, j2}
  Nobody = Nobody
  Costs = {5}
  Half = {3, 4}
  MonthStart = {0, 4, 10}
  Entry = {e1}
  Hours = {1, 2}
  MovesLeft = 1
  MaxShifts = 1
  MaxFiles = 3
CHECK_DEADLOCK FALSE
SYMMETRY Requests
INVARIANTS
  SalonTypeOK
  AnswersAreTrue
  OwnerIsMember
  CoverIsFirst
  RemindedUntilTried
  PagesAgree
  HeldIsFreshest
PROPERTIES
  RecountIsExact
