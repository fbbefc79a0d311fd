SPECIFICATION FocusSpec
CONSTANTS
  Booking = {b1, b2}
  Artist = {1, 2}
  s1 = s1
  s2 = s2
  Store = {s1, s2}
  Client = {n}
  NoClient = NoClient
  Writer = {w1, w2}
  Opening = {1, 2, 3}
  Distances = {1}
  Span = 1
  WorksAt <- Workplaces
  Road <- Roads
  MaxHolds = 1
  Null = Null
  Day = 6
  Step = 2
  Pad = 3
  Zone = 2
  Moments <- DayMoments
  Spans <- DaySpans
  Terms <- DayTerms
  Settings <- DaySettings
  Ways <- DayWays
  MaxEntries = 2
CHECK_DEADLOCK FALSE
SYMMETRY Symmetry
INVARIANTS
  PromiseKept
