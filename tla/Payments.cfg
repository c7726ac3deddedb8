\* Two used bookings of one venue are paid in one batch or in two, though one may
\* be returned, labels share ranges of identifiers and the IBAN comes later.
SPECIFICATION FairUsedSpec
CONSTANTS
  v1 = v1 v2 = v2 d1 = d1 d2 = d2 d3 = d3 m1 = m1 m2 = m2 m3 = m3
  None = None
  FirstCap = 2
  SecondCap = 4
  ThirdCap = 6
  Bookings = {1, 2}
  Venues = {v1}
  VenueOf <- OneVenue
  KindOf <- AllThings
  YearOf <- OneYear
  Value <- TwoEach
  CustomAmount <- NoCustomRule
  Dates = {d1, d2, d3}
  Labels = {1, 2}
  Messages = {m1, m2}
  Returned = {1}
  BatchSize = 2
  MaxKills = 1
INVARIANTS TypeOK PaidOnce ReviewedWereMailed RatesFollowTurnover
PROPERTIES PaymentsSettle
CHECK_DEADLOCK FALSE
