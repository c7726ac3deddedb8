\* Bookings of things expire and bookings of events that are over are marked as
\* used, while they are booked, cancelled, used and unused.
SPECIFICATION FairJobsSpec
CONSTANTS
  u1 = u1 u2 = u2 s1 = s1 s2 = s2 r1 = r1 r2 = r2
  None = None Absent = Absent Unlimited = Unlimited
  Users = {u1}
  Stocks = {s1, s2}
  BookingIds = {1, 2}
  Requests = {r1}
  Admins = {r1}
  Crashing = {}
  Endpoints = {"book", "cancel", "use", "uncancel", "pay", "time"}
  OfferOf <- TwoOffers
  Duo = {}
  Events = {s2}
  CodesOf <- NoCodes
  AutoActivate = FALSE
  LockTimeouts = TRUE
  Prices = {1}
  Quantities = {}
  Domains <- Total
  DomainOf <- TotalOf
  Cap <- CapOf2
  Credit <- CreditOf2
  BatchSize = 1
  Expirable = {s1}
  JobsKilled = TRUE
PROPERTIES PaidOutlastsJobs OldBookingsExpire EndedEventsAreUsed
CHECK_DEADLOCK FALSE
