\* Two administrators book, use, unuse, postpone, withdraw and uncancel the bookings of an
\* event, which the payment batch pays, and wait for each other. One booking is not
\* cancelled by itself: uncancelled twice after each time, its counter would grow for ever.
SPECIFICATION FairSpec
CONSTANTS
  u1 = u1 u2 = u2 s1 = s1 s2 = s2 b1 = b1 b2 = b2 b3 = b3
  r1 = r1 r2 = r2 r3 = r3 c1 = c1 c2 = c2
  None = None Absent = Absent Unlimited = Unlimited
  Users = {u1}
  Stocks = {s1}
  BookingIds = {b1, b2}
  Requests = {r1, r2}
  Admins = {r1, r2}
  Crashing = {}
  Endpoints = {"book", "uncancel", "delete", "reject", "use", "unuse", "pay", "edit", "move", "time"}
  OfferOf <- OneOffer
  Duo = {}
  Events = {s1}
  CodesOf <- NoCodes
  AutoActivate = FALSE
  LockTimeouts = FALSE
  Prices = {1}
  Quantities = {}
  Domains <- Total
  DomainOf <- TotalOf
  Cap <- CapOf2
  Credit <- CreditOf2
PROPERTIES RequestsEnd PaidIsFinal
CHECK_DEADLOCK FALSE
