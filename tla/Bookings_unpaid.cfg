\* A booking is used and unused while the payment batch runs.
SPECIFICATION Spec
CONSTANTS
  u1 = u1 u2 = u2 s1 = s1 s2 = s2 b1 = b1 b2 = b2 b3 = b3
  r1 = r1 r2 = r2 r3 = r3 c1 = c1 c2 = c2
  None = None Absent = Absent Unlimited = Unlimited
  Users = {u1}
  Stocks = {s1}
  BookingIds = {b1}
  Requests = {r1}
  Admins = {}
  Crashing = {}
  Endpoints = {"book", "use", "unuse", "pay"}
  OfferOf <- OneOffer
  Duo = {}
  Events = {}
  CodesOf <- NoCodes
  AutoActivate = FALSE
  LockTimeouts = FALSE
  Prices = {1}
  Quantities = {}
  Domains <- Total
  DomainOf <- TotalOf
  Cap <- CapOf2
  Credit <- CreditOf2
PROPERTIES PaidStaysUsed
CHECK_DEADLOCK FALSE
