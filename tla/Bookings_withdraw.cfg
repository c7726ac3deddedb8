\* An offer of two stocks, one of them with activation codes, is rejected, or a
\* stock deleted, while it is booked, cancelled, uncancelled and used.
SPECIFICATION Spec
CONSTANTS
  u1 = u1 u2 = u2 s1 = s1 s2 = s2 b1 = b1 b2 = b2 b3 = b3
  r1 = r1 r2 = r2 r3 = r3 c1 = c1 c2 = c2
  None = None Absent = Absent Unlimited = Unlimited
  Users = {u1, u2}
  Stocks = {s1, s2}
  BookingIds = {b1, b2}
  Requests = {r1, r2}
  Admins = {r1}
  Crashing = {}
  Endpoints = {"book", "cancel", "use", "uncancel", "delete", "reject", "release"}
  OfferOf <- OneOffer
  Duo = {}
  Events = {}
  CodesOf <- CodesOnS1
  AutoActivate = FALSE
  LockTimeouts = FALSE
  Prices = {1}
  Quantities = {}
  Domains <- Split
  DomainOf <- SplitOf
  Cap <- CapOfSplit
  Credit <- CreditOf2
SYMMETRY BookingSymmetry
INVARIANTS WithdrawnStocksEmpty CodesGivenOnce
PROPERTIES ImplementsBoxOffice
