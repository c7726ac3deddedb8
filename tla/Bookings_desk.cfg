\* Two requests on one stock of at most two places: booking (duo too),
\* cancelling, using and uncancelling race with the edition of the quantity, while
\* workers are killed and statements time out.
SPECIFICATION Spec
CONSTANTS
  u1 = u1 u2 = u2 s1 = s1 s2 = s2 b1 = b1 b2 = b2 b3 = b3
  r1 = r1 r2 = r2 r3 = r3 c1 = c1 c2 = c2
  None = None Absent = Absent Unlimited = Unlimited
  Users = {u1, u2}
  Stocks = {s1}
  BookingIds = {b1, b2, b3}
  Requests = {r1, r2}
  Admins = {r1}
  Crashing = {r1, r2}
  Endpoints = {"book", "cancel", "use", "uncancel", "edit"}
  OfferOf <- OneOffer
  Duo = {s1}
  Events = {}
  CodesOf <- NoCodes
  AutoActivate = FALSE
  LockTimeouts = TRUE
  Prices = {1}
  Quantities = {1, 2}
  Domains <- Total
  DomainOf <- TotalOf
  Cap <- CapOf2
  Credit <- CreditOf2
SYMMETRY BookingSymmetry
INVARIANTS JobsOK NoOverbooking CountersExact
PROPERTIES NewBookingsAreLegal ImplementsBoxOffice
