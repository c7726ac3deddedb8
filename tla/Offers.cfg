SPECIFICATION FairSpec
CONSTANTS
  o1 = o1 o2 = o2 p1 = p1 p2 = p2 a1 = a1 a2 = a2
  None = None
  Offers = {o1, o2}
  Pros = {p1, p2}
  Admins = {a1, a2}
  Verdicts = {"PENDING", "APPROVED"}
  MaxEdits = 3
  MaxKills = 1
INVARIANTS OnlyApprovedAreActive RejectedKeepNoBooking
PROPERTIES DecisionsStand DraftsGo
CHECK_DEADLOCK FALSE
