SPECIFICATION Spec
CONSTANTS
  u1 = u1 u2 = u2 n1 = n1 n2 = n2 c1 = c1 r1 = r1 r2 = r2
  dms = dms jouve = jouve former = former
  None = None Batch = Batch
  Users = {u1, u2}
  Phones = {n1, n2}
  PhoneOf <- TwoPhones
  Codes = {c1}
  Requests = {r1, r2}
  Applications = {dms, jouve, former}
  UserOf <- FormerOfU2
  JouveApplications = {jouve}
  PieceOf <- TwoPieces
  PersonOf <- Spellings
  Treated = {former}
  ForcePhone = TRUE
  MaxAttempts = 1
  MaxSms = 1
SYMMETRY RequestSymmetry
INVARIANTS TypeOK CreditedOnce BeneficiariesDidEveryStep LimitsHold NobodyIsForgotten
CHECK_DEADLOCK FALSE
