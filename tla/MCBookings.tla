----------------------------- MODULE MCBookings -----------------------------
(* Small instances of Bookings for TLC.                                     *)
EXTENDS Bookings, TLC

CONSTANTS u1, u2, s1, s2, b1, b2, b3, r1, r2, r3, c1, c2

\* Users have the same credit, and nothing orders bookings or codes.
BookingSymmetry ==
  Permutations(BookingIds) \union Permutations(Users) \union Permutations({c1, c2})

OneOffer == [s \in Stocks |-> "offer"]
TwoOffers == [s \in Stocks |-> IF s = s1 THEN "offer 1" ELSE "offer 2"]
NoCodes == [s \in Stocks |-> {}]
CodesOnS1 == [s \in Stocks |-> IF s = s1 THEN {c1, c2} ELSE {}]
Total == {"all"}
TotalOf == [d \in Total |-> Stocks]
Split == {"all", "digital"}
SplitOf == [d \in Split |-> IF d = "all" THEN Stocks ELSE {s1}]
CapOfSplit == [d \in Split |-> IF d = "all" THEN 2 ELSE 1]
CapOf2 == [d \in Total |-> 2]
CreditOf2 == [u \in Users |-> 2]
=============================================================================
