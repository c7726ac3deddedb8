---------------------------- MODULE MCBookingJobs ----------------------------
(* Small instances of BookingJobs for TLC.                                  *)
EXTENDS BookingJobs, TLC

CONSTANTS u1, u2, s1, s2, r1, r2

OneOffer == [s \in Stocks |-> "offer"]
TwoOffers == [s \in Stocks |-> IF s = s1 THEN "offer 1" ELSE "offer 2"]
NoCodes == [s \in Stocks |-> {}]
Total == {"all"}
TotalOf == [d \in Total |-> Stocks]
CapOf2 == [d \in Total |-> 2]
CreditOf2 == [u \in Users |-> 2]
=============================================================================
