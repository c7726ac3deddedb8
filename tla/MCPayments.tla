----------------------------- MODULE MCPayments -----------------------------
(* A small instance of Payments for TLC.                                    *)
EXTENDS Payments

CONSTANTS v1, v2, d1, d2, d3, m1, m2, m3

OneVenue == [b \in Bookings |-> v1]
Book == [isDigital |-> FALSE, productIsDigital |-> FALSE, type |-> "other"]
AllThings == [b \in Bookings |-> Book]
OneYear == [b \in Bookings |-> 2021]
TwoEach == [b \in Bookings |-> 2]
NoCustomRule == [b \in Bookings |-> None]

\* One of the bookings is used, and the venue has no IBAN yet.
UsedInit == Init /\ desk[2] = "used" /\ \A v \in Venues : bank[v] = None
FairUsedSpec == UsedInit /\ [][Next]_vars /\ Fairness
=============================================================================
