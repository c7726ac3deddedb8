------------------------------ MODULE MCOffers ------------------------------
(* A small instance of Offers for TLC. *)
EXTENDS Offers

CONSTANTS o1, o2, p1, p2, a1, a2
=============================================================================
