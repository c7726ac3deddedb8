-------------------------- MODULE MCBeneficiaries --------------------------
(* A small instance of Beneficiaries for TLC: somebody who is a beneficiary  *)
(* as u2 applies again as u1, with another piece, to DMS and, under another  *)
(* spelling of the name, to Jouve.                                           *)
EXTENDS Beneficiaries, TLC

CONSTANTS u1, u2, n1, n2, c1, r1, r2, dms, jouve, former

Spellings == [a \in Applications |-> IF a = jouve THEN "another" ELSE "person"]
TwoPhones == [u \in Users |-> IF u = u1 THEN n1 ELSE n2]
FormerOfU2 == [a \in Applications |-> IF a = former THEN u2 ELSE u1]
TwoPieces == [a \in Applications |-> IF a = former THEN "passport" ELSE "card"]

RequestSymmetry == Permutations(Requests)
=============================================================================
