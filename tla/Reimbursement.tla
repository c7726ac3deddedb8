---------------------------- MODULE Reimbursement ----------------------------
(***************************************************************************)
(* How much of a booking an offerer is paid back (src/pcapi/domain/        *)
(* reimbursement.py): the regular rules, which overlap, and the choice     *)
(* get_reimbursement_rule makes among those that are relevant.             *)
(***************************************************************************)
EXTENDS Integers

CONSTANTS
  FirstCap,   \* 20 000 euros of turnover in a year, by venue
  SecondCap,  \* 40 000 euros
  ThirdCap    \* 150 000 euros

ASSUME CapsAssumption ==
  /\ FirstCap \in Nat /\ SecondCap \in Nat /\ ThirdCap \in Nat
  /\ FirstCap < SecondCap /\ SecondCap < ThirdCap

\* What the rules ask of an offer: its url, the url of its product, its type.
Kind == [isDigital: BOOLEAN, productIsDigital: BOOLEAN, type: {"book", "cinema", "other"}]

Rules == {"digital", "physical", "first", "second", "third", "book"}

RateOf == [digital |-> 0, physical |-> 100, first |-> 95, second |-> 85, third |-> 70, book |-> 95]

IsException(kind) == kind.type \in {"book", "cinema"}
CountsInTurnover(kind) == IsException(kind) \/ ~kind.isDigital

\* is_relevant: the relevant rules of a booking and of the turnover so far.
IsRelevant(rule, kind, turnover) ==
  CASE rule = "digital"  -> kind.isDigital /\ ~IsException(kind)
    [] rule = "physical" -> CountsInTurnover(kind)
    [] rule = "first"    -> ~kind.productIsDigital /\ FirstCap < turnover /\ turnover <= SecondCap
    [] rule = "second"   -> ~kind.productIsDigital /\ SecondCap < turnover /\ turnover <= ThirdCap
    [] rule = "third"    -> ~kind.productIsDigital /\ ThirdCap < turnover
    [] rule = "book"     -> kind.type = "book" /\ FirstCap < turnover

Candidates(kind, turnover) == {rule \in Rules : IsRelevant(rule, kind, turnover)}

\* The rule on books wins; otherwise the rule that pays least.
RegularRule(kind, turnover) == LET candidates == Candidates(kind, turnover) IN
  IF "book" \in candidates THEN "book"
  ELSE CHOOSE rule \in candidates : \A other \in candidates : RateOf[rule] <= RateOf[other]

RegularRate(kind, turnover) == RateOf[RegularRule(kind, turnover)]

-----------------------------------------------------------------------------
\* What the descriptions of the rules announce, as one table.
AnnouncedRate(kind, turnover) ==
  IF kind.isDigital /\ ~IsException(kind) THEN 0
  ELSE IF turnover <= FirstCap THEN 100
  ELSE IF kind.type = "book" THEN 95
  ELSE IF kind.productIsDigital THEN 100
  ELSE IF turnover <= SecondCap THEN 95
  ELSE IF turnover <= ThirdCap THEN 85
  ELSE 70
=============================================================================
