------------------------------ MODULE BoxOffice ------------------------------
(***************************************************************************)
(* What the stocks of an offer promise, whatever requests are under way:   *)
(* places are sold, returned and sold again in single steps, never more of *)
(* them than there are, a deleted stock sells none to newcomers, and the   *)
(* counter is always the number of places sold.                            *)
(***************************************************************************)
EXTENDS Integers, FiniteSets

CONSTANTS Stocks, Tickets, Unlimited

VARIABLES
  capacity, \* how many places each stock has
  sold,     \* the places sold on each stock, as pairs of a ticket and a number
  counter,  \* what each stock announces of them
  issued,   \* the tickets that have been sold, returned or not
  deleted   \* the stocks that are deleted

vars == <<capacity, sold, counter, issued, deleted>>

Init ==
  /\ capacity \in [Stocks -> Nat \union {Unlimited}]
  /\ sold = [s \in Stocks |-> {}]
  /\ counter = [s \in Stocks |-> 0]
  /\ issued = {}
  /\ deleted = {}

Holders(s) == {place[1] : place \in sold[s]}

Hold(s, t) == \E n \in 1..2 : LET places == sold[s] \union ({t} \X (1..n)) IN
  /\ \A x \in Stocks : t \notin Holders(x)
  /\ capacity[s] # Unlimited => Cardinality(places) <= capacity[s]
  /\ sold' = [sold EXCEPT ![s] = places]
  /\ counter' = [counter EXCEPT ![s] = @ + n]
  /\ UNCHANGED <<capacity, deleted>>

Sell(s, t) == t \notin issued /\ s \notin deleted /\ Hold(s, t) /\ issued' = issued \union {t}

SellAgain(s, t) == t \in issued /\ Hold(s, t) /\ UNCHANGED issued

TakeBack(s, T) == LET places == {place \in sold[s] : place[1] \in T} IN
  /\ sold' = [sold EXCEPT ![s] = @ \ places]
  /\ counter' = [counter EXCEPT ![s] = @ - Cardinality(places)]
  /\ UNCHANGED <<capacity, issued, deleted>>

Resize(s) == LET new == capacity'[s] IN
  /\ new # Unlimited => Cardinality(sold[s]) <= new
  /\ capacity' = [capacity EXCEPT ![s] = new]
  /\ UNCHANGED <<sold, counter, issued, deleted>>

Delete(s) ==
  /\ deleted' = deleted \union {s}
  /\ UNCHANGED <<capacity, sold, counter, issued>>

Next == \E s \in Stocks :
  \/ \E t \in Tickets : Sell(s, t) \/ SellAgain(s, t)
  \/ \E T \in SUBSET Tickets : TakeBack(s, T)
  \/ Resize(s) \/ Delete(s)

Spec == Init /\ [][Next]_vars
=============================================================================
