---------------------------- MODULE MCProviders ----------------------------
(* A small instance of Providers for TLC. *)
EXTENDS Providers

CONSTANTS cron, creation, w1, w2

\* To save states, the seller first has as many of every book.
SmallInit == Init /\ \A r, s \in Refs : available[r] = available[s]
SmallSpec == SmallInit /\ [][Next]_vars /\ Fairness
=============================================================================
