----------------------------- MODULE MCIndexing -----------------------------
(* A small instance of Indexing for TLC. *)
EXTENDS Indexing

CONSTANTS o1, o2, v1, v2, a1, a2, r1, cron, command, by_venue, errors, expiry

OneOfferEach == [o \in Offers |-> IF o = o1 THEN v1 ELSE v2]

\* Requests that change offers, and the jobs that pop them: nothing else.
ByOfferNext ==
  \/ \E r \in Requests : Push(r) \/ \E o \in Offers : ChangeOffer(r, o)
  \/ \E j \in OfferJobs : IndexByOffer(j)
ByOfferSpec == Init /\ [][ByOfferNext]_vars
=============================================================================
