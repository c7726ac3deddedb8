------------------------------- MODULE Offers -------------------------------
(***************************************************************************)
(* The validation of offers (src/pcapi/core/offers/api.py, the back office *)
(* of src/pcapi/admin/custom_views/offer_view.py).  An offer is a draft    *)
(* until its first stocks are saved; fraud criteria then approve it or     *)
(* leave it to administrators, while the partner goes on switching it on   *)
(* and off.  No row of an offer is ever locked: a request loads it, checks *)
(* it, and writes later the columns that differ from what it has loaded.   *)
(***************************************************************************)
EXTENDS Naturals, FiniteSets

CONSTANTS
  Offers,
  Pros,     \* the requests of partners
  Admins,   \* those of administrators
  Verdicts, \* what the fraud criteria may answer
  None,
  MaxEdits, MaxKills \* bounds of the exploration

Validations == {"DRAFT", "PENDING", "APPROVED", "REJECTED"}

ASSUME OffersAssumption ==
  /\ Verdicts \subseteq {"PENDING", "APPROVED", "REJECTED"}
  /\ Pros \intersect Admins = {} /\ None \notin Offers \union Validations
  /\ MaxEdits \in Nat /\ MaxKills \in Nat

Requests == Pros \union Admins

VARIABLES
  offer,     \* the committed rows
  stocked,   \* the offers with stocks
  booked,    \* those with bookings that may be cancelled
  old,       \* those created before yesterday
  job,
  edits, kills,
  disputed,  \* two requests were deciding of their validation at once
  switched,  \* a decision crossed a switch, or a change of the offer
  cut        \* a request was killed after its first commit

history == <<disputed, switched, cut>>
vars == <<offer, stocked, booked, old, job, edits, kills, history>>

Absent == [validation |-> None, isActive |-> FALSE]
Row == [validation: Validations, isActive: BOOLEAN]

Steps == {"idle", "stocks", "judge", "decide", "switch", "write",
          "review", "page", "edit", "after"}
Idle == [step |-> "idle", offer |-> None, seen |-> Absent, value |-> None]

Init ==
  /\ offer = [o \in Offers |-> Absent]
  /\ stocked = {} /\ booked = {} /\ old = {}
  /\ job = [p \in Requests |-> Idle]
  /\ edits = 0 /\ kills = 0
  /\ disputed = {} /\ switched = {} /\ cut = {}

-----------------------------------------------------------------------------
At(p, step) == job[p].step = step
Holds(p, o, steps) == job[p].offer = o /\ job[p].step \in steps

Deciding == {"decide", "review", "edit", "after"}
Switching == {"switch", "write"}

\* The request now holds the row as it is; what it is crossing is recorded.
Take(p, o, step, value) ==
  /\ job' = [job EXCEPT ![p] = [step |-> step, offer |-> o, seen |-> offer[o], value |-> value]]
  /\ disputed' = IF step \in Deciding /\ \E q \in Requests \ {p} : Holds(q, o, Deciding)
                 THEN disputed \union {o} ELSE disputed
  /\ switched' = IF \E q \in Requests \ {p} :
                      \/ step \in Deciding /\ Holds(q, o, Switching)
                      \/ step \in Switching /\ Holds(q, o, Deciding)
                 THEN switched \union {o} ELSE switched
  /\ UNCHANGED cut

End(p) == job' = [job EXCEPT ![p] = Idle]

\* UPDATE: only the columns that differ from those loaded are written.
Flushed(row, seen, new) ==
  [c \in DOMAIN row |-> IF new[c] # seen[c] THEN new[c] ELSE row[c]]
Flush(p, new) == offer' = [offer EXCEPT ![job[p].offer] = Flushed(@, job[p].seen, new)]

Is(o, validations) == offer[o].validation \in validations

\* check_validation_status
Modifiable(o) == Is(o, {"DRAFT", "APPROVED"})

Edit == edits < MaxEdits /\ edits' = edits + 1

-----------------------------------------------------------------------------
(* Partners                                                                *)

CreateOffer(o) ==
  /\ offer[o] = Absent /\ o \notin old
  /\ offer' = [offer EXCEPT ![o] = [validation |-> "DRAFT", isActive |-> TRUE]]
  /\ UNCHANGED <<stocked, booked, old, job, edits, kills, history>>

\* upsert_stocks
UpsertStocks(p, o) ==
  /\ At(p, "idle") /\ Modifiable(o) /\ Edit
  /\ Take(p, o, "stocks", None)
  /\ UNCHANGED <<offer, stocked, booked, old, kills>>

\* A first commit; the foreign key fails when the draft is gone.
SaveStocks(p) == LET o == job[p].offer IN
  /\ At(p, "stocks")
  /\ IF offer[o] = Absent THEN End(p) /\ UNCHANGED stocked
     ELSE stocked' = stocked \union {o} /\ job' = [job EXCEPT ![p].step = "judge"]
  /\ UNCHANGED <<offer, booked, old, edits, kills, history>>

\* The row is read again after the commit.
ReadDraft(p) == LET o == job[p].offer IN
  /\ At(p, "judge")
  /\ IF Is(o, {"DRAFT"}) THEN Take(p, o, "decide", None) ELSE End(p) /\ UNCHANGED history
  /\ UNCHANGED <<offer, stocked, booked, old, edits, kills>>

\* A pending offer stays visible.
StaysActive(verdict) == TRUE
IsActiveOnce(verdict) == verdict = "APPROVED"

\* set_offer_status_based_on_fraud_criteria, and the second commit.
DecideOnCriteria(p) ==
  /\ At(p, "decide")
  /\ \E verdict \in Verdicts :
       Flush(p, [validation |-> verdict, isActive |-> job[p].seen.isActive /\ IsActiveOnce(verdict)])
  /\ End(p)
  /\ UNCHANGED <<stocked, booked, old, edits, kills, history>>

\* update_offers_active_status: the approved offers are selected, ...
Switchable(o) == Is(o, {"APPROVED"})

SelectOffers(p, o) ==
  /\ At(p, "idle") /\ Switchable(o) /\ Edit
  /\ \E on \in BOOLEAN : Take(p, o, "switch", on)
  /\ UNCHANGED <<offer, stocked, booked, old, kills>>

\* ... then updated, whatever they have become.
UpdateActiveStatus(p) ==
  /\ At(p, "switch")
  /\ offer' = [offer EXCEPT ![job[p].offer].isActive = job[p].value]
  /\ End(p)
  /\ UNCHANGED <<stocked, booked, old, edits, kills, history>>

\* update_offer, whose isActive may be among the modifications.
LoadOffer(p, o) ==
  /\ At(p, "idle") /\ Modifiable(o) /\ Edit
  /\ Take(p, o, "write", ~offer[o].isActive)
  /\ UNCHANGED <<offer, stocked, booked, old, kills>>

\* The row of a purged draft is not found.
UpdateOffer(p) ==
  /\ At(p, "write")
  /\ IF offer[job[p].offer] = Absent THEN UNCHANGED offer
     ELSE Flush(p, [job[p].seen EXCEPT !.isActive = job[p].value])
  /\ End(p)
  /\ UNCHANGED <<stocked, booked, old, edits, kills, history>>

\* deactivate_inappropriate_products
DeactivateInappropriate(o) ==
  /\ offer[o].isActive /\ Edit
  /\ offer' = [offer EXCEPT ![o].isActive = FALSE]
  /\ UNCHANGED <<stocked, booked, old, job, kills, history>>

\* book_offer, which asks isReleased under the lock of the stock.
BookOffer(o) ==
  /\ o \in stocked \ booked
  /\ offer[o] = [validation |-> "APPROVED", isActive |-> TRUE]
  /\ booked' = booked \union {o}
  /\ UNCHANGED <<offer, stocked, old, job, edits, kills, history>>

-----------------------------------------------------------------------------
(* Administrators                                                          *)

\* update_pending_offer_validation: the list they chose from may be stale.
AnyOffer(o) == Is(o, {"PENDING", "APPROVED", "REJECTED"})
Reviewable(o) == Is(o, {"PENDING"})

LoadPending(a, o) ==
  /\ At(a, "idle") /\ Reviewable(o) /\ Edit
  /\ \E v \in {"APPROVED", "REJECTED"} : Take(a, o, "review", v)
  /\ UNCHANGED <<offer, stocked, booked, old, kills>>

Review(a) == LET j == job[a] IN
  /\ At(a, "review")
  /\ Flush(a, [validation |-> j.value, isActive |-> j.seen.isActive \/ j.value = "APPROVED"])
  /\ End(a)
  /\ UNCHANGED <<stocked, booked, old, edits, kills, history>>

\* The form of OfferView is filled with the validation of the moment.
OpenPage(a, o) ==
  /\ At(a, "idle") /\ offer[o] # Absent /\ Edit
  /\ Take(a, o, "page", offer[o].validation)
  /\ UNCHANGED <<offer, stocked, booked, old, kills>>

\* on_model_change: a change to a draft or to pending is refused.
SubmitPage(a) == LET o == job[a].offer IN
  /\ At(a, "page")
  /\ \E v \in {job[a].value, "APPROVED", "REJECTED"} :
       IF offer[o] = Absent \/ (v # offer[o].validation /\ v \in {"DRAFT", "PENDING"})
       THEN End(a) /\ UNCHANGED history
       ELSE Take(a, o, "edit", v)
  /\ UNCHANGED <<offer, stocked, booked, old, edits, kills>>

CommitEdit(a) == LET o == job[a].offer IN
  /\ At(a, "edit")
  /\ IF offer[o] = Absent THEN End(a) /\ UNCHANGED offer
     ELSE Flush(a, [job[a].seen EXCEPT !.validation = job[a].value]) /\ job' = [job EXCEPT ![a].step = "after"]
  /\ UNCHANGED <<stocked, booked, old, edits, kills, history>>

\* cancel_bookings_from_rejected_offer
NoCancellation(o) == UNCHANGED booked
CancelBookings(o) == booked' = IF Is(o, {"REJECTED"}) THEN booked \ {o} ELSE booked

\* after_model_change: the row is read again, and compared with that submitted.
AfterEdit(a) == LET o == job[a].offer IN
  /\ At(a, "after")
  /\ IF offer[o] = Absent \/ Is(o, {job[a].seen.validation}) THEN UNCHANGED <<offer, booked>>
     ELSE /\ offer' = [offer EXCEPT ![o].isActive =
                         Is(o, {"APPROVED"}) \/ (@ /\ ~Is(o, {"REJECTED"}))]
          /\ CancelBookings(o)
  /\ End(a)
  /\ UNCHANGED <<stocked, old, edits, kills, history>>

-----------------------------------------------------------------------------
(* Time                                                                    *)

DayPasses ==
  /\ old' = {o \in Offers : offer[o] # Absent} \union old
  /\ UNCHANGED <<offer, stocked, booked, job, edits, kills, history>>

InactiveDrafts == {o \in old : Is(o, {"DRAFT"}) /\ ~offer[o].isActive}
PastDrafts == {o \in old : Is(o, {"DRAFT"})}

Deletable == Offers \ stocked

\* delete_past_draft_offers: one DELETE, which the foreign key of a stock fails.
DeletePastDrafts ==
  /\ PastDrafts # {} /\ PastDrafts \subseteq Deletable
  /\ offer' = [o \in Offers |-> IF o \in PastDrafts THEN Absent ELSE offer[o]]
  /\ UNCHANGED <<stocked, booked, old, job, edits, kills, history>>

\* What was committed stays.
Kill(p) ==
  /\ job[p].step \in {"judge", "decide", "after"}
  /\ kills < MaxKills /\ kills' = kills + 1
  /\ End(p)
  /\ cut' = cut \union {job[p].offer}
  /\ UNCHANGED <<offer, stocked, booked, old, edits, disputed, switched>>

-----------------------------------------------------------------------------
Continue(p) ==
  \/ SaveStocks(p) \/ ReadDraft(p) \/ DecideOnCriteria(p)
  \/ UpdateActiveStatus(p) \/ UpdateOffer(p)

Next ==
  \/ \E o \in Offers :
       \/ CreateOffer(o) \/ DeactivateInappropriate(o) \/ BookOffer(o)
       \/ \E p \in Pros : UpsertStocks(p, o) \/ SelectOffers(p, o) \/ LoadOffer(p, o)
       \/ \E a \in Admins : LoadPending(a, o) \/ OpenPage(a, o)
  \/ \E p \in Pros : Continue(p)
  \/ \E a \in Admins : Review(a) \/ SubmitPage(a) \/ CommitEdit(a) \/ AfterEdit(a)
  \/ \E p \in Requests : Kill(p)
  \/ DayPasses \/ DeletePastDrafts

Spec == Init /\ [][Next]_vars

\* A request that nobody kills ends; the purge runs every day.
Fairness == (\A p \in Pros : WF_vars(Continue(p))) /\ WF_vars(DeletePastDrafts)
FairSpec == Spec /\ Fairness

-----------------------------------------------------------------------------
TypeOK ==
  /\ offer \in [Offers -> Row \union {Absent}]
  /\ stocked \union booked \union old \subseteq Offers
  /\ booked \subseteq stocked /\ \A o \in stocked : offer[o] # Absent
  /\ \A p \in Requests :
       /\ job[p].step \in Steps
       /\ job[p].offer \in Offers \union {None} /\ job[p].seen \in Row \union {Absent}
  /\ disputed \union switched \union cut \subseteq Offers

InProgress(o) == \E p \in Requests : Holds(p, o, Deciding)

\* What is refused or awaits a decision is not active, and a switch, a change,
\* or an old page of the back office does not make it so on its own.
OnlyApprovedAreActive == \A o \in Offers :
  Is(o, {"PENDING", "REJECTED"}) /\ offer[o].isActive =>
    InProgress(o) \/ o \in disputed \union switched \union cut

\* The bookings of a rejected offer are cancelled, however it has been rejected,
\* unless two requests decided at once or one was killed.
RejectedKeepNoBooking == \A o \in Offers :
  Is(o, {"REJECTED"}) /\ o \in booked => InProgress(o) \/ o \in disputed \union cut

\* Only the edit of an administrator changes what has been decided of an offer:
\* neither a partner nor a reviewer with a stale list does.
DecisionsStand == [][\A o \in Offers :
  Is(o, {"APPROVED", "REJECTED"}) /\ offer'[o].validation # offer[o].validation =>
    o \in disputed \/ \E a \in Admins : Holds(a, o, {"edit"})]_vars

\* A draft is purged, or judged, unless one with stocks has been left undecided.
DraftsGo == \A o \in Offers : (o \in old /\ Is(o, {"DRAFT"})) ~> (~Is(o, {"DRAFT"}) \/ cut # {})
=============================================================================
