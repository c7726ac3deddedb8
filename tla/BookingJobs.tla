----------------------------- MODULE BookingJobs -----------------------------
(***************************************************************************)
(* The jobs that the clock starts on bookings, beside the requests of      *)
(* Bookings: handle_expired_bookings cancels what has not been collected   *)
(* after 30 days, batch by batch, and update_booking_used marks as used    *)
(* what was booked for an event that is over.  Neither takes the lock of a *)
(* stock before it writes a booking.                                       *)
(***************************************************************************)
EXTENDS Bookings

CONSTANTS
  BatchSize,   \* of cancel_expired_bookings
  Expirable,   \* the stocks of offers with canExpire
  JobsKilled   \* whether the clock's process may be killed

ASSUME JobsAssumption ==
  /\ BookingIds \subseteq Int
  /\ BatchSize \in Nat \ {0}
  /\ Expirable \subseteq Stocks
  /\ JobsKilled \in BOOLEAN

VARIABLES
  old,      \* the bookings created 30 days before this morning or earlier
  expiry,   \* what cancel_expired_bookings is doing
  nightly   \* the bookings update_booking_used has loaded and not handled

jobVars == <<old, expiry, nightly>>
allVars == <<vars, jobVars>>

\* counts: the numbers of places recompute_dnBookedQuantity has read.
NotExpiring == [step |-> "idle", batch |-> {}, stocks |-> {}, counts |-> <<>>]

JobsInit == Init /\ old = {} /\ expiry = NotExpiring /\ nightly = {}

-----------------------------------------------------------------------------
(* cancel_expired_bookings                                                 *)

ActiveOnly(b) == Active(booking, b)
Unfinished(b) == Active(booking, b) /\ ~booking[b].used
Expiring == {b \in old : Unfinished(b) /\ booking[b].stock \in Expirable}

\* ORDER BY booking.id LIMIT batch_size
NextBatch == {b \in Expiring : Cardinality({a \in Expiring : a < b}) < BatchSize}

\* The stocks to recompute are those of the first batch.
StocksOf(batch) == {booking[b].stock : b \in batch}

StartExpiry ==
  /\ expiry.step = "idle" /\ Expiring # {}
  /\ expiry' = [NotExpiring EXCEPT !.step = "update", !.batch = NextBatch,
                                   !.stocks = StocksOf(NextBatch)]
  /\ UNCHANGED <<vars, old, nightly>>

\* UPDATE booking SET "isCancelled" WHERE id <= max_id AND id IN batch, which
\* looks neither at isUsed nor at isCancelled again.
BelowMax(batch, b) == \E a \in batch : b < a
UpToMax(batch, b) == \E a \in batch : b <= a

ExpireBatch ==
  /\ expiry.step = "update"
  /\ \A b \in expiry.batch : RowHolders(b) = {}
  /\ booking' = [b \in BookingIds |->
       IF b \in expiry.batch /\ UpToMax(expiry.batch, b)
       THEN [booking[b] EXCEPT !.cancelled = TRUE] ELSE booking[b]]
  /\ expiry' = [expiry EXCEPT !.step = "next"]
  /\ UNCHANGED <<stock, payment, lock, job, old, nightly>>

AfterBatch(batch) == IF batch = {} THEN "count" ELSE "update"

FetchNextBatch ==
  /\ expiry.step = "next"
  /\ expiry' = [expiry EXCEPT !.batch = NextBatch, !.step = AfterBatch(NextBatch)]
  /\ UNCHANGED <<vars, old, nightly>>

\* recompute_dnBookedQuantity: the WITH query counts on the snapshot of the
\* statement, and the UPDATE then waits for whoever has locked a stock.
Recount ==
  /\ expiry.step = "count"
  /\ expiry' = [expiry EXCEPT !.step = "recompute",
                              !.counts = [s \in expiry.stocks |-> Booked(booking, s)]]
  /\ UNCHANGED <<vars, old, nightly>>

WriteCounts ==
  /\ expiry.step = "recompute"
  /\ \A s \in expiry.stocks : lock[s] = None
  /\ stock' = [s \in Stocks |->
       IF s \in expiry.stocks THEN [stock[s] EXCEPT !.dn = expiry.counts[s]] ELSE stock[s]]
  /\ expiry' = NotExpiring
  /\ UNCHANGED <<booking, payment, lock, job, old, nightly>>

\* A statement of the job times out: the exception is logged and the batches
\* already committed are not recounted.
ExpiryFails ==
  /\ LockTimeouts
  /\ \/ expiry.step = "update" /\ \E b \in expiry.batch : RowHolders(b) # {}
     \/ expiry.step = "recompute" /\ \E s \in expiry.stocks : lock[s] # None
  /\ expiry' = NotExpiring
  /\ UNCHANGED <<vars, old, nightly>>

-----------------------------------------------------------------------------
(* update_booking_used_after_stock_occurrence                              *)

StartNightly ==
  /\ nightly = {}
  /\ \E b \in BookingIds : Unfinished(b)
  /\ nightly' = {b \in BookingIds : Unfinished(b)}
  /\ UNCHANGED <<vars, old, expiry>>

EventOf(b, phase) == booking[b].stock \in Events /\ stock[booking[b].stock].phase = phase
JustBegun(b) == EventOf(b, "begun")
\* not stock.isEventDeletable
IsOver(b) == EventOf(b, "over")

\* isUsed is set whatever has become of the booking since it was loaded.
HandleBooking(b) ==
  /\ b \in nightly
  /\ IsOver(b) => RowHolders(b) = {}
  /\ booking' = IF IsOver(b) THEN [booking EXCEPT ![b].used = TRUE] ELSE booking
  /\ nightly' = nightly \ {b}
  /\ UNCHANGED <<stock, payment, lock, job, old, expiry>>

\* repository.save fails: the identifier is logged.
SkipBooking(b) ==
  /\ LockTimeouts
  /\ b \in nightly /\ IsOver(b) /\ RowHolders(b) # {}
  /\ nightly' = nightly \ {b}
  /\ UNCHANGED <<vars, old, expiry>>

-----------------------------------------------------------------------------
KillJobs ==
  /\ JobsKilled
  /\ expiry.step # "idle" \/ nightly # {}
  /\ expiry' = NotExpiring /\ nightly' = {}
  /\ UNCHANGED <<vars, old>>

\* Midnight: the job that starts at five in the morning is not running.
GetsOld(b) ==
  /\ expiry.step = "idle"
  /\ Exists(booking, b) /\ b \notin old
  /\ old' = old \union {b}
  /\ UNCHANGED <<vars, expiry, nightly>>

RequestStep == Next /\ UNCHANGED jobVars

ExpiryStep == ExpireBatch \/ FetchNextBatch \/ Recount \/ WriteCounts
HandleSome == \E b \in BookingIds : HandleBooking(b)

JobsNext ==
  \/ RequestStep
  \/ StartExpiry \/ ExpiryStep \/ ExpiryFails
  \/ StartNightly \/ HandleSome \/ \E b \in BookingIds : SkipBooking(b)
  \/ KillJobs
  \/ \E b \in BookingIds : GetsOld(b)

JobsSpec == JobsInit /\ [][JobsNext]_allVars

\* The clock starts each job every day, and a job that runs goes on.
JobsFairness ==
  /\ WF_allVars(StartExpiry) /\ SF_allVars(ExpiryStep)
  /\ WF_allVars(StartNightly) /\ \A b \in BookingIds : SF_allVars(HandleBooking(b))
  /\ \A p \in Requests : SF_allVars((Proceed(p) \/ TakeLock(p)) /\ UNCHANGED jobVars)

FairJobsSpec == JobsSpec /\ JobsFairness

-----------------------------------------------------------------------------
\* The jobs keep to the bookings and the stocks they may touch.
JobsTypeOK ==
  /\ old \subseteq BookingIds /\ nightly \subseteq BookingIds
  /\ expiry \in [step: {"idle", "update", "next", "count", "recompute"},
                 batch: SUBSET BookingIds, stocks: SUBSET Expirable, counts: {expiry.counts}]
  /\ expiry.step = "recompute" => expiry.counts \in [expiry.stocks -> Nat]
  /\ \A b \in old \union nightly : Exists(booking, b)
  /\ \A b \in expiry.batch : b \in old /\ booking[b].stock \in Expirable

\* After the job, no counter holds places that nobody has booked any more, as
\* the comment "Recompute denormalized stock quantity" and its test have it.
PlacesComeBack == expiry.step = "idle" =>
  \A s \in Stocks : stock[s].dn <= Booked(booking, s)

\* The jobs leave alone the bookings that are paid, too, unless the expiry has
\* fetched one before it was used.
Kept(b) == Settled(b) /\ b \notin expiry.batch
PaidOutlastsJobs == [][\A b \in BookingIds : Kept(b) => Kept(b)']_allVars

\* A booking that should expire is used or cancelled in the end.
OldBookingsExpire == \A b \in BookingIds : b \in Expiring ~> b \notin Expiring

\* A booking of an event that is over is used or cancelled in the end, so that
\* the offerer is paid for it.
EndedEventsAreUsed == \A b \in BookingIds :
  Unfinished(b) /\ EventOf(b, "over") ~> ~Unfinished(b)

=============================================================================
