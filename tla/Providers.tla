----------------------------- MODULE Providers -----------------------------
(***************************************************************************)
(* Stocks of books synchronised with what book sellers have.  A cron job,  *)
(* and a worker when a venue is connected, ask the API of the provider     *)
(* page after page what has changed since the last synchronisation         *)
(* (src/pcapi/local_providers/provider_api); a partner may also post       *)
(* quantities that workers apply (src/pcapi/routes/pro/stocks.py).  Both   *)
(* end in synchronize_stocks (src/pcapi/core/providers/api.py), while      *)
(* beneficiaries book and cancel.                                          *)
(***************************************************************************)
EXTENDS Naturals, SequencesExt, FiniteSetsExt

CONSTANTS
  Refs,      \* of books: numbers, in the order of the provider
  Cron, Creation, \* synchronize_provider_api, venue_provider_job
  Workers,   \* of the low queue
  Limit,     \* of a page
  Catalogue, \* the books that may be offered at first
  NoStock, Invalid, \* no row; a quantity validated_stocks drops
  MaxQuantity,
  MaxDate, MaxChanges, MaxPosts, MaxBookings, MaxFaults \* bounds of the exploration

ASSUME ProvidersAssumption ==
  /\ Refs \subseteq Nat \ {0} /\ IsFiniteSet(Refs) /\ Catalogue \subseteq Refs
  /\ Cron # Creation /\ {Cron, Creation} \intersect Workers = {}
  /\ Limit \in Nat \ {0} /\ MaxQuantity \in Nat /\ Invalid \notin Nat
  /\ NoStock \notin [quantity : Nat, raw : Nat]
  /\ {MaxDate, MaxChanges, MaxPosts, MaxBookings, MaxFaults} \subseteq Nat

Syncs == {Cron, Creation}
Processes == Syncs \union Workers

VARIABLES
  now,
  posting,             \* the seller posts its quantities, or has a provider
  available, modified, \* what the provider has, or the partner posted last
  products,            \* the books of the catalogue that may be offered
  stock,               \* with its offer: they are committed together
  booked,              \* its bookings that are not cancelled
  cancelled,           \* those that are
  lastSyncDate,        \* of the venue_provider: 0 is none
  queue,               \* of synchronize_stocks_job
  job,
  shown,               \* whether the index says sold out
  changes, faults,
  skipped,  \* the books a synchronisation has not taken though it saw them change
  raced,    \* those two processes have had in hand at once
  crossed,  \* those that change between a count and the commit
  base      \* cancelled, when the bookings were counted for the stock

provider == <<available, modified>>
office == <<stock, booked, cancelled, base>>
history == <<skipped, raced, crossed>>
bounds == <<changes, faults>>
vars == <<now, posting, provider, products, office, lastSyncDate, queue, job, shown, bounds, history>>

Steps == {"idle", "fetch", "read", "write", "index", "over"}
Idle == [step |-> "idle", start |-> 0, since |-> 0, after |-> 0,
         details |-> <<>>, read |-> <<>>, reindex |-> {}]

At(p, step) == job[p].step = step
Started == [Idle EXCEPT !.step = "fetch", !.start = now, !.since = lastSyncDate]
Over == [Idle EXCEPT !.step = "over"]

Remaining(r) == stock[r].quantity - booked[r]
SoldOut(r) == stock[r].quantity <= booked[r]

\* The venue has just been connected and its job starts, or nothing is posted.
Init ==
  /\ now = 1 /\ posting \in BOOLEAN
  /\ available \in [Refs -> 0..MaxQuantity]
  /\ posting => \A r \in Refs : available[r] = 0
  /\ modified = [r \in Refs |-> 1]
  /\ products = Catalogue
  /\ stock = [r \in Refs |-> NoStock]
  /\ booked = [r \in Refs |-> 0] /\ cancelled = booked /\ base = booked
  /\ lastSyncDate = 0 /\ queue = <<>>
  /\ job = [p \in Processes |->
              IF p # Creation THEN Idle ELSE IF posting THEN Over ELSE Started]
  /\ shown = {}
  /\ changes = 0 /\ faults = 0
  /\ skipped = {} /\ raced = {} /\ crossed = {}

-----------------------------------------------------------------------------
(* The world                                                               *)

Tick ==
  /\ now < MaxDate /\ now' = now + 1
  /\ UNCHANGED <<posting, provider, products, office, lastSyncDate, queue, job, shown, bounds, history>>

Change == changes < MaxChanges /\ changes' = changes + 1

\* External: the provider dates its changes.
ProviderChanges(r) ==
  /\ ~posting /\ Change
  /\ \E q \in (0..MaxQuantity \union {Invalid}) \ {available[r]} :
       available' = [available EXCEPT ![r] = q]
  /\ modified' = [modified EXCEPT ![r] = now]
  /\ UNCHANGED <<now, posting, products, office, lastSyncDate, queue, job, shown, faults, history>>

\* POST /venue/<id>/stocks
UpdateStocks(r) ==
  /\ posting /\ changes < MaxPosts /\ changes' = changes + 1
  /\ \E q \in 0..MaxQuantity :
       /\ available' = [available EXCEPT ![r] = q]
       /\ queue' = Append(queue, [s \in {r} |-> q])
  /\ UNCHANGED <<now, posting, modified, products, office, lastSyncDate, job, shown, faults, history>>

\* The catalogue learns of the book.
AddProduct(r) ==
  /\ r \notin products /\ Change
  /\ products' = products \union {r}
  /\ UNCHANGED <<now, posting, provider, office, lastSyncDate, queue, job, shown, faults, history>>

Crossing(r) == crossed' =
  IF \E p \in Processes : At(p, "write") /\ r \in DOMAIN job[p].read
  THEN crossed \union {r} ELSE crossed
Shown(refs) == (shown \ refs) \union {r \in refs : stock[r] # NoStock /\ SoldOut(r)}

\* book_offer and the cancellations: each queues the offer for the index.
Book(r) ==
  /\ stock[r] # NoStock /\ ~SoldOut(r) /\ SumFunction(booked) + SumFunction(cancelled) < MaxBookings
  /\ booked' = [booked EXCEPT ![r] = @ + 1]
  /\ shown' = IF Remaining(r) = 1 THEN shown \union {r} ELSE shown \ {r}
  /\ Crossing(r)
  /\ UNCHANGED <<now, posting, provider, products, stock, cancelled, base, lastSyncDate, queue, job, bounds,
                 skipped, raced>>

Cancel(r) ==
  /\ booked[r] > 0
  /\ booked' = [booked EXCEPT ![r] = @ - 1] /\ cancelled' = [cancelled EXCEPT ![r] = @ + 1]
  /\ shown' = shown \ {r}
  /\ Crossing(r)
  /\ UNCHANGED <<now, posting, provider, products, stock, base, lastSyncDate, queue, job, bounds,
                 skipped, raced>>

-----------------------------------------------------------------------------
(* synchronize_venue_provider                                              *)

\* The cron job runs every day, the worker once.
StartSync ==
  /\ ~posting /\ At(Cron, "idle")
  /\ job' = [job EXCEPT ![Cron] = Started]
  /\ UNCHANGED <<now, posting, provider, products, office, lastSyncDate, queue, shown, bounds, history>>

Ended(p) == IF p = Creation THEN Over ELSE Idle

\* External: what has changed since, after the last reference, in order.
Changed(p) == {r \in Refs : r > job[p].after /\ modified[r] >= job[p].since}
Page(p) == {r \in Changed(p) : Cardinality({s \in Changed(p) : s <= r}) <= Limit}
Valid(refs) == {r \in refs : available[r] # Invalid}

InHand(p) == UNION {DOMAIN job[q].details : q \in Processes \ {p}}

\* The cursor does not move.
SamePage(after, page) == after
LastRef(after, page) == Max(page)

FetchPage(p) == LET page == Valid(Page(p)) IN
  /\ At(p, "fetch") /\ page # {}
  /\ job' = [job EXCEPT ![p].step = "read", ![p].details = [r \in page |-> available[r]],
                        ![p].after = LastRef(@, page)]
  /\ raced' = raced \union (page \intersect InHand(p))
  /\ UNCHANGED <<now, posting, provider, products, office, lastSyncDate, queue, shown, bounds,
                 skipped, crossed>>

\* The date at the end, not that at the start.
EndDate(p) == now
SyncDate(p) == job[p].start

\* A page where nothing is valid ends it too.
EndSync(p) ==
  /\ At(p, "fetch") /\ Valid(Page(p)) = {}
  /\ lastSyncDate' = SyncDate(p)
  /\ skipped' = skipped \union Changed(p)
  /\ job' = [job EXCEPT ![p] = Ended(p)]
  /\ UNCHANGED <<now, posting, provider, products, office, queue, shown, bounds, raced, crossed>>

\* synchronize_stocks_job
Dequeue(w) ==
  /\ At(w, "idle") /\ queue # <<>>
  /\ job' = [job EXCEPT ![w] = [Idle EXCEPT !.step = "read", !.details = Head(queue)]]
  /\ queue' = Tail(queue)
  /\ raced' = raced \union (DOMAIN Head(queue) \intersect InHand(w))
  /\ UNCHANGED <<now, posting, provider, products, office, lastSyncDate, shown, bounds, skipped, crossed>>

-----------------------------------------------------------------------------
(* synchronize_stocks                                                      *)

\* Cancelled bookings are counted with the others.
AllBookings(r) == booked[r] + cancelled[r]
BookingQuantity(r) == booked[r]

\* The products of the details; the offers and stocks that exist, with what is booked.
ReadStocks(p) ==
  LET known == DOMAIN job[p].details \intersect products IN
  /\ At(p, "read")
  /\ job' = [job EXCEPT ![p].step = "write", ![p].details = [r \in known |-> @[r]],
       ![p].read = [r \in {r \in known : stock[r] # NoStock} |->
                      [quantity |-> stock[r].quantity, booking_quantity |-> BookingQuantity(r),
                       cancelled |-> cancelled[r]]]]
  /\ skipped' = skipped \union (DOMAIN job[p].details \ known)
  /\ UNCHANGED <<now, posting, provider, products, office, lastSyncDate, queue, shown, bounds, raced, crossed>>

Updated(p) == DOMAIN job[p].read

\* A book that is no longer available is left as it is.
SomeAvailable(p) == {r \in DOMAIN job[p].details : job[p].details[r] > 0}
Upserted(p) == Updated(p) \union {r \in DOMAIN job[p].details : job[p].details[r] > 0}

NewStock(p, r) == LET raw == job[p].details[r] IN
  [quantity |-> IF r \in Updated(p) THEN raw + job[p].read[r].booking_quantity ELSE raw, raw |-> raw]

\* _should_reindex_offer, and the new stocks.
QuantityChanges(p, r) ==
  r \in Updated(p) => (job[p].read[r].quantity = 0) # (job[p].details[r] = 0)
ShouldReindex(p, r) ==
  r \in Updated(p) =>
    (job[p].read[r].quantity <= job[p].read[r].booking_quantity) # (job[p].details[r] = 0)

\* The trigger check_stock, and the unique references of offers and stocks.
Accepted(p) == \A r \in Upserted(p) :
  /\ NewStock(p, r).quantity >= booked[r]
  /\ r \notin Updated(p) => stock[r] = NoStock

CommitStocks(p) ==
  /\ At(p, "write") /\ Accepted(p)
  /\ stock' = [r \in Refs |-> IF r \in Upserted(p) THEN NewStock(p, r) ELSE stock[r]]
  /\ base' = [r \in Refs |-> IF r \in Updated(p) THEN job[p].read[r].cancelled ELSE base[r]]
  /\ job' = [job EXCEPT ![p].step = "index", ![p].details = <<>>, ![p].read = <<>>,
                        ![p].reindex = {r \in Upserted(p) : ShouldReindex(p, r)}]
  /\ crossed' = crossed \union (Upserted(p) \intersect UNION {Updated(q) : q \in Processes \ {p}})
  /\ UNCHANGED <<now, posting, provider, products, booked, cancelled, lastSyncDate, queue, shown, bounds,
                 skipped, raced>>

\* _reindex_offers
ReindexOffers(p) ==
  /\ At(p, "index")
  /\ shown' = Shown(job[p].reindex)
  /\ job' = [job EXCEPT ![p] = IF p \in Syncs THEN [@ EXCEPT !.step = "fetch", !.reindex = {}] ELSE Idle]
  /\ UNCHANGED <<now, posting, provider, products, office, lastSyncDate, queue, bounds, history>>

\* Whatever is not committed is rolled back; a job of a worker is not run again.
Abandon(p) ==
  /\ job' = [job EXCEPT ![p] = Ended(p)]
  /\ skipped' = IF p \in Workers THEN skipped \union DOMAIN job[p].details ELSE skipped
  /\ UNCHANGED <<now, posting, provider, products, office, lastSyncDate, queue, shown, raced>>

CommitFails(p) ==
  /\ At(p, "write") /\ ~Accepted(p)
  /\ Abandon(p) /\ UNCHANGED <<bounds, crossed>>

\* The provider does not answer, or the process is killed.
Fails(p) ==
  /\ ~(job[p].step \in {"idle", "over"})
  /\ faults < MaxFaults /\ faults' = faults + 1
  /\ crossed' = crossed \union job[p].reindex
  /\ Abandon(p) /\ UNCHANGED changes

-----------------------------------------------------------------------------
SynchronizeStocks(p) ==
  ReadStocks(p) \/ CommitStocks(p) \/ CommitFails(p) \/ ReindexOffers(p)
SynchronizeVenueProvider(p) == FetchPage(p) \/ SynchronizeStocks(p) \/ EndSync(p)
SynchronizeStocksJob(w) == Dequeue(w) \/ SynchronizeStocks(w)

Next ==
  \/ Tick
  \/ \E r \in Refs :
       ProviderChanges(r) \/ UpdateStocks(r) \/ AddProduct(r) \/ Book(r) \/ Cancel(r)
  \/ StartSync \/ \E p \in Syncs : SynchronizeVenueProvider(p)
  \/ \E w \in Workers : SynchronizeStocksJob(w)
  \/ \E p \in Processes : Fails(p)

Spec == Init /\ [][Next]_vars

\* The cron job comes back every day.
Fairness == WF_vars(StartSync \/ SynchronizeVenueProvider(Cron))
FairSpec == Spec /\ Fairness

-----------------------------------------------------------------------------
Details == UNION {[refs -> 0..MaxQuantity] : refs \in SUBSET Refs}

TypeOK ==
  /\ now \in 1..MaxDate /\ posting \in BOOLEAN /\ lastSyncDate \in 0..MaxDate
  /\ available \in [Refs -> 0..MaxQuantity \union {Invalid}] /\ modified \in [Refs -> 1..MaxDate]
  /\ booked \in [Refs -> Nat] /\ cancelled \in [Refs -> Nat] /\ base \in [Refs -> Nat]
  /\ \A r \in Refs : stock[r] # NoStock => stock[r] \in [quantity : Nat, raw : Nat] /\ r \in products
  /\ shown \subseteq {r \in Refs : stock[r] # NoStock}
  /\ ToSet(queue) \subseteq Details
  /\ \A p \in Processes :
       /\ job[p].step \in Steps /\ job[p].details \in Details
       /\ job[p].start \in 0..now /\ job[p].since \in 0..now
       /\ DOMAIN job[p].read \subseteq DOMAIN job[p].details
       /\ job[p].reindex \subseteq Refs
  /\ skipped \union raced \union crossed \subseteq Refs

Follows(r) ==
  \/ available[r] = Invalid
  \/ stock[r] = NoStock /\ available[r] = 0
  \/ stock[r] # NoStock /\ stock[r].raw = available[r]

Spared(r) == r \notin skipped \union raced

\* A stock says what the provider has, or the next synchronisation will ask for
\* it: a change made while pages are read, or before a failure, is not missed.
NoChangeIsMissed == \A r \in Refs :
  ~posting /\ Spared(r) => Follows(r) \/ modified[r] >= lastSyncDate

\* Once the jobs are done, a stock is what its partner posted last.
LastPostWins == \A r \in Refs :
  LET waiting == \E k \in 1..Len(queue) : r \in DOMAIN queue[k] IN
  posting /\ Spared(r) => Follows(r) \/ waiting \/ \E w \in Workers : r \in DOMAIN job[w].details

\* Beneficiaries are never offered more than the provider said it had, but for
\* the bookings cancelled since these were counted.
OfferedIsAvailable == \A r \in Refs : stock[r] # NoStock =>
  stock[r].quantity <= stock[r].raw + booked[r] + (cancelled[r] - base[r])

\* The index knows which offers are sold out, unless a booking or another
\* process crossed a synchronisation, or a job was killed before it queued the offer.
SoldOutIsIndexed == \A r \in Refs :
  stock[r] # NoStock /\ r \notin crossed /\ (\A p \in Processes : r \notin job[p].reindex) =>
    (r \in shown <=> SoldOut(r))

\* When the changes cease, the stocks end up as the provider says.
StocksFollow == <>[]\A r \in Refs : ~posting /\ Spared(r) => Follows(r)
=============================================================================
