------------------------------ MODULE Bookings ------------------------------
(***************************************************************************)
(* The life of bookings (src/pcapi/core/bookings, with the stock           *)
(* operations of src/pcapi/core/offers that cancel or constrain them):     *)
(* concurrent HTTP requests read and write the booking and stock tables of *)
(* PostgreSQL (READ COMMITTED), serialised only by the row lock that       *)
(* get_and_lock_stock takes on a stock and guarded by two triggers.        *)
(*                                                                         *)
(* One request is one value of job[p].  A request keeps the rows it loaded *)
(* in its SQLAlchemy session (job[p].row): it goes on using them after     *)
(* other requests have changed the table.                                  *)
(***************************************************************************)
EXTENDS Integers, FiniteSets, FiniteSetsExt

CONSTANTS
  Users,        \* beneficiaries, each with an active deposit
  Stocks,
  BookingIds,   \* bound on the number of rows of the booking table
  Requests,     \* bound on the number of requests served at one time
  Admins,       \* the requests that come from the back office
  Crashing,     \* the requests whose worker may be killed
  Endpoints,    \* the operations this workload calls
  OfferOf,      \* [Stocks -> offers]: Stock.offer
  Duo,          \* stocks of offers with isDuo
  Events,       \* stocks with a beginningDatetime
  CodesOf,      \* [Stocks -> sets of activation codes]
  AutoActivate, \* FeatureToggle.AUTO_ACTIVATE_DIGITAL_BOOKINGS
  LockTimeouts, \* whether DATABASE_LOCK_TIMEOUT is set
  Prices,       \* the prices of stocks
  Quantities,   \* the limited quantities stocks have
  Domains,      \* expense domains: total, digital, physical
  DomainOf,     \* [Domains -> SUBSET Stocks]: where the cap applies
  Cap,          \* [Domains -> Nat]: the caps of the limit configuration
  Credit,       \* [Users -> Nat]: the amount of the deposit
  Unlimited, None, Absent

Steps == {"idle", "book:check", "book:flush", "book:commit",
          "cancel:lock", "cancel:write", "purge:lock", "purge:write",
          "use:write", "uncancel:flush", "uncancel:lock", "unuse:write",
          "edit:write", "edit:redate", "edit:unuse", "edit:commit"}

Operations == {"book", "cancel", "delete", "reject", "use", "uncancel",
               "unuse", "edit", "move", "pay", "release", "time"}

Codes == UNION {CodesOf[s] : s \in Stocks}

\* A row of the booking table; dates are reduced to what the checks ask of
\* them: confirmed is "confirmationDate is in the past".
Row == [user: Users, stock: Stocks, quantity: 1..2, amount: Prices,
        cancelled: BOOLEAN, used: BOOLEAN, confirmed: BOOLEAN,
        code: Codes \union {None}]

\* phase: "upcoming" (and every thing), "begun" once beginningDatetime has
\* passed, "over" 48 hours later.  offer: "open" when offer.isReleased and
\* bookingLimitDatetime has not passed, "rejected" by the back office.
StockRow == [quantity: Quantities \union {Unlimited}, dn: Int, price: Prices,
             deleted: BOOLEAN, offer: {"open", "closed", "rejected"},
             phase: {"upcoming", "begun", "over"}]

\* None: the column has not changed.
Edit == [quantity: Quantities \union {Unlimited, None},
         price: Prices \union {None}, move: {"same", "near", "far"}]

Job == [step: Steps, stock: Stocks \union {None},
        booking: BookingIds \union {None}, row: Row \union {None},
        edit: Edit \union {None}, targets: SUBSET BookingIds,
        queue: SUBSET Stocks]

ASSUME BookingsAssumption ==
  /\ IsFiniteSet(BookingIds)
  /\ Admins \subseteq Requests /\ Crashing \subseteq Requests
  /\ Endpoints \subseteq Operations
  /\ Duo \subseteq Stocks /\ Events \subseteq Stocks
  /\ CodesOf \in [Stocks -> SUBSET Codes]
  \* ActivationCode.stockId: a code is uploaded for one stock.
  /\ \A s, t \in Stocks : s # t => CodesOf[s] \cap CodesOf[t] = {}
  /\ AutoActivate \in BOOLEAN /\ LockTimeouts \in BOOLEAN
  /\ Prices \subseteq Nat /\ Quantities \subseteq Nat
  /\ Credit \in [Users -> Nat]
  /\ None \notin Requests /\ None \notin Stocks /\ None \notin BookingIds
  /\ None \notin Codes /\ None \notin Row /\ None \notin Edit
  /\ None \notin Prices \union Quantities \union {Unlimited}
  /\ Unlimited \notin Quantities /\ Absent \notin Row

VARIABLES
  booking,  \* the committed rows of the booking table
  stock,    \* the committed rows of the stock table
  payment,  \* the bookings the payment batch has "found", and those "paid"
  lock,     \* who holds FOR UPDATE on each stock row
  job       \* what each request is doing

vars == <<booking, stock, payment, lock, job>>

Doing(step, s, b, row) ==
  [step |-> step, stock |-> s, booking |-> b, row |-> row,
   edit |-> None, targets |-> {}, queue |-> {}]
Idle == Doing("idle", None, None, None)

\* The bookings that have a row in the payment table.
paid == {b \in BookingIds : payment[b] = "paid"}

Init ==
  /\ booking = [b \in BookingIds |-> Absent]
  /\ stock \in [Stocks -> [quantity: Quantities \union {Unlimited}, dn: {0},
                           price: Prices, deleted: {FALSE},
                           offer: {"open"}, phase: {"upcoming"}]]
  /\ payment = [b \in BookingIds |-> "none"]
  /\ lock = [s \in Stocks |-> None]
  /\ job = [p \in Requests |-> Idle]

-----------------------------------------------------------------------------
(* What the queries and the triggers compute from a view of the tables.    *)

Exists(v, b) == v[b] # Absent
Active(v, b) == v[b] # Absent /\ ~v[b].cancelled

\* The places taken on a stock: a duo booking takes two.  Their number is
\* SUM(booking.quantity) over the bookings that are not cancelled.
PlacesOf(v, B) == {x \in BookingIds \X (1..2) : x[1] \in B /\ x[2] <= v[x[1]].quantity}
Places(v, s) == PlacesOf(v, {b \in BookingIds : Active(v, b) /\ v[b].stock = s})
Booked(v, s) == Cardinality(Places(v, s))

ActiveOn(v, u, S) ==
  {b \in BookingIds : Active(v, b) /\ v[b].user = u /\ v[b].stock \in S}

Spent(v, u, S) ==
  MapThenSumSet(LAMBDA b : v[b].amount * v[b].quantity, ActiveOn(v, u, S))

\* check_stock and the first half of check_booking.
NoTrigger(v, s, quantity) == TRUE
FitsIn(v, s, quantity) == quantity = Unlimited \/ Booked(v, s) <= quantity

\* The second half of check_booking: get_wallet_balance is not negative.
Affordable(v, row) == row.amount = 0 \/ Spent(v, row.user, Stocks) <= Credit[row.user]

CodesNotActive(s) == {c \in CodesOf[s] : \A b \in BookingIds :
                        Active(booking, b) => booking[b].code # c}
FreeCodes(s) == {c \in CodesOf[s] : \A b \in BookingIds :
                   Exists(booking, b) => booking[b].code # c}

SameOffer(s) == {t \in Stocks : OfferOf[t] = OfferOf[s]}

-----------------------------------------------------------------------------
(* Requests and their locks.                                               *)

At(p, step) == job[p].step = step
Begin(p, new) == At(p, "idle") /\ job' = [job EXCEPT ![p] = new]
Become(p, new) == job' = [job EXCEPT ![p] = new]

NotForUpdate(p, s) == lock' = [lock EXCEPT ![s] = p]
Acquire(p, s) == lock[s] = None /\ lock' = [lock EXCEPT ![s] = p]

\* COMMIT or ROLLBACK: every lock of the request is gone.
Unlocked(p) == [s \in Stocks |-> IF lock[s] = p THEN None ELSE lock[s]]
Release(p) == lock' = Unlocked(p)

\* A request that has flushed an UPDATE of a booking holds that row.
RowHolders(b) == {q \in Requests : At(q, "uncancel:lock") /\ job[q].booking = b}
Writable(p, b) == RowHolders(b) \subseteq {p}

Reserved(b) == \E q \in Requests :
  job[q].booking = b /\ job[q].step \in {"book:check", "book:flush", "book:commit"}

\* The request ends and nothing it did not commit remains.
NoRollback(p) == Become(p, Idle) /\ UNCHANGED <<booking, stock, payment, lock>>
GiveUp(p) == Become(p, Idle) /\ Release(p) /\ UNCHANGED <<booking, stock, payment>>

-----------------------------------------------------------------------------
(* book_offer                                                              *)

NewBooking(u, s, q) ==
  [user |-> u, stock |-> s, quantity |-> q, amount |-> stock[s].price,
   cancelled |-> FALSE, used |-> FALSE, confirmed |-> FALSE, code |-> None]

BookLock(p, u, s, q) ==
  /\ "book" \in Endpoints
  /\ \E b \in BookingIds :
       /\ ~Exists(booking, b) /\ ~Reserved(b)
       /\ Begin(p, Doing("book:check", s, b, NewBooking(u, s, q)))
  /\ Acquire(p, s)
  /\ UNCHANGED <<booking, stock, payment>>

HasNoPlace(s) == stock[s].quantity # Unlimited /\ stock[s].quantity - stock[s].dn <= 0

DeletedForgotten(s) == stock[s].phase # "upcoming" \/ HasNoPlace(s)
IsSoldOut(s) ==
  \/ stock[s].deleted
  \/ stock[s].phase # "upcoming"
  \/ HasNoPlace(s)

IsBookable(s) == stock[s].offer = "open" /\ ~IsSoldOut(s)

WithinLimits(row) == LET amount == row.quantity * row.amount IN
  \A d \in Domains : row.stock \in DomainOf[d] =>
    amount = 0 \/ amount <= Cap[d] - Spent(booking, row.user, DomainOf[d])

\* The checks of book_offer, in their order.
MayBook(row) ==
  /\ ActiveOn(booking, row.user, SameOffer(row.stock)) = {}
  /\ row.quantity = 1 \/ row.stock \in Duo
  /\ IsBookable(row.stock)
  /\ WithinLimits(row)
  /\ CodesOf[row.stock] # {} => FreeCodes(row.stock) # {}

\* A booking that gets an activation code may be used at once.
Issued(row, c, confirmed) ==
  [row EXCEPT !.code = c, !.used = (c # None /\ AutoActivate), !.confirmed = confirmed]

BookCheck(p) ==
  /\ At(p, "book:check")
  /\ IF MayBook(job[p].row)
     THEN /\ \E c \in IF CodesOf[job[p].stock] = {} THEN {None} ELSE FreeCodes(job[p].stock),
                confirmed \in IF job[p].stock \in Events THEN BOOLEAN ELSE {FALSE} :
               Become(p, [job[p] EXCEPT !.step = "book:flush", !.row = Issued(@, c, confirmed)])
          /\ UNCHANGED <<booking, stock, payment, lock>>
     ELSE GiveUp(p)

\* repository.save flushes UPDATE stock and INSERT booking; each trigger sees
\* the committed rows and this transaction's own.
BookFlush(p) == LET j == job[p] IN
  /\ At(p, "book:flush")
  /\ LET v == [booking EXCEPT ![j.booking] = j.row] IN
     IF FitsIn(v, j.stock, stock[j.stock].quantity) /\ Affordable(v, j.row)
     THEN Become(p, [j EXCEPT !.step = "book:commit"]) /\ UNCHANGED <<booking, stock, payment, lock>>
     ELSE GiveUp(p)

BookCommit(p) == LET j == job[p] IN
  /\ At(p, "book:commit")
  /\ booking' = [booking EXCEPT ![j.booking] =
       [j.row EXCEPT !.confirmed = @ \/ stock[j.stock].phase # "upcoming"]]
  /\ stock' = [stock EXCEPT ![j.stock].dn = @ + j.row.quantity]
  /\ Release(p) /\ Become(p, Idle) /\ UNCHANGED payment

-----------------------------------------------------------------------------
(* _cancel_booking and its callers                                         *)

\* check_beneficiary_can_cancel_booking does not look at isCancelled.
BeneficiaryMayCancel(row) == ~row.used /\ ~row.confirmed
\* check_booking_can_be_cancelled: the offerer, fraud and suspension paths.
MayBeCancelled(row) == ~row.cancelled /\ ~row.used

CancelRequest(p, b) ==
  /\ "cancel" \in Endpoints
  /\ Exists(booking, b)
  /\ BeneficiaryMayCancel(booking[b]) \/ MayBeCancelled(booking[b])
  /\ Begin(p, Doing("cancel:lock", booking[b].stock, b, None))
  /\ UNCHANGED <<booking, stock, payment, lock>>

\* The lock, then db.session.refresh(booking).
NoRefresh(b) == FALSE
AlreadyCancelled(b) == booking[b].cancelled

CancelLock(p) == LET j == job[p] IN
  /\ At(p, "cancel:lock")
  /\ lock[j.stock] = None
  /\ IF AlreadyCancelled(j.booking)
     THEN GiveUp(p)
     ELSE /\ Acquire(p, j.stock)
          /\ Become(p, [j EXCEPT !.step = "cancel:write"])
          /\ UNCHANGED <<booking, stock, payment>>

CancelWrite(p) == LET j == job[p] IN
  /\ At(p, "cancel:write")
  /\ Writable(p, j.booking)
  /\ booking' = [booking EXCEPT ![j.booking].cancelled = TRUE]
  /\ stock' = [stock EXCEPT ![j.stock].dn = @ - booking[j.booking].quantity]
  /\ Release(p) /\ Become(p, Idle) /\ UNCHANGED payment

-----------------------------------------------------------------------------
(* delete_stock, cancel_bookings_from_rejected_offer and the               *)
(* _cancel_bookings_from_stock both call                                   *)

\* check_offer_existing_stocks_are_editable
Editable(s) == ~stock[s].deleted /\ stock[s].offer # "rejected"

Withdrawing(S) == [Doing("purge:lock", None, None, None) EXCEPT !.queue = S]

\* isSoftDeleted is committed before the bookings are looked at.
DeleteStock(p, s) ==
  /\ "delete" \in Endpoints
  /\ Editable(s) /\ stock[s].phase # "over"
  /\ lock[s] = None
  /\ stock' = [stock EXCEPT ![s].deleted = TRUE]
  /\ Begin(p, Withdrawing({s}))
  /\ UNCHANGED <<booking, payment, lock>>

OfferBecomes(s, state) == stock' = [t \in Stocks |->
  IF t \in SameOffer(s) THEN [stock[t] EXCEPT !.offer = state] ELSE stock[t]]

\* The back office commits REJECTED, then cancels stock after stock.
RejectOffer(p, s) ==
  /\ "reject" \in Endpoints
  /\ p \in Admins
  /\ stock[s].offer # "rejected"
  /\ OfferBecomes(s, "rejected")
  /\ Begin(p, Withdrawing(SameOffer(s)))
  /\ UNCHANGED <<booking, payment, lock>>

PurgeLock(p, s) ==
  /\ At(p, "purge:lock")
  /\ s \in job[p].queue
  /\ Acquire(p, s)
  /\ Become(p, [job[p] EXCEPT !.step = "purge:write", !.stock = s,
                  !.targets = {b \in BookingIds : /\ Active(booking, b)
                                                  /\ booking[b].stock = s
                                                  /\ ~booking[b].used}])
  /\ UNCHANGED <<booking, stock, payment>>

PurgeWrite(p) == LET j == job[p]
                     rest == j.queue \ {j.stock} IN
  /\ At(p, "purge:write")
  /\ \A b \in j.targets : Writable(p, b)
  /\ booking' = [b \in BookingIds |->
       IF b \in j.targets THEN [booking[b] EXCEPT !.cancelled = TRUE] ELSE booking[b]]
  /\ stock' = [stock EXCEPT ![j.stock].dn = @ - Cardinality(PlacesOf(booking, j.targets))]
  /\ Release(p)
  /\ Become(p, IF rest = {} THEN Idle
               ELSE Withdrawing(rest))
  /\ UNCHANGED payment

-----------------------------------------------------------------------------
(* mark_as_used, with and without uncancel                                 *)

\* payment_queries.has_payment
NeverPaid(b) == FALSE
HasPayment(b) == b \in paid

\* check_is_usable on the row the request has loaded; has_payment is a query.
Usable(row) == ~row.used /\ ~row.cancelled /\ (row.stock \in Events => row.confirmed)

UseLoad(p, b) ==
  /\ "use" \in Endpoints
  /\ Exists(booking, b) /\ Usable(booking[b]) /\ ~HasPayment(b)
  /\ Begin(p, Doing("use:write", None, b, booking[b]))
  /\ UNCHANGED <<booking, stock, payment, lock>>

\* Neither a lock nor a refresh nor has_payment again: the row is written from
\* the loaded copy.
UseWrite(p) == LET b == job[p].booking IN
  /\ At(p, "use:write")
  /\ Writable(p, b)
  /\ booking' = [booking EXCEPT ![b].used = TRUE]
  /\ Become(p, Idle) /\ UNCHANGED <<stock, payment, lock>>

UncancelLoad(p, b) ==
  /\ "uncancel" \in Endpoints
  /\ p \in Admins
  /\ Exists(booking, b) /\ booking[b].cancelled
  /\ Begin(p, Doing("uncancel:flush", booking[b].stock, b, booking[b]))
  /\ UNCHANGED <<booking, stock, payment, lock>>

Uncancelled(b) == [booking EXCEPT ![b].cancelled = FALSE]

\* The query of get_and_lock_stock autoflushes isCancelled = False first.
UncancelFlush(p) == LET b == job[p].booking
                        s == job[p].stock IN
  /\ At(p, "uncancel:flush")
  /\ Writable(p, b)
  /\ IF /\ FitsIn(Uncancelled(b), s, stock[s].quantity)
        /\ booking[b].cancelled => Affordable(Uncancelled(b), booking[b])
     THEN /\ Become(p, [job[p] EXCEPT !.step = "uncancel:lock"])
          /\ UNCHANGED <<booking, stock, payment, lock>>
     ELSE GiveUp(p)

\* With the lock: the counter, check_is_usable, the triggers and the commit.
UncancelCommit(p) == LET b == job[p].booking
                         s == job[p].stock IN
  /\ At(p, "uncancel:lock")
  /\ lock[s] = None
  /\ IF /\ ~HasPayment(b)
        /\ Usable([job[p].row EXCEPT !.cancelled = FALSE])
        /\ FitsIn(Uncancelled(b), s, stock[s].quantity)
     THEN /\ booking' = [booking EXCEPT ![b].cancelled = FALSE, ![b].used = TRUE]
          /\ stock' = [stock EXCEPT ![s].dn = @ + booking[b].quantity]
          /\ Become(p, Idle) /\ UNCHANGED <<payment, lock>>
     ELSE GiveUp(p)

-----------------------------------------------------------------------------
(* mark_as_unused                                                          *)

MayBeUnused(row) == row.used /\ ~row.cancelled /\ ~(row.code # None /\ AutoActivate)

UnuseLoad(p, b) ==
  /\ "unuse" \in Endpoints
  /\ Exists(booking, b) /\ MayBeUnused(booking[b]) /\ ~HasPayment(b)
  /\ Begin(p, Doing("unuse:write", None, b, booking[b]))
  /\ UNCHANGED <<booking, stock, payment, lock>>

UnuseWrite(p) == LET b == job[p].booking IN
  /\ At(p, "unuse:write")
  /\ Writable(p, b)
  /\ booking' = [booking EXCEPT ![b].used = FALSE]
  /\ Become(p, Idle) /\ UNCHANGED <<stock, payment, lock>>

-----------------------------------------------------------------------------
(* upsert_stocks on an existing stock                                      *)

\* check_stock_quantity, from the counter the request has loaded.
QuantityAllowed(s, q) == q # Unlimited => q >= stock[s].dn

\* SQLAlchemy writes only the columns whose value differs from the loaded one.
Changed(new, old) == IF new = old THEN None ELSE new
Written(change, old) == IF change = None THEN old ELSE change

EditLoad(p, s, q, price, move) ==
  /\ "edit" \in Endpoints
  /\ Editable(s) /\ stock[s].phase = "upcoming"
  /\ QuantityAllowed(s, q)
  /\ move # "same" => s \in Events /\ "move" \in Endpoints
  /\ Begin(p, [Doing("edit:write", s, None, None) EXCEPT !.edit =
       [quantity |-> Changed(q, stock[s].quantity),
        price |-> Changed(price, stock[s].price), move |-> move]])
  /\ UNCHANGED <<booking, stock, payment, lock>>

EditWrite(p) == LET s == job[p].stock
                    e == job[p].edit
                    q == Written(e.quantity, stock[s].quantity) IN
  /\ At(p, "edit:write")
  /\ lock[s] = None
  /\ IF FitsIn(booking, s, q)
     THEN /\ stock' = [stock EXCEPT ![s].quantity = q, ![s].price = Written(e.price, @),
                         ![s].phase = IF e.move = "same" THEN @ ELSE "upcoming"]
          /\ Become(p, IF e.move = "same" THEN Idle ELSE [job[p] EXCEPT !.step = "edit:redate"])
          /\ UNCHANGED <<booking, payment, lock>>
     ELSE GiveUp(p)

\* update_confirmation_dates: an event within 48 hours confirms at once.
EditRedate(p) == LET s == job[p].stock
                     near == job[p].edit.move = "near"
                     moved == {b \in BookingIds : Active(booking, b) /\ booking[b].stock = s} IN
  /\ At(p, "edit:redate")
  /\ \A b \in moved : Writable(p, b)
  /\ booking' = [b \in BookingIds |->
       IF b \in moved THEN [booking[b] EXCEPT !.confirmed = near] ELSE booking[b]]
  /\ Become(p, IF near \/ moved = {} THEN Idle
               ELSE [job[p] EXCEPT !.step = "edit:unuse", !.targets = moved])
  /\ UNCHANGED <<stock, payment, lock>>

\* The next of these bookings, if any.
Rest(p, b) == LET rest == job[p].targets \ {b} IN
  IF rest = {} THEN Idle
  ELSE [job[p] EXCEPT !.step = "edit:unuse", !.booking = None, !.targets = rest]

\* _invalidate_bookings: the first booking that mark_as_unused refuses ends
\* the request, with the bookings after it left as they are.
EditUnuse(p, b) ==
  /\ At(p, "edit:unuse")
  /\ b \in job[p].targets
  /\ IF booking[b].used /\ (~MayBeUnused(booking[b]) \/ HasPayment(b))
     THEN GiveUp(p)
     ELSE /\ Become(p, IF booking[b].used THEN [job[p] EXCEPT !.step = "edit:commit", !.booking = b]
                       ELSE Rest(p, b))
          /\ UNCHANGED <<booking, stock, payment, lock>>

EditCommit(p) == LET b == job[p].booking IN
  /\ At(p, "edit:commit")
  /\ Writable(p, b)
  /\ booking' = [booking EXCEPT ![b].used = FALSE]
  /\ Become(p, Rest(p, b)) /\ UNCHANGED <<stock, payment, lock>>

-----------------------------------------------------------------------------
(* What happens around the requests.                                       *)

Waiting(p) == \/ job[p].step \in {"cancel:lock", "uncancel:lock", "edit:write"}
                   /\ lock[job[p].stock] # None
              \/ At(p, "purge:lock") /\ \A s \in job[p].queue : lock[s] # None

\* PostgreSQL breaks the cycle of a request that holds a booking row and waits
\* for the stock, and one that holds the stock and waits for that row.
Deadlock(p, q) ==
  /\ At(p, "uncancel:lock") /\ lock[job[p].stock] = q
  /\ \/ At(q, "cancel:write") /\ job[q].booking = job[p].booking
     \/ At(q, "purge:write") /\ job[p].booking \in job[q].targets
  /\ GiveUp(p) \/ GiveUp(q)

\* DATABASE_LOCK_TIMEOUT: the statement that waits for a stock fails.
LockTimeout(p) == LockTimeouts /\ Waiting(p) /\ GiveUp(p)

\* The worker is killed: PostgreSQL rolls its transaction back.
Crash(p) == p \in Crashing /\ ~At(p, "idle") /\ GiveUp(p)

\* generate_new_payments queries the bookings to pay of a venue, used before a
\* cutoff date the operator chooses, and commits their payments later on, with
\* no lock on the bookings and no second look at them.
Payable(b) ==
  /\ Active(booking, b) /\ booking[b].used /\ payment[b] = "none"
  /\ booking[b].stock \in Events => stock[booking[b].stock].phase # "upcoming"
NoneFound == \A b \in BookingIds : payment[b] # "found"

FindPayable(B) ==
  /\ "pay" \in Endpoints
  /\ NoneFound
  /\ B # {} /\ \A b \in B : Payable(b)
  /\ payment' = [b \in BookingIds |-> IF b \in B THEN "found" ELSE payment[b]]
  /\ UNCHANGED <<booking, stock, lock, job>>

\* The batch commits the payments it has built ("paid"), or is killed ("none").
FoundBecome(state) ==
  /\ ~NoneFound
  /\ payment' = [b \in BookingIds |-> IF payment[b] = "found" THEN state ELSE payment[b]]
  /\ UNCHANGED <<booking, stock, lock, job>>
PaymentsCreated == FoundBecome("paid")
PaymentsLost == FoundBecome("none")

Paying == (\E B \in SUBSET BookingIds : FindPayable(B)) \/ PaymentsCreated \/ PaymentsLost

\* bookingLimitDatetime passes, or the offer is deactivated and activated; the
\* back office approves a rejected offer.
OfferChanges(s) ==
  /\ "release" \in Endpoints
  /\ \/ stock[s].offer = "open" /\ stock' = [stock EXCEPT ![s].offer = "closed"]
     \/ stock[s].offer = "closed" /\ stock' = [stock EXCEPT ![s].offer = "open"]
     \/ stock[s].offer = "rejected" /\ OfferBecomes(s, "open")
  /\ UNCHANGED <<booking, payment, lock, job>>

ConfirmationDatePasses(b) ==
  /\ "time" \in Endpoints
  /\ Exists(booking, b) /\ booking[b].stock \in Events /\ ~booking[b].confirmed
  /\ booking' = [booking EXCEPT ![b].confirmed = TRUE]
  /\ UNCHANGED <<stock, payment, lock, job>>

\* By the time an event begins, the confirmation date of all its bookings
\* has passed; 48 hours later its stock can no longer be deleted.
EventProgresses(s) ==
  /\ "time" \in Endpoints
  /\ s \in Events
  /\ \/ /\ stock[s].phase = "upcoming"
        /\ \A b \in BookingIds : Active(booking, b) /\ booking[b].stock = s => booking[b].confirmed
        /\ stock' = [stock EXCEPT ![s].phase = "begun"]
     \/ stock[s].phase = "begun" /\ stock' = [stock EXCEPT ![s].phase = "over"]
  /\ UNCHANGED <<booking, payment, lock, job>>

-----------------------------------------------------------------------------
Arrival(p) ==
  \/ \E u \in Users, s \in Stocks, q \in 1..2 : BookLock(p, u, s, q)
  \/ \E b \in BookingIds : CancelRequest(p, b) \/ UseLoad(p, b) \/ UncancelLoad(p, b) \/ UnuseLoad(p, b)
  \/ \E s \in Stocks : DeleteStock(p, s) \/ RejectOffer(p, s)
  \/ \E s \in Stocks, q \in Quantities \union {Unlimited}, price \in Prices,
        move \in {"same", "near", "far"} : EditLoad(p, s, q, price, move)

\* The steps that wait for nothing.
Proceed(p) ==
  \/ BookCheck(p) \/ BookFlush(p) \/ BookCommit(p)
  \/ EditRedate(p) \/ (\E b \in BookingIds : EditUnuse(p, b)) \/ EditCommit(p)
  \/ CancelWrite(p) \/ PurgeWrite(p)
  \/ UseWrite(p) \/ UncancelFlush(p) \/ UnuseWrite(p)

\* The steps that need the lock of a stock.
TakeLock(p) ==
  \/ CancelLock(p) \/ \E s \in Stocks : PurgeLock(p, s)
  \/ UncancelCommit(p) \/ EditWrite(p)

Around ==
  \/ Paying
  \/ \E b \in BookingIds : ConfirmationDatePasses(b)
  \/ \E s \in Stocks : OfferChanges(s) \/ EventProgresses(s)

Next ==
  \/ \E p \in Requests : Arrival(p) \/ Proceed(p) \/ TakeLock(p) \/ LockTimeout(p) \/ Crash(p)
  \/ \E p, q \in Requests : Deadlock(p, q)
  \/ Around

Spec == Init /\ [][Next]_vars

\* The locks of PostgreSQL are granted in the order they are asked for, and its
\* deadlock detector runs: a request that may take its next step takes it.
Fairness ==
  /\ \A p \in Requests : SF_vars(Proceed(p) \/ TakeLock(p))
  /\ \A p, q \in Requests : WF_vars(Deadlock(p, q))

FairSpec == Spec /\ Fairness

-----------------------------------------------------------------------------
TypeOK ==
  /\ booking \in [BookingIds -> Row \union {Absent}]
  /\ stock \in [Stocks -> StockRow]
  /\ payment \in [BookingIds -> {"none", "found", "paid"}]
  /\ lock \in [Stocks -> Requests \union {None}]
  /\ job \in [Requests -> Job]

\* What a request may rely on at each of its steps, whatever the others do.
BookSteps == {"book:check", "book:flush", "book:commit"}
RowSteps == {"cancel:lock", "cancel:write", "uncancel:flush", "uncancel:lock"}
LockSteps == BookSteps \union {"cancel:write", "purge:write"}

JobHolds(p) == LET j == job[p] IN
  /\ j.step \in LockSteps => j.stock \in Stocks /\ lock[j.stock] = p
  /\ j.step \in BookSteps =>
       /\ j.booking \in BookingIds /\ ~Exists(booking, j.booking)
       /\ j.row \in Row /\ j.row.stock = j.stock /\ ~j.row.cancelled
       /\ \A q \in Requests \ {p} : job[q].step \in BookSteps => job[q].booking # j.booking
  /\ j.step \in RowSteps =>
       /\ j.booking \in BookingIds /\ Exists(booking, j.booking)
       /\ j.stock = booking[j.booking].stock
  /\ j.step \in {"uncancel:flush", "uncancel:lock"} =>
       /\ p \in Admins /\ j.row \in Row
       /\ Admins = {p} => ~Active(booking, j.booking)
  /\ j.step \in {"use:write", "unuse:write", "edit:commit"} =>
       j.booking \in BookingIds /\ Exists(booking, j.booking)
  /\ j.step \in {"edit:write", "edit:redate", "edit:unuse", "edit:commit"} =>
       j.stock \in Stocks /\ j.edit \in Edit
  /\ \A b \in j.targets : Exists(booking, b)
  /\ j.step = "purge:write" => \A b \in j.targets : booking[b].stock = j.stock

\* What a request is about to cancel, with the lock of the stock, nobody else
\* cancels (as long as nothing but requests does).
CancelsActive(p) == LET j == job[p] IN
  /\ j.step = "cancel:write" => ~booking[j.booking].cancelled
  /\ j.step = "purge:write" => \A b \in j.targets : Active(booking, b)

JobOK(p) == JobHolds(p) /\ CancelsActive(p)

JobsHold == \A p \in Requests : JobHolds(p)
JobsOK == \A p \in Requests : JobOK(p)

\* A stock is never overbooked: the lock alone does not ensure it, since the
\* quantity is edited and a booking uncancelled before it is taken, and
\* isBookable lets a duo booking through when one place is left.
NoOverbooking == \A s \in Stocks :
  stock[s].quantity # Unlimited => Booked(booking, s) <= stock[s].quantity

\* The places of a booking that is about to be committed are still free.
RoomHeld == \A p \in Requests : At(p, "book:commit") =>
  LET s == job[p].stock IN
    stock[s].quantity # Unlimited =>
      Booked(booking, s) + job[p].row.quantity <= stock[s].quantity

\* Stock.dnBookedQuantity is the number of places of the bookings that are not
\* cancelled, which is what the nightly check_stock_consistency looks for.
CountersExact == \A s \in Stocks : stock[s].dn = Booked(booking, s)

\* A new booking appears only where its user has no other on that stock, and
\* on a stock that is not deleted: what was checked under the lock still holds
\* at the commit.
NewBookingsAreLegal ==
  [][\A b \in BookingIds : ~Exists(booking, b) /\ Exists(booking', b) =>
       LET row == booking'[b] IN
       /\ ActiveOn(booking, row.user, {row.stock}) = {}
       /\ ~stock[row.stock].deleted]_vars

\* An activation code is given to one booking only, though two requests may
\* look for a free code of the same stock at the same time.
CodesGivenOnce == \A a, b \in BookingIds :
  a # b /\ Exists(booking, a) /\ Exists(booking, b) /\ booking[a].code # None =>
    booking[a].code # booking[b].code

\* A request has passed its checks on the booking and is about to write it.
InHand(b) == \E p \in Requests :
  job[p].booking = b \/ (At(p, "purge:write") /\ b \in job[p].targets)
Settled(b) == b \in paid /\ Active(booking, b) /\ booking[b].used /\ ~InHand(b)

\* Once a booking has a payment, is used, and no request that was checked
\* before is about to write it, it stays so for ever: no cancellation, purge or
\* postponement can so much as begin on it.
PaidIsFinal == [][\A b \in BookingIds : Settled(b) => Settled(b)']_vars

\* What the test test_raise_if_has_payment expects, "booking.isUsed  #
\* unchanged", of requests checked before the payment too: a booking that has
\* a payment stays used.
PaidStaysUsed == [][\A b \in paid : booking[b].used => booking'[b].used]_vars

\* get_wallet_balance is never negative.
WalletNotNegative == \A u \in Users : Spent(booking, u, Stocks) <= Credit[u]

\* A deleted stock, or one of a rejected offer, keeps no booking that is still
\* to be used once no request is left to cancel them.
WithdrawnStocksEmpty == \A s \in Stocks :
  /\ stock[s].deleted \/ stock[s].offer = "rejected"
  /\ \A p \in Requests : s \notin job[p].queue
  => \A b \in BookingIds : Active(booking, b) /\ booking[b].stock = s => booking[b].used

\* A booking that was used is not cancelled: the offerer is told "Impossible
\* d'annuler une reservation consommee".
UsedIsNotCancelled == \A b \in BookingIds :
  Exists(booking, b) /\ booking[b].used => ~booking[b].cancelled

\* check_offer_already_booked: one booking of an offer for each user.
OneBookingPerOffer == \A u \in Users, s \in Stocks :
  Cardinality(ActiveOn(booking, u, SameOffer(s))) <= 1

\* Every request ends, though requests wait for each other's stocks and rows.
RequestsEnd == \A p \in Requests : ~At(p, "idle") ~> At(p, "idle")

-----------------------------------------------------------------------------
\* Requests race and hold what they have read, and yet the tables change as if
\* each of them were one step of a box office that sells and takes back places.
Office == INSTANCE BoxOffice WITH
  Tickets <- BookingIds,
  capacity <- [s \in Stocks |-> stock[s].quantity],
  sold <- [s \in Stocks |-> Places(booking, s)],
  counter <- [s \in Stocks |-> stock[s].dn],
  issued <- {b \in BookingIds : Exists(booking, b)},
  deleted <- {s \in Stocks : stock[s].deleted}

ImplementsBoxOffice == Office!Spec
=============================================================================
