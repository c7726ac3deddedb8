--------------------------- MODULE BookingsProofs ---------------------------
(* What TLAPS proves of Bookings, for any sets of users, stocks, requests   *)
(* and booking rows: the invariant of its requests, that no stock is ever   *)
(* overbooked, and that the counter of a stock is right.                    *)
EXTENDS Bookings, FiniteSetTheorems, TLAPS

\* A request q that another step leaves alone: its job and its locks are as
\* they were, rows are only added by the commit of a booking request, and no
\* booking of a stock that q has locked is cancelled.
Undisturbed(q) ==
  /\ job'[q] = job[q]
  /\ \A s \in Stocks : lock[s] = q => lock'[s] = q
  /\ \A b \in BookingIds :
       /\ Exists(booking, b) => Exists(booking', b) /\ booking'[b].stock = booking[b].stock
       /\ ~Exists(booking, b) /\ Exists(booking', b) =>
            \E p \in Requests \ {q} : job[p].step \in BookSteps /\ job[p].booking = b
       /\ Active(booking, b) /\ lock[booking[b].stock] = q => Active(booking', b)
       /\ Exists(booking, b) /\ ~Active(booking, b) /\ Admins = {q} => ~Active(booking', b)
  /\ \A p \in Requests \ {q} : job'[p].step \in BookSteps =>
       \/ job[p].step \in BookSteps /\ job'[p].booking = job[p].booking
       \/ ~Reserved(job'[p].booking)

\* What a step of the requests leaves true: JobHolds of every request, which is
\* an invariant by itself, and CancelsActive of those that had it.
JobsKept == \A q \in Requests : JobHolds(q)' /\ (CancelsActive(q) => CancelsActive(q)')

LEMMA UndisturbedJobOK ==
  ASSUME TypeOK, JobsHold, NEW q \in Requests, Undisturbed(q)
  PROVE  JobHolds(q)' /\ (CancelsActive(q) => CancelsActive(q)')
  <1>. USE DEF JobsHold, Undisturbed
  <1>1. JobHolds(q) /\ job[q] \in Job
    BY DEF TypeOK
  <1>2. JobHolds(q)'
    BY <1>1 DEF JobHolds, TypeOK, Job, LockSteps, BookSteps, RowSteps, Exists, Active, Reserved
  <1>3. ASSUME CancelsActive(q) PROVE CancelsActive(q)'
    BY <1>1, <1>3 DEF JobHolds, CancelsActive, TypeOK, Job, LockSteps, RowSteps, Exists, Active
  <1>. QED
    BY <1>2, <1>3

LEMMA InitOK == Init => TypeOK /\ JobsOK
  <1>. SUFFICES ASSUME Init PROVE TypeOK /\ JobsOK
    OBVIOUS
  <1>1. Idle \in Job /\ Idle.step = "idle"
    BY DEF Idle, Doing, Job, Steps
  <1>a. stock \in [Stocks -> StockRow]
    <2>. DEFINE New == [quantity: Quantities \union {Unlimited}, dn: {0}, price: Prices,
                        deleted: {FALSE}, offer: {"open"}, phase: {"upcoming"}]
    <2>1. ASSUME NEW r \in New PROVE r \in StockRow
      <3>1. r = [quantity |-> r.quantity, dn |-> r.dn, price |-> r.price,
                 deleted |-> r.deleted, offer |-> r.offer, phase |-> r.phase]
        OBVIOUS
      <3>2. r.quantity \in Quantities \union {Unlimited} /\ r.dn \in Int /\ r.price \in Prices
        OBVIOUS
      <3>3. r.deleted \in BOOLEAN
        OBVIOUS
      <3>4. r.offer \in {"open", "closed", "rejected"} /\ r.phase \in {"upcoming", "begun", "over"}
        OBVIOUS
      <3>. QED
        BY <3>1, <3>2, <3>3, <3>4 DEF StockRow
    <2>. QED
      BY <2>1 DEF Init
  <1>2. TypeOK
    BY <1>1, <1>a DEF Init, TypeOK
  <1>3. JobsOK
    BY DEF Init, JobsOK, JobOK, JobHolds, CancelsActive, Idle, Doing, LockSteps, BookSteps, RowSteps
  <1>. QED
    BY <1>2, <1>3

\* A step of p leaves that true when p goes on with a correct job and no other
\* request is disturbed.
LEMMA StepOfOne ==
  ASSUME TypeOK, JobsHold, NEW p \in Requests, JobOK(p)',
         \A q \in Requests \ {p} : Undisturbed(q)
  PROVE  JobsKept
  <1>1. ASSUME NEW q \in Requests PROVE JobHolds(q)' /\ (CancelsActive(q) => CancelsActive(q)')
    <2>1. CASE q = p
      BY <2>1 DEF JobOK
    <2>2. CASE q # p
      BY <2>2, UndisturbedJobOK
    <2>. QED
      BY <2>1, <2>2
  <1>. QED
    BY <1>1 DEF JobsKept

\* An idle request relies on nothing.
LEMMA IdleOK ==
  /\ Idle \in Job /\ Idle.step = "idle"
  /\ \A p \in Requests : job'[p] = Idle => JobOK(p)'
  <1>1. Idle \in Job /\ Idle.step = "idle"
    BY DEF Idle, Doing, Job, Steps
  <1>2. ASSUME NEW p \in Requests, job'[p] = Idle PROVE JobOK(p)'
    <2>1. Idle.step = "idle" /\ Idle.targets = {}
      BY DEF Idle, Doing
    <2>2. job'[p].step = "idle" /\ job'[p].targets = {}
      BY <1>2, <2>1
    <2>. QED
      BY <2>2 DEF JobOK, JobHolds, CancelsActive, LockSteps, BookSteps, RowSteps
  <1>. QED
    BY <1>1, <1>2

LEMMA GiveUpOK ==
  ASSUME TypeOK, JobsHold, NEW p \in Requests, GiveUp(p)
  PROVE  TypeOK' /\ JobsKept
  <1>. USE DEF GiveUp, Become, Release, Unlocked
  <1>1. Idle \in Job
    BY IdleOK
  <1>2. TypeOK'
    BY <1>1 DEF TypeOK
  <1>3. JobOK(p)'
    BY IdleOK DEF TypeOK
  <1>4. ASSUME NEW q \in Requests \ {p} PROVE Undisturbed(q)
    BY DEF Undisturbed, TypeOK, Idle, Doing, BookSteps
  <1>. QED
    BY <1>2, <1>3, <1>4, StepOfOne

\* A step that changes no row, and of the locks only those of p.
LEMMA OnlyJob ==
  ASSUME TypeOK, JobsHold, NEW p \in Requests, NEW new \in Job,
         job' = [job EXCEPT ![p] = new], UNCHANGED <<booking, stock, payment>>,
         UNCHANGED lock \/ \E s \in Stocks : Acquire(p, s),
         new.step \in BookSteps => job[p].step \in BookSteps /\ new.booking = job[p].booking,
         JobOK(p)'
  PROVE  TypeOK' /\ JobsKept
  <1>1. TypeOK'
    BY DEF TypeOK, Acquire
  <1>2. job'[p] = new /\ \A q \in Requests \ {p} : job'[q] = job[q]
    BY DEF TypeOK
  <1>3. ASSUME NEW q \in Requests \ {p} PROVE Undisturbed(q)
    BY <1>2, BookingsAssumption DEF Undisturbed, TypeOK, Acquire, BookSteps, Exists, Active
  <1>. QED
    BY <1>1, <1>3, StepOfOne

\* A step that adds no row and cancels only on a stock that p has locked.
LEMMA RowsWritten ==
  ASSUME TypeOK, JobsHold, NEW p \in Requests, NEW new \in Job, new.step \notin BookSteps,
         job' = [job EXCEPT ![p] = new],
         booking' \in [BookingIds -> Row \union {Absent}],
         \A b \in BookingIds :
           /\ Exists(booking', b) <=> Exists(booking, b)
           /\ Exists(booking, b) => booking'[b].stock = booking[b].stock
           /\ Active(booking, b) => Active(booking', b) \/ lock[booking[b].stock] = p
           /\ Exists(booking, b) /\ ~Active(booking, b) => ~Active(booking', b) \/ p \in Admins,
         stock' \in [Stocks -> StockRow], UNCHANGED payment,
         UNCHANGED lock \/ Release(p),
         JobOK(p)'
  PROVE  TypeOK' /\ JobsKept
  <1>1. TypeOK'
    BY DEF TypeOK, Release, Unlocked
  <1>2. job'[p] = new /\ \A q \in Requests \ {p} : job'[q] = job[q]
    BY DEF TypeOK
  <1>3. ASSUME NEW q \in Requests \ {p} PROVE Undisturbed(q)
    <2>1. \A s \in Stocks : lock[s] = q => lock'[s] = q
      BY DEF TypeOK, Release, Unlocked
    <2>2. \A r \in Requests \ {q} : job'[r].step \in BookSteps =>
            job[r].step \in BookSteps /\ job'[r].booking = job[r].booking
      BY <1>2
    <2>. QED
      BY <1>2, <2>1, <2>2 DEF Undisturbed
  <1>. QED
    BY <1>1, <1>3, StepOfOne

LEMMA CounterMoves ==
  ASSUME TypeOK, NEW s \in Stocks, NEW n \in Int
  PROVE  /\ [stock EXCEPT ![s].dn = @ + n] \in [Stocks -> StockRow]
         /\ [stock EXCEPT ![s].dn = @ - n] \in [Stocks -> StockRow]
  <1>1. stock[s] \in StockRow /\ stock[s].dn \in Int
    BY DEF TypeOK, StockRow
  <1>2. ASSUME NEW m \in Int PROVE [stock[s] EXCEPT !.dn = m] \in StockRow
    BY <1>1 DEF StockRow
  <1>3. /\ [stock[s] EXCEPT !.dn = stock[s].dn + n] \in StockRow
        /\ [stock[s] EXCEPT !.dn = stock[s].dn - n] \in StockRow
    BY <1>1, <1>2
  <1>. QED
    BY <1>3 DEF TypeOK

LEMMA PlacesFinite ==
  ASSUME NEW v, NEW B
  PROVE  IsFiniteSet(PlacesOf(v, B)) /\ Cardinality(PlacesOf(v, B)) \in Nat
  <1>1. IsFiniteSet(BookingIds) /\ IsFiniteSet(1..2)
    <2>1. IsFiniteSet(BookingIds)
      BY Zenon, BookingsAssumption
    <2>2. 1 \in Int /\ 2 \in Int
      OBVIOUS
    <2>3. IsFiniteSet(1..2)
      BY <2>2, FS_Interval, Zenon
    <2>. QED
      BY <2>1, <2>3
  <1>2. IsFiniteSet(BookingIds \X (1..2))
    BY <1>1, FS_Product
  <1>3. IsFiniteSet(PlacesOf(v, B))
    BY <1>2, FS_Subset DEF PlacesOf
  <1>. QED
    BY <1>3, FS_CardinalityType

\* A request that begins on a booking with its loaded row.
LEMMA BeginsOnRow ==
  ASSUME TypeOK, JobsHold, NEW p \in Requests, NEW b \in BookingIds, Exists(booking, b),
         NEW step \in {"use:write", "unuse:write", "uncancel:flush", "cancel:lock"},
         NEW s, step \in RowSteps => s = booking[b].stock, s \in Stocks \union {None},
         NEW row \in Row \union {None},
         step = "uncancel:flush" => p \in Admins /\ row \in Row /\ ~Active(booking, b),
         Begin(p, Doing(step, s, b, row)), UNCHANGED <<booking, stock, payment, lock>>
  PROVE  TypeOK' /\ JobsKept
  <1>. DEFINE new == Doing(step, s, b, row)
  <1>1. /\ new \in Job /\ new.step = step /\ new.stock = s /\ new.row = row
        /\ new.booking = b /\ new.targets = {}
    BY DEF Doing, Job, Steps
  <1>2. job' = [job EXCEPT ![p] = new]
    BY DEF Begin
  <1>. HIDE DEF new
  <1>3. job'[p] = new
    BY <1>2 DEF TypeOK
  <1>4. JobOK(p)'
    BY <1>1, <1>3 DEF JobOK, JobHolds, CancelsActive, LockSteps, BookSteps, RowSteps, Exists, Active
  <1>. QED
    BY <1>1, <1>2, <1>4, OnlyJob DEF BookSteps

\* A request that changes one row of its own and leaves its stock.
LEMMA RowChanged ==
  ASSUME TypeOK, JobsHold, NEW p \in Requests, NEW b \in BookingIds, Exists(booking, b),
         NEW row \in Row, row.stock = booking[b].stock,
         row.cancelled => booking[b].cancelled,
         ~row.cancelled => ~booking[b].cancelled \/ p \in Admins,
         booking' = [booking EXCEPT ![b] = row],
         NEW new \in Job, new.step \notin BookSteps, job' = [job EXCEPT ![p] = new],
         stock' \in [Stocks -> StockRow], UNCHANGED <<payment, lock>>, JobOK(p)'
  PROVE  TypeOK' /\ JobsKept
  <1>1. booking' \in [BookingIds -> Row \union {Absent}]
    BY DEF TypeOK
  <1>2. \A c \in BookingIds :
          /\ Exists(booking', c) <=> Exists(booking, c)
          /\ Exists(booking, c) => booking'[c].stock = booking[c].stock
          /\ Active(booking, c) => Active(booking', c)
          /\ Exists(booking, c) /\ ~Active(booking, c) => ~Active(booking', c) \/ p \in Admins
    BY BookingsAssumption DEF Exists, Active, TypeOK
  <1>. QED
    BY <1>1, <1>2, RowsWritten

LEMMA BookLockOK ==
  ASSUME TypeOK, JobsHold, NEW p \in Requests,
         NEW u \in Users, NEW s \in Stocks, NEW q \in 1..2, BookLock(p, u, s, q)
  PROVE  TypeOK' /\ JobsKept
  <1>. DEFINE row == NewBooking(u, s, q)
  <1>1. row \in Row /\ row.stock = s /\ row.cancelled = FALSE
    BY DEF NewBooking, Row, TypeOK, StockRow
  <1>2. PICK b \in BookingIds : /\ ~Exists(booking, b) /\ ~Reserved(b)
                                /\ Begin(p, Doing("book:check", s, b, row))
    BY DEF BookLock
  <1>. DEFINE new == Doing("book:check", s, b, row)
  <1>. HIDE DEF row
  <1>3. new \in Job
    BY <1>1 DEF Job, Steps, Doing
  <1>4. job[p].step = "idle" /\ job' = [job EXCEPT ![p] = new]
    BY <1>2 DEF Begin, At
  <1>5. /\ lock[s] = None /\ lock' = [lock EXCEPT ![s] = p]
        /\ UNCHANGED <<booking, stock, payment>>
    BY DEF BookLock, Acquire
  <1>6. TypeOK'
    BY <1>3, <1>4, <1>5 DEF TypeOK
  <1>7. job'[p] = new
    BY <1>4 DEF TypeOK
  <1>8. \A r \in Requests \ {p} : job'[r] = job[r]
    BY <1>4 DEF TypeOK
  <1>9. JobOK(p)'
    <2>2. /\ job'[p].step = "book:check" /\ job'[p].stock = s /\ job'[p].booking = b
          /\ job'[p].row = row /\ job'[p].targets = {}
      BY <1>7 DEF Doing
    <2>3. lock'[s] = p /\ ~Exists(booking', b)
      BY <1>2, <1>5 DEF TypeOK, Exists
    <2>4. \A r \in Requests \ {p} : job'[r].step \in BookSteps => job'[r].booking # b
      BY <1>2, <1>8 DEF Reserved, BookSteps
    <2>. QED
      BY <1>1, <2>2, <2>3, <2>4 DEF JobOK, JobHolds, CancelsActive, LockSteps, BookSteps, RowSteps
  <1>10. ASSUME NEW r \in Requests \ {p} PROVE Undisturbed(r)
    BY <1>2, <1>5, <1>7, <1>8, BookingsAssumption DEF Doing, Undisturbed, TypeOK, BookSteps, Exists, Active
  <1>. QED
    BY <1>6, <1>9, <1>10, StepOfOne

LEMMA BookCheckOK ==
  ASSUME TypeOK, JobsHold, NEW p \in Requests, BookCheck(p)
  PROVE  TypeOK' /\ JobsKept
  <1>. DEFINE j == job[p]
  <1>1. j \in Job /\ JobHolds(p) /\ j.step = "book:check"
    BY DEF TypeOK, JobsHold, BookCheck, At
  <1>2. CASE ~MayBook(j.row)
    BY <1>2, GiveUpOK DEF BookCheck
  <1>3. CASE MayBook(j.row)
    <2>1. PICK c \in (IF CodesOf[j.stock] = {} THEN {None} ELSE FreeCodes(j.stock)),
               confirmed \in (IF j.stock \in Events THEN BOOLEAN ELSE {FALSE}) :
            Become(p, [j EXCEPT !.step = "book:flush", !.row = Issued(@, c, confirmed)])
      BY <1>3 DEF BookCheck
    <2>. DEFINE row == Issued(j.row, c, confirmed)
                new == [j EXCEPT !.step = "book:flush", !.row = row]
    <2>2. j.row \in Row /\ j.stock \in Stocks
      BY <1>1 DEF JobHolds, LockSteps, BookSteps
    <2>3. c \in Codes \union {None} /\ confirmed \in BOOLEAN
      BY <2>2, BookingsAssumption DEF FreeCodes, Codes
    <2>4. row \in Row /\ row.stock = j.row.stock /\ row.cancelled = j.row.cancelled
      BY <2>2, <2>3 DEF Issued, Row
    <2>. HIDE DEF row
    <2>5. /\ new \in Job /\ new.step = "book:flush" /\ new.row = row
          /\ new.stock = j.stock /\ new.booking = j.booking /\ new.targets = j.targets
      BY <1>1, <2>4 DEF Job, Steps
    <2>6. job' = [job EXCEPT ![p] = new]
      BY <2>1 DEF Become, row
    <2>. HIDE DEF new
    <2>7. job'[p] = new /\ \A q \in Requests \ {p} : job'[q] = job[q]
      BY <2>6 DEF TypeOK
    <2>8. UNCHANGED <<booking, stock, payment, lock>>
      BY <1>3 DEF BookCheck
    <2>9. JobOK(p)'
      BY <1>1, <2>4, <2>5, <2>7, <2>8 DEF JobOK, JobHolds, CancelsActive, LockSteps, BookSteps, RowSteps, Exists
    <2>. QED
      BY <1>1, <2>5, <2>6, <2>8, <2>9, OnlyJob DEF BookSteps
  <1>. QED
    BY <1>2, <1>3

LEMMA BookFlushOK ==
  ASSUME TypeOK, JobsHold, NEW p \in Requests, BookFlush(p)
  PROVE  TypeOK' /\ JobsKept
  <1>. DEFINE j == job[p]
              new == [j EXCEPT !.step = "book:commit"]
  <1>1. j \in Job /\ JobHolds(p) /\ j.step = "book:flush"
    BY DEF TypeOK, JobsHold, BookFlush, At
  <1>2. CASE GiveUp(p)
    BY <1>2, GiveUpOK
  <1>3. CASE Become(p, new) /\ UNCHANGED <<booking, stock, payment, lock>>
    <2>1. /\ new \in Job /\ new.step = "book:commit" /\ new.row = j.row
          /\ new.stock = j.stock /\ new.booking = j.booking /\ new.targets = j.targets
      BY <1>1 DEF Job, Steps
    <2>2. job' = [job EXCEPT ![p] = new]
      BY <1>3 DEF Become
    <2>. HIDE DEF new
    <2>3. job'[p] = new /\ \A q \in Requests \ {p} : job'[q] = job[q]
      BY <2>2 DEF TypeOK
    <2>4. JobOK(p)'
      BY <1>1, <1>3, <2>1, <2>3 DEF JobOK, JobHolds, CancelsActive, LockSteps, BookSteps, RowSteps, Exists
    <2>. QED
      BY <1>1, <1>3, <2>1, <2>2, <2>4, OnlyJob DEF BookSteps
  <1>. QED
    BY <1>2, <1>3 DEF BookFlush

LEMMA BookCommitOK ==
  ASSUME TypeOK, JobsHold, NEW p \in Requests, BookCommit(p)
  PROVE  TypeOK' /\ JobsKept
  <1>. DEFINE j == job[p]
              row == [j.row EXCEPT !.confirmed = @ \/ stock[j.stock].phase # "upcoming"]
  <1>1. j \in Job /\ JobHolds(p) /\ j.step = "book:commit"
    BY DEF TypeOK, JobsHold, BookCommit, At
  <1>2. /\ j.row \in Row /\ j.stock \in Stocks /\ j.booking \in BookingIds
        /\ ~Exists(booking, j.booking)
    BY <1>1 DEF JobHolds, LockSteps, BookSteps
  <1>3. row \in Row
    BY <1>2 DEF Row
  <1>. HIDE DEF row
  <1>4. /\ booking' = [booking EXCEPT ![j.booking] = row]
        /\ stock' = [stock EXCEPT ![j.stock].dn = @ + j.row.quantity]
        /\ lock' = Unlocked(p) /\ job' = [job EXCEPT ![p] = Idle] /\ UNCHANGED payment
    BY DEF BookCommit, Release, Become, row
  <1>5. Idle \in Job
    BY IdleOK
  <1>6. stock' \in [Stocks -> StockRow]
    BY <1>2, <1>4 DEF TypeOK, StockRow, Row
  <1>7. TypeOK'
    BY <1>2, <1>3, <1>4, <1>5, <1>6 DEF TypeOK, Unlocked
  <1>8. job'[p] = Idle /\ \A q \in Requests \ {p} : job'[q] = job[q]
    BY <1>4 DEF TypeOK
  <1>9. JobOK(p)'
    BY <1>8, IdleOK
  <1>10. ASSUME NEW q \in Requests \ {p} PROVE Undisturbed(q)
    <2>1. job'[p].step \notin BookSteps
      BY <1>8, IdleOK DEF BookSteps
    <2>2. \A b \in BookingIds : b # j.booking => booking'[b] = booking[b]
      BY <1>2, <1>4 DEF TypeOK
    <2>3. \A s \in Stocks : lock[s] = q => lock'[s] = q
      BY <1>4 DEF TypeOK, Unlocked
    <2>. QED
      BY <1>1, <1>2, <1>8, <2>1, <2>2, <2>3 DEF Undisturbed, BookSteps, Exists, Active
  <1>. QED
    BY <1>7, <1>9, <1>10, StepOfOne

LEMMA CancelOK ==
  ASSUME TypeOK, JobsHold, NEW p \in Requests,
         \/ \E b \in BookingIds : CancelRequest(p, b)
         \/ CancelLock(p)
         \/ CancelWrite(p)
  PROVE  TypeOK' /\ JobsKept
  <1>. DEFINE j == job[p]
  <1>1. j \in Job /\ JobHolds(p)
    BY DEF TypeOK, JobsHold
  <1>2. ASSUME NEW b \in BookingIds, CancelRequest(p, b) PROVE TypeOK' /\ JobsKept
    <2>1. Exists(booking, b) /\ booking[b].stock \in Stocks
      BY <1>2 DEF CancelRequest, TypeOK, Exists, Row
    <2>. QED
      BY <1>2, <2>1, BeginsOnRow DEF CancelRequest
  <1>3. CASE CancelLock(p)
    <2>. DEFINE new == [j EXCEPT !.step = "cancel:write"]
    <2>1. CASE GiveUp(p)
      BY <2>1, GiveUpOK
    <2>2. CASE ~GiveUp(p)
      <3>1. /\ j.step = "cancel:lock" /\ ~booking[j.booking].cancelled
            /\ Acquire(p, j.stock) /\ Become(p, new) /\ UNCHANGED <<booking, stock, payment>>
        BY <1>3, <2>2 DEF CancelLock, At, AlreadyCancelled
      <3>2. /\ j.booking \in BookingIds /\ Exists(booking, j.booking)
            /\ j.stock = booking[j.booking].stock /\ j.stock \in Stocks
        BY <1>1, <3>1 DEF JobHolds, RowSteps, TypeOK, Exists, Row
      <3>3. /\ new \in Job /\ new.step = "cancel:write" /\ new.stock = j.stock
            /\ new.booking = j.booking /\ new.targets = j.targets
        BY <1>1 DEF Job, Steps
      <3>4. job' = [job EXCEPT ![p] = new]
        BY <3>1 DEF Become
      <3>. HIDE DEF new
      <3>5. job'[p] = new /\ lock'[j.stock] = p
        BY <3>1, <3>2, <3>4 DEF TypeOK, Acquire
      <3>6. JobOK(p)'
        BY <1>1, <3>1, <3>2, <3>3, <3>5 DEF JobOK, JobHolds, CancelsActive, LockSteps, BookSteps, RowSteps, Exists
      <3>. QED
        BY <3>1, <3>2, <3>3, <3>4, <3>6, OnlyJob DEF BookSteps
    <2>. QED
      BY <2>1, <2>2
  <1>4. CASE CancelWrite(p)
    <2>1. /\ j.step = "cancel:write"
          /\ booking' = [booking EXCEPT ![j.booking].cancelled = TRUE]
          /\ stock' = [stock EXCEPT ![j.stock].dn = @ - booking[j.booking].quantity]
          /\ Release(p) /\ job' = [job EXCEPT ![p] = Idle] /\ UNCHANGED payment
      BY <1>4 DEF CancelWrite, At, Become
    <2>2. /\ j.booking \in BookingIds /\ booking[j.booking] \in Row
          /\ j.stock \in Stocks /\ lock[j.stock] = p /\ j.stock = booking[j.booking].stock
      BY <1>1, <2>1 DEF JobHolds, RowSteps, LockSteps, TypeOK, Exists
    <2>3. booking' \in [BookingIds -> Row \union {Absent}]
      BY <2>1, <2>2 DEF TypeOK, Row
    <2>4. stock' \in [Stocks -> StockRow]
      <3>1. booking[j.booking].quantity \in Int
        BY <2>2 DEF Row
      <3>. QED
        BY <2>1, <2>2, <3>1, CounterMoves
    <2>5. job'[p] = Idle
      BY <2>1 DEF TypeOK
    <2>6. /\ \A b \in BookingIds : b # j.booking => booking'[b] = booking[b]
          /\ booking'[j.booking] \in Row /\ booking'[j.booking].stock = j.stock
          /\ booking'[j.booking].cancelled
      BY <2>1, <2>2 DEF TypeOK, Row
    <2>7. \A b \in BookingIds :
            /\ Exists(booking', b) <=> Exists(booking, b)
            /\ Exists(booking, b) => booking'[b].stock = booking[b].stock
            /\ Active(booking, b) => Active(booking', b) \/ lock[booking[b].stock] = p
            /\ Exists(booking, b) /\ ~Active(booking, b) => ~Active(booking', b)
      BY <2>2, <2>6, BookingsAssumption DEF Exists, Active
    <2>. QED
      BY <2>1, <2>3, <2>4, <2>5, <2>7, IdleOK, RowsWritten DEF BookSteps
  <1>. QED
    BY <1>2, <1>3, <1>4

LEMMA WithdrawOK ==
  ASSUME TypeOK, JobsHold, NEW p \in Requests, NEW s \in Stocks,
         DeleteStock(p, s) \/ RejectOffer(p, s) \/ PurgeLock(p, s) \/ PurgeWrite(p)
  PROVE  TypeOK' /\ JobsKept
  <1>. DEFINE j == job[p]
  <1>1. j \in Job /\ JobHolds(p)
    BY DEF TypeOK, JobsHold
  <1>2. ASSUME NEW S \in SUBSET Stocks
        PROVE  /\ Withdrawing(S) \in Job /\ Withdrawing(S).step = "purge:lock"
               /\ Withdrawing(S).targets = {}
    <2>1. Doing("purge:lock", None, None, None) \in Job
      BY DEF Doing, Job, Steps
    <2>. QED
      BY <2>1 DEF Withdrawing, Doing, Job
  <1>3. ASSUME NEW S \in SUBSET Stocks, job' = [job EXCEPT ![p] = Withdrawing(S)]
        PROVE  JobOK(p)'
    <2>1. job'[p].step = "purge:lock" /\ job'[p].targets = {}
      BY <1>2, <1>3 DEF TypeOK
    <2>. QED
      BY <2>1 DEF JobOK, JobHolds, CancelsActive, LockSteps, BookSteps, RowSteps
  <1>4. ASSUME NEW S \in SUBSET Stocks, Begin(p, Withdrawing(S)),
               stock' \in [Stocks -> StockRow], UNCHANGED <<booking, payment, lock>>
        PROVE  TypeOK' /\ JobsKept
    <2>1. job' = [job EXCEPT ![p] = Withdrawing(S)]
      BY <1>4 DEF Begin
    <2>2. booking' \in [BookingIds -> Row \union {Absent}]
      BY <1>4 DEF TypeOK
    <2>3. \A b \in BookingIds : booking'[b] = booking[b]
      BY <1>4
    <2>. QED
      BY <1>2, <1>3, <1>4, <2>1, <2>2, <2>3, RowsWritten, ZenonT(40) DEF BookSteps, Exists, Active
  <1>5. CASE DeleteStock(p, s)
    <2>1. stock' = [stock EXCEPT ![s].deleted = TRUE]
      BY <1>5 DEF DeleteStock
    <2>2. stock' \in [Stocks -> StockRow]
      <3>. DEFINE row == [stock[s] EXCEPT !.deleted = TRUE]
      <3>1. stock \in [Stocks -> StockRow] /\ row \in StockRow
        BY DEF TypeOK, StockRow
      <3>2. stock' = [stock EXCEPT ![s] = row]
        BY <2>1
      <3>. HIDE DEF row
      <3>. QED
        BY <3>1, <3>2
    <2>3. Begin(p, Withdrawing({s})) /\ UNCHANGED <<booking, payment, lock>>
      BY <1>5 DEF DeleteStock
    <2>. QED
      BY <1>4, <2>2, <2>3
  <1>6. CASE RejectOffer(p, s)
    <2>1. stock' \in [Stocks -> StockRow]
      BY <1>6 DEF RejectOffer, OfferBecomes, TypeOK, StockRow
    <2>. QED
      BY <1>4, <1>6, <2>1 DEF RejectOffer, SameOffer
  <1>7. CASE PurgeLock(p, s)
    <2>. DEFINE targets == {b \in BookingIds : /\ Active(booking, b)
                                              /\ booking[b].stock = s
                                              /\ ~booking[b].used}
                new == [j EXCEPT !.step = "purge:write", !.stock = s, !.targets = targets]
    <2>1. /\ j.step = "purge:lock" /\ Acquire(p, s) /\ job' = [job EXCEPT ![p] = new]
          /\ UNCHANGED <<booking, stock, payment>>
      BY <1>7 DEF PurgeLock, At, Become
    <2>2. /\ new \in Job /\ new.step = "purge:write" /\ new.stock = s /\ new.targets = targets
      BY <1>1 DEF Job, Steps
    <2>. HIDE DEF new
    <2>3. job'[p] = new /\ lock'[s] = p
      BY <2>1 DEF TypeOK, Acquire
    <2>4. JobOK(p)'
      BY <2>1, <2>2, <2>3 DEF JobOK, JobHolds, CancelsActive, LockSteps, BookSteps, RowSteps, Exists, Active
    <2>. QED
      BY <2>1, <2>2, <2>4, OnlyJob DEF BookSteps
  <1>8. CASE PurgeWrite(p)
    <2>. DEFINE rest == j.queue \ {j.stock}
                n == Cardinality(PlacesOf(booking, j.targets))
                new == IF rest = {} THEN Idle ELSE Withdrawing(rest)
    <2>1. /\ j.step = "purge:write"
          /\ booking' = [b \in BookingIds |->
               IF b \in j.targets THEN [booking[b] EXCEPT !.cancelled = TRUE] ELSE booking[b]]
          /\ stock' = [stock EXCEPT ![j.stock].dn = @ - n]
          /\ Release(p) /\ job' = [job EXCEPT ![p] = new] /\ UNCHANGED payment
      BY <1>8 DEF PurgeWrite, At, Become
    <2>2. /\ j.stock \in Stocks /\ lock[j.stock] = p /\ j.targets \subseteq BookingIds
          /\ rest \in SUBSET Stocks
          /\ \A b \in j.targets : booking[b] \in Row /\ booking[b].stock = j.stock
      BY <1>1, <2>1 DEF JobHolds, LockSteps, TypeOK, Exists, Active, Job
    <2>3. \A b \in j.targets :
            booking'[b] \in Row /\ booking'[b].stock = j.stock /\ booking'[b].cancelled
      BY <2>1, <2>2 DEF Row
    <2>4. \A b \in BookingIds \ j.targets : booking'[b] = booking[b]
      BY <2>1
    <2>5. booking' \in [BookingIds -> Row \union {Absent}]
      BY <2>1, <2>3, <2>4 DEF TypeOK
    <2>6. stock' \in [Stocks -> StockRow]
      <3>1. n \in Int
        BY PlacesFinite
      <3>. HIDE DEF n
      <3>. QED
        BY <2>1, <2>2, <3>1, CounterMoves
    <2>7. /\ new \in Job /\ new.step \notin BookSteps
      BY <1>2, <2>2, IdleOK DEF BookSteps
    <2>8. JobOK(p)'
      <3>1. CASE rest = {}
        <4>1. job'[p] = Idle
          BY <2>1, <3>1 DEF TypeOK
        <4>. QED
          BY <4>1, IdleOK
      <3>2. CASE rest # {}
        BY <1>3, <2>1, <2>2, <3>2
      <3>. QED
        BY <3>1, <3>2
    <2>9. \A b \in BookingIds :
            /\ Exists(booking', b) <=> Exists(booking, b)
            /\ Exists(booking, b) => booking'[b].stock = booking[b].stock
            /\ Active(booking, b) => Active(booking', b) \/ lock[booking[b].stock] = p
            /\ Exists(booking, b) /\ ~Active(booking, b) => ~Active(booking', b)
      BY <2>2, <2>3, <2>4, BookingsAssumption DEF Exists, Active
    <2>. HIDE DEF new, n
    <2>. QED
      BY <2>1, <2>5, <2>6, <2>7, <2>8, <2>9, RowsWritten
  <1>. QED
    BY <1>5, <1>6, <1>7, <1>8

LEMMA UseOK ==
  ASSUME TypeOK, JobsHold, NEW p \in Requests,
         \/ \E b \in BookingIds : UseLoad(p, b) \/ UnuseLoad(p, b)
         \/ UseWrite(p) \/ UnuseWrite(p)
  PROVE  TypeOK' /\ JobsKept
  <1>. DEFINE j == job[p]
  <1>1. j \in Job /\ JobHolds(p)
    BY DEF TypeOK, JobsHold
  <1>2. ASSUME NEW b \in BookingIds, UseLoad(p, b) \/ UnuseLoad(p, b)
        PROVE  TypeOK' /\ JobsKept
    <2>1. Exists(booking, b) /\ booking[b] \in Row
      BY <1>2 DEF UseLoad, UnuseLoad, TypeOK, Exists
    <2>2. CASE UseLoad(p, b)
      BY <2>1, <2>2, BeginsOnRow DEF UseLoad, RowSteps
    <2>3. CASE UnuseLoad(p, b)
      BY <2>1, <2>3, BeginsOnRow DEF UnuseLoad, RowSteps
    <2>. QED
      BY <1>2, <2>2, <2>3
  <1>3. CASE UseWrite(p) \/ UnuseWrite(p)
    <2>1. /\ j.step \in {"use:write", "unuse:write"}
          /\ job' = [job EXCEPT ![p] = Idle] /\ UNCHANGED <<stock, payment, lock>>
          /\ \/ UNCHANGED booking
             \/ booking' = [booking EXCEPT ![j.booking].used = TRUE]
             \/ booking' = [booking EXCEPT ![j.booking].used = FALSE]
      BY <1>3 DEF UseWrite, UnuseWrite, At, Become
    <2>2. j.booking \in BookingIds /\ Exists(booking, j.booking) /\ booking[j.booking] \in Row
      BY <1>1, <2>1 DEF JobHolds, TypeOK, Exists
    <2>3. PICK row \in Row : /\ booking' = [booking EXCEPT ![j.booking] = row]
                             /\ row.stock = booking[j.booking].stock
                             /\ row.cancelled = booking[j.booking].cancelled
      <3>1. ASSUME NEW used \in BOOLEAN,
                   booking' = [booking EXCEPT ![j.booking].used = used]
            PROVE  \E row \in Row : /\ booking' = [booking EXCEPT ![j.booking] = row]
                                    /\ row.stock = booking[j.booking].stock
                                    /\ row.cancelled = booking[j.booking].cancelled
        <4>. DEFINE row == [booking[j.booking] EXCEPT !.used = used]
        <4>1. /\ row \in Row /\ row.stock = booking[j.booking].stock
              /\ row.cancelled = booking[j.booking].cancelled
          BY <2>2 DEF Row
        <4>2. booking' = [booking EXCEPT ![j.booking] = row]
          BY <3>1
        <4>. QED
          BY <4>1, <4>2
      <3>2. CASE UNCHANGED booking
        <4>1. booking' = [booking EXCEPT ![j.booking] = booking[j.booking]]
          BY <2>2, <3>2 DEF TypeOK
        <4>. QED
          BY <2>2, <4>1
      <3>. QED
        BY <2>1, <3>1, <3>2
    <2>4. job'[p] = Idle /\ stock' \in [Stocks -> StockRow]
      BY <2>1 DEF TypeOK
    <2>. QED
      BY <2>1, <2>2, <2>3, <2>4, IdleOK, RowChanged DEF BookSteps
  <1>. QED
    BY <1>2, <1>3

LEMMA UncancelOK ==
  ASSUME TypeOK, JobsHold, NEW p \in Requests,
         \/ \E b \in BookingIds : UncancelLoad(p, b)
         \/ UncancelFlush(p) \/ UncancelCommit(p)
  PROVE  TypeOK' /\ JobsKept
  <1>. DEFINE j == job[p]
  <1>1. j \in Job /\ JobHolds(p)
    BY DEF TypeOK, JobsHold
  <1>2. ASSUME NEW b \in BookingIds, UncancelLoad(p, b) PROVE TypeOK' /\ JobsKept
    <2>1. Exists(booking, b) /\ booking[b] \in Row /\ booking[b].stock \in Stocks
      BY <1>2 DEF UncancelLoad, TypeOK, Exists, Row
    <2>. QED
      BY <1>2, <2>1, BeginsOnRow DEF UncancelLoad, Active
  <1>3. CASE GiveUp(p)
    BY <1>3, GiveUpOK
  <1>4. CASE UncancelFlush(p) /\ ~GiveUp(p)
    <2>. DEFINE new == [j EXCEPT !.step = "uncancel:lock"]
    <2>1. /\ j.step = "uncancel:flush" /\ job' = [job EXCEPT ![p] = new]
          /\ UNCHANGED <<booking, stock, payment, lock>>
      BY <1>4 DEF UncancelFlush, At, Become
    <2>2. /\ new \in Job /\ new.step = "uncancel:lock" /\ new.row = j.row
          /\ new.stock = j.stock /\ new.booking = j.booking /\ new.targets = j.targets
      BY <1>1 DEF Job, Steps
    <2>. HIDE DEF new
    <2>3. job'[p] = new
      BY <2>1 DEF TypeOK
    <2>4. JobOK(p)'
      BY <1>1, <2>1, <2>2, <2>3 DEF JobOK, JobHolds, CancelsActive, LockSteps, BookSteps, RowSteps, Exists
    <2>. QED
      BY <2>1, <2>2, <2>4, OnlyJob DEF BookSteps
  <1>5. CASE UncancelCommit(p) /\ ~GiveUp(p)
    <2>1. /\ j.step = "uncancel:lock"
          /\ booking' = [booking EXCEPT ![j.booking].cancelled = FALSE, ![j.booking].used = TRUE]
          /\ stock' = [stock EXCEPT ![j.stock].dn = @ + booking[j.booking].quantity]
          /\ job' = [job EXCEPT ![p] = Idle] /\ UNCHANGED <<payment, lock>>
      BY <1>5 DEF UncancelCommit, At, Become
    <2>2. /\ j.booking \in BookingIds /\ Exists(booking, j.booking) /\ booking[j.booking] \in Row
          /\ j.stock = booking[j.booking].stock /\ j.stock \in Stocks
      BY <1>1, <2>1 DEF JobHolds, RowSteps, TypeOK, Exists, Row
    <2>. DEFINE row == [booking[j.booking] EXCEPT !.cancelled = FALSE, !.used = TRUE]
    <2>3. row \in Row /\ row.stock = booking[j.booking].stock /\ row.cancelled = FALSE
      BY <2>2 DEF Row
    <2>4. booking' = [booking EXCEPT ![j.booking] = row]
      BY <2>1, <2>2 DEF TypeOK
    <2>. HIDE DEF row
    <2>5. stock' \in [Stocks -> StockRow]
      <3>1. booking[j.booking].quantity \in Int
        BY <2>2 DEF Row
      <3>. QED
        BY <2>1, <2>2, <3>1, CounterMoves
    <2>6. job'[p] = Idle
      BY <2>1 DEF TypeOK
    <2>7. p \in Admins
      BY <1>1, <2>1 DEF JobHolds
    <2>. QED
      BY <2>1, <2>2, <2>3, <2>4, <2>5, <2>6, <2>7, IdleOK, RowChanged, ZenonT(40) DEF BookSteps
  <1>. QED
    BY <1>2, <1>3, <1>4, <1>5

LEMMA EditLoadOK ==
  ASSUME TypeOK, JobsHold, NEW p \in Requests, NEW s \in Stocks,
         NEW q \in Quantities \union {Unlimited}, NEW price \in Prices,
         NEW move \in {"same", "near", "far"}, EditLoad(p, s, q, price, move)
  PROVE  TypeOK' /\ JobsKept
  <1>. DEFINE edit == [quantity |-> Changed(q, stock[s].quantity),
                       price |-> Changed(price, stock[s].price), move |-> move]
              new == [Doing("edit:write", s, None, None) EXCEPT !.edit = edit]
  <1>1. edit \in Edit
    BY DEF Edit, Changed
  <1>2. job' = [job EXCEPT ![p] = new] /\ UNCHANGED <<booking, stock, payment, lock>>
    BY DEF EditLoad, Begin
  <1>. HIDE DEF edit
  <1>3. Doing("edit:write", s, None, None) \in Job
    BY DEF Doing, Job, Steps
  <1>4. /\ new \in Job /\ new.step = "edit:write" /\ new.stock = s /\ new.edit = edit
        /\ new.targets = {}
    BY <1>1, <1>3 DEF Doing, Job
  <1>. HIDE DEF new
  <1>5. job'[p] = new
    BY <1>2 DEF TypeOK
  <1>6. JobOK(p)'
    BY <1>1, <1>4, <1>5 DEF JobOK, JobHolds, CancelsActive, LockSteps, BookSteps, RowSteps
  <1>. QED
    BY <1>2, <1>4, <1>6, OnlyJob DEF BookSteps

\* One of the bookings of a moved event is looked at, or marked as unused.
UnuseStep(p, b) == EditUnuse(p, b) \/ (EditCommit(p) /\ b = job[p].booking)

LEMMA CommitUnuses ==
  ASSUME JobsHold, NEW p \in Requests, EditCommit(p)
  PROVE  \E b \in BookingIds : UnuseStep(p, b)
  BY DEF JobsHold, JobHolds, EditCommit, UnuseStep, At

\* What such a step does to the row and to the job.
LEMMA UnuseDoes ==
  ASSUME TypeOK, JobsHold, NEW p \in Requests, NEW b \in BookingIds, UnuseStep(p, b), ~GiveUp(p)
  PROVE  /\ UNCHANGED <<stock, payment, lock>>
         /\ Exists(booking, b) /\ job[p].stock \in Stocks /\ job[p].edit \in Edit
         /\ \E row \in Row :
              /\ booking' = [booking EXCEPT ![b] = row]
              /\ row \in {booking[b], [booking[b] EXCEPT !.used = FALSE]}
              /\ row.user = booking[b].user /\ row.stock = booking[b].stock
              /\ row.quantity = booking[b].quantity /\ row.code = booking[b].code
              /\ row.cancelled = booking[b].cancelled
              /\ EditUnuse(p, b) => row = booking[b]
         /\ \E new \in Job :
              /\ job' = [job EXCEPT ![p] = new]
              /\ new.step \in {"idle", "edit:unuse", "edit:commit"}
              /\ \/ new = Idle
                 \/ /\ new.stock = job[p].stock /\ new.edit = job[p].edit
                    /\ new.targets \subseteq job[p].targets
              /\ \/ new.booking = None
                 \/ new.booking = b /\ EditUnuse(p, b) /\ booking[b].used /\ ~HasPayment(b)
              /\ new.step = "edit:commit" => new.booking = b
  <1>. DEFINE j == job[p]
              rest == j.targets \ {b}
              next == [j EXCEPT !.step = "edit:unuse", !.booking = None, !.targets = rest]
              commit == [j EXCEPT !.step = "edit:commit", !.booking = b]
  <1>1. /\ j \in Job /\ JobHolds(p) /\ j.step \in {"edit:unuse", "edit:commit"}
        /\ UNCHANGED <<stock, payment, lock>>
    BY DEF TypeOK, JobsHold, UnuseStep, EditUnuse, EditCommit, At
  <1>2. Exists(booking, b) /\ booking[b] \in Row /\ j.stock \in Stocks /\ j.edit \in Edit
    BY <1>1 DEF UnuseStep, EditUnuse, EditCommit, At, JobHolds, TypeOK, Exists
  <1>3. /\ next \in Job /\ next.step = "edit:unuse" /\ next.booking = None
        /\ next.stock = j.stock /\ next.edit = j.edit /\ next.targets \subseteq j.targets
    BY <1>1 DEF Job, Steps
  <1>4. /\ commit \in Job /\ commit.step = "edit:commit" /\ commit.booking = b
        /\ commit.stock = j.stock /\ commit.edit = j.edit /\ commit.targets = j.targets
    BY <1>1 DEF Job, Steps
  <1>5. Idle \in Job /\ Idle.step = "idle" /\ Idle.booking = None
    BY IdleOK DEF Idle, Doing
  <1>6. Rest(p, b) \in {Idle, next}
    BY DEF Rest
  <1>7. CASE EditUnuse(p, b)
    <2>1. UNCHANGED booking
      BY <1>7 DEF EditUnuse
    <2>2. booking' = [booking EXCEPT ![b] = booking[b]]
      BY <2>1 DEF TypeOK
    <2>3. \/ job' = [job EXCEPT ![p] = commit] /\ booking[b].used /\ ~HasPayment(b)
          \/ job' = [job EXCEPT ![p] = Rest(p, b)]
      BY <1>7 DEF EditUnuse, Become
    <2>. HIDE DEF next, commit
    <2>4. CASE job' = [job EXCEPT ![p] = commit] /\ booking[b].used /\ ~HasPayment(b)
      BY <1>1, <1>2, <1>4, <1>7, <2>2, <2>4
    <2>5. CASE job' = [job EXCEPT ![p] = Rest(p, b)]
      <3>1. Rest(p, b) \in Job /\ Rest(p, b).step \in {"idle", "edit:unuse"} /\ Rest(p, b).booking = None
        BY <1>3, <1>5, <1>6
      <3>2. \/ Rest(p, b) = Idle
            \/ /\ Rest(p, b).stock = j.stock /\ Rest(p, b).edit = j.edit
               /\ Rest(p, b).targets \subseteq j.targets
        BY <1>3, <1>6
      <3>. QED
        BY <1>1, <1>2, <1>7, <2>2, <2>5, <3>1, <3>2
    <2>. QED
      BY <2>3, <2>4, <2>5
  <1>8. CASE ~EditUnuse(p, b)
    <2>. DEFINE row == [booking[b] EXCEPT !.used = FALSE]
    <2>1. booking' = [booking EXCEPT ![b] = row] /\ job' = [job EXCEPT ![p] = Rest(p, b)]
      BY <1>8 DEF UnuseStep, EditCommit, Become
    <2>2. /\ row \in Row /\ row.user = booking[b].user /\ row.stock = booking[b].stock
          /\ row.quantity = booking[b].quantity /\ row.code = booking[b].code
          /\ row.cancelled = booking[b].cancelled
      BY <1>2 DEF Row
    <2>. HIDE DEF next, commit
    <2>3. Rest(p, b) \in Job /\ Rest(p, b).step \in {"idle", "edit:unuse"} /\ Rest(p, b).booking = None
      BY <1>3, <1>5, <1>6
    <2>4. \/ Rest(p, b) = Idle
          \/ /\ Rest(p, b).stock = j.stock /\ Rest(p, b).edit = j.edit
             /\ Rest(p, b).targets \subseteq j.targets
      BY <1>3, <1>6
    <2>. QED
      BY <1>1, <1>2, <1>8, <2>1, <2>2, <2>3, <2>4
  <1>. QED
    BY <1>7, <1>8

\* The steps of an edition that follow its loading.
LEMMA EditOK ==
  ASSUME TypeOK, JobsHold, NEW p \in Requests,
         \/ EditWrite(p) \/ EditRedate(p) \/ EditCommit(p)
         \/ \E b \in BookingIds : EditUnuse(p, b)
  PROVE  TypeOK' /\ JobsKept
  <1>. DEFINE j == job[p]
              e == j.edit
  <1>1. j \in Job /\ JobHolds(p)
    BY DEF TypeOK, JobsHold
  <1>2. CASE GiveUp(p)
    BY <1>2, GiveUpOK
  <1>3. CASE EditWrite(p) /\ ~GiveUp(p)
    <2>. DEFINE s == j.stock
                q == Written(e.quantity, stock[s].quantity)
                row == [stock[s] EXCEPT !.quantity = q, !.price = Written(e.price, @),
                          !.phase = IF e.move = "same" THEN @ ELSE "upcoming"]
                new == IF e.move = "same" THEN Idle ELSE [j EXCEPT !.step = "edit:redate"]
    <2>1. /\ j.step = "edit:write"
          /\ stock' = [stock EXCEPT ![s].quantity = q, ![s].price = Written(e.price, @),
                         ![s].phase = IF e.move = "same" THEN @ ELSE "upcoming"]
          /\ job' = [job EXCEPT ![p] = new] /\ UNCHANGED <<booking, payment, lock>>
      BY <1>3 DEF EditWrite, At, Become
    <2>2. s \in Stocks /\ e \in Edit /\ stock[s] \in StockRow
      BY <1>1, <2>1 DEF JobHolds, TypeOK
    <2>3. /\ q \in Quantities \union {Unlimited}
          /\ Written(e.price, stock[s].price) \in Prices
      BY <2>2, BookingsAssumption DEF Written, Edit, StockRow
    <2>4. row \in StockRow
      BY <2>2, <2>3 DEF StockRow
    <2>5. stock' = [stock EXCEPT ![s] = row]
      BY <2>1, <2>2 DEF TypeOK
    <2>. HIDE DEF row, q
    <2>6. stock' \in [Stocks -> StockRow]
      BY <2>2, <2>4, <2>5 DEF TypeOK
    <2>7. /\ new \in Job /\ new.step \notin BookSteps
          /\ new = Idle \/ (new.step = "edit:redate" /\ new.stock = s /\ new.edit = e /\ new.targets = j.targets)
      <3>1. CASE e.move = "same"
        BY <3>1, IdleOK DEF BookSteps
      <3>2. CASE e.move # "same"
        BY <1>1, <3>2 DEF Job, Steps, BookSteps
      <3>. QED
        BY <3>1, <3>2
    <2>. HIDE DEF new
    <2>8. job'[p] = new
      BY <2>1 DEF TypeOK
    <2>9. JobOK(p)'
      <3>1. CASE new = Idle
        BY <2>8, <3>1, IdleOK
      <3>2. CASE new # Idle
        BY <1>1, <2>1, <2>2, <2>7, <2>8, <3>2 DEF JobOK, JobHolds, CancelsActive, LockSteps, BookSteps, RowSteps, Exists
      <3>. QED
        BY <3>1, <3>2
    <2>10. booking' \in [BookingIds -> Row \union {Absent}]
      BY <2>1 DEF TypeOK
    <2>. QED
      BY <2>1, <2>6, <2>7, <2>9, <2>10, RowsWritten DEF Exists, Active
  <1>4. CASE EditRedate(p)
    <2>. DEFINE near == e.move = "near"
                moved == {b \in BookingIds : Active(booking, b) /\ booking[b].stock = j.stock}
                new == IF near \/ moved = {} THEN Idle
                       ELSE [j EXCEPT !.step = "edit:unuse", !.targets = moved]
    <2>1. /\ j.step = "edit:redate"
          /\ booking' = [b \in BookingIds |->
               IF b \in moved THEN [booking[b] EXCEPT !.confirmed = near] ELSE booking[b]]
          /\ job' = [job EXCEPT ![p] = new] /\ UNCHANGED <<stock, payment, lock>>
      BY <1>4 DEF EditRedate, At, Become
    <2>2. \A b \in moved : /\ booking'[b] \in Row /\ booking'[b].stock = booking[b].stock
                           /\ booking'[b].cancelled = booking[b].cancelled
      <3>1. ASSUME NEW b \in moved
            PROVE  /\ booking'[b] \in Row /\ booking'[b].stock = booking[b].stock
                   /\ booking'[b].cancelled = booking[b].cancelled
        <4>1. booking[b] \in Row
          BY DEF Active, TypeOK
        <4>2. booking'[b] = [booking[b] EXCEPT !.confirmed = near]
          BY <2>1
        <4>3. near \in BOOLEAN
          OBVIOUS
        <4>. HIDE DEF near, moved
        <4>. QED
          BY <4>1, <4>2, <4>3 DEF Row
      <3>. QED
        BY <3>1
    <2>3. \A b \in BookingIds \ moved : booking'[b] = booking[b]
      BY <2>1
    <2>4. booking' \in [BookingIds -> Row \union {Absent}]
      BY <2>1, <2>2, <2>3 DEF TypeOK
    <2>5. \A b \in BookingIds :
            /\ Exists(booking', b) <=> Exists(booking, b)
            /\ Exists(booking, b) => booking'[b].stock = booking[b].stock
            /\ Active(booking, b) => Active(booking', b)
            /\ Exists(booking, b) /\ ~Active(booking, b) => ~Active(booking', b)
      BY <2>2, <2>3, BookingsAssumption DEF Exists, Active
    <2>6. /\ new \in Job /\ new.step \notin BookSteps
          /\ new = Idle \/ (new.step = "edit:unuse" /\ new.stock = j.stock /\ new.edit = e /\ new.targets = moved)
      <3>1. moved \in SUBSET BookingIds
        OBVIOUS
      <3>. HIDE DEF moved
      <3>2. CASE near \/ moved = {}
        BY <3>2, IdleOK DEF BookSteps
      <3>3. CASE ~(near \/ moved = {})
        BY <1>1, <3>1, <3>3 DEF Job, Steps, BookSteps
      <3>. QED
        BY <3>2, <3>3
    <2>. HIDE DEF new
    <2>7. job'[p] = new
      BY <2>1 DEF TypeOK
    <2>8. JobOK(p)'
      <3>1. CASE new = Idle
        BY <2>7, <3>1, IdleOK
      <3>2. CASE new # Idle
        <4>1. \A b \in moved : Exists(booking', b)
          BY <2>5 DEF Exists, Active
        <4>2. j.stock \in Stocks /\ e \in Edit
          BY <1>1, <2>1 DEF JobHolds
        <4>. HIDE DEF moved
        <4>. QED
          BY <2>6, <2>7, <3>2, <4>1, <4>2 DEF JobOK, JobHolds, CancelsActive, LockSteps, BookSteps, RowSteps
      <3>. QED
        BY <3>1, <3>2
    <2>9. stock' \in [Stocks -> StockRow]
      BY <2>1 DEF TypeOK
    <2>. QED
      BY <2>1, <2>4, <2>5, <2>6, <2>8, <2>9, RowsWritten
  <1>5. ASSUME NEW b \in BookingIds, UnuseStep(p, b), ~GiveUp(p)
        PROVE  TypeOK' /\ JobsKept
    <2>1. /\ UNCHANGED <<stock, payment, lock>>
          /\ Exists(booking, b) /\ j.stock \in Stocks /\ e \in Edit
      BY <1>5, UnuseDoes
    <2>2. PICK row \in Row :
             /\ booking' = [booking EXCEPT ![b] = row]
             /\ row.stock = booking[b].stock /\ row.cancelled = booking[b].cancelled
      BY <1>5, UnuseDoes
    <2>3. PICK new \in Job :
             /\ job' = [job EXCEPT ![p] = new]
             /\ new.step \in {"idle", "edit:unuse", "edit:commit"}
             /\ \/ new = Idle
                \/ /\ new.stock = j.stock /\ new.edit = e
                   /\ new.targets \subseteq j.targets
             /\ new.step = "edit:commit" => new.booking = b
      BY <1>5, UnuseDoes
    <2>4. job'[p] = new
      BY <2>3 DEF TypeOK
    <2>5. JobOK(p)'
      <3>1. CASE new = Idle
        BY <2>4, <3>1, IdleOK
      <3>2. CASE new # Idle
        <4>1. Exists(booking', b) /\ \A c \in new.targets : Exists(booking', c)
          BY <1>1, <2>2, <2>3, <3>2, BookingsAssumption DEF JobHolds, Exists, TypeOK, Job
        <4>. QED
          BY <2>1, <2>3, <2>4, <3>2, <4>1 DEF JobOK, JobHolds, CancelsActive, LockSteps, BookSteps, RowSteps
      <3>. QED
        BY <3>1, <3>2
    <2>6. stock' \in [Stocks -> StockRow]
      BY <2>1 DEF TypeOK
    <2>7. new.step \notin BookSteps
      BY <2>3 DEF BookSteps
    <2>. QED
      BY <2>1, <2>2, <2>3, <2>5, <2>6, <2>7, RowChanged
  <1>. QED
    BY <1>2, <1>3, <1>4, <1>5, CommitUnuses DEF UnuseStep

LEMMA AroundOK ==
  ASSUME TypeOK, JobsHold, Around
  PROVE  TypeOK' /\ JobsKept
  <1>1. UNCHANGED <<lock, job>>
    BY DEF Around, Paying, FindPayable, PaymentsCreated, PaymentsLost, FoundBecome,
            ConfirmationDatePasses, OfferChanges, EventProgresses
  <1>2. /\ booking' \in [BookingIds -> Row \union {Absent}]
        /\ \A b \in BookingIds :
             /\ Exists(booking', b) <=> Exists(booking, b)
             /\ Exists(booking, b) => booking'[b].stock = booking[b].stock
             /\ Active(booking, b) <=> Active(booking', b)
    <2>1. CASE UNCHANGED booking
      BY <2>1 DEF TypeOK, Exists, Active
    <2>2. ASSUME NEW b \in BookingIds, ConfirmationDatePasses(b)
          PROVE  <1>2!1 /\ <1>2!2
      <3>. DEFINE row == [booking[b] EXCEPT !.confirmed = TRUE]
      <3>1. Exists(booking, b) /\ booking[b] \in Row /\ booking' = [booking EXCEPT ![b] = row]
        BY <2>2 DEF ConfirmationDatePasses, TypeOK, Exists
      <3>2. row \in Row /\ row.stock = booking[b].stock /\ row.cancelled = booking[b].cancelled
        BY <3>1 DEF Row
      <3>. HIDE DEF row
      <3>. QED
        BY <3>1, <3>2, BookingsAssumption DEF TypeOK, Exists, Active
    <2>. QED
      BY <2>1, <2>2 DEF Around, Paying, FindPayable, PaymentsCreated, PaymentsLost, FoundBecome,
            OfferChanges, EventProgresses
  <1>3. stock' \in [Stocks -> StockRow]
    <2>1. ASSUME NEW s \in Stocks, OfferChanges(s) PROVE stock' \in [Stocks -> StockRow]
      BY <2>1 DEF OfferChanges, OfferBecomes, TypeOK, StockRow
    <2>2. ASSUME NEW s \in Stocks, EventProgresses(s) PROVE stock' \in [Stocks -> StockRow]
      BY <2>2 DEF EventProgresses, TypeOK, StockRow
    <2>3. CASE UNCHANGED stock
      BY <2>3 DEF TypeOK
    <2>. QED
      BY <2>1, <2>2, <2>3 DEF Around, Paying, FindPayable, PaymentsCreated, PaymentsLost, FoundBecome,
            ConfirmationDatePasses
  <1>4. payment' \in [BookingIds -> {"none", "found", "paid"}]
    BY DEF Around, Paying, FindPayable, PaymentsCreated, PaymentsLost, FoundBecome,
           ConfirmationDatePasses, OfferChanges, EventProgresses, TypeOK
  <1>5. TypeOK'
    BY <1>1, <1>2, <1>3, <1>4 DEF TypeOK
  <1>6. ASSUME NEW q \in Requests PROVE Undisturbed(q)
    BY <1>1, <1>2 DEF Undisturbed
  <1>. QED
    BY <1>5, <1>6, UndisturbedJobOK DEF JobsKept

LEMMA NextKept == TypeOK /\ JobsHold /\ [Next]_vars => TypeOK' /\ JobsKept
  <1>. SUFFICES ASSUME TypeOK, JobsHold, [Next]_vars PROVE TypeOK' /\ JobsKept
    OBVIOUS
  <1>1. ASSUME NEW p \in Requests, Arrival(p) PROVE TypeOK' /\ JobsKept
    BY <1>1, BookLockOK, CancelOK, UseOK, UncancelOK, WithdrawOK, EditLoadOK DEF Arrival
  <1>2. ASSUME NEW p \in Requests, Proceed(p) \/ TakeLock(p) PROVE TypeOK' /\ JobsKept
    <2>1. CASE BookCheck(p) \/ BookFlush(p) \/ BookCommit(p)
      BY <2>1, BookCheckOK, BookFlushOK, BookCommitOK
    <2>2. CASE CancelWrite(p) \/ CancelLock(p)
      BY <2>2, CancelOK
    <2>3. CASE PurgeWrite(p) \/ \E s \in Stocks : PurgeLock(p, s)
      <3>1. CASE \E s \in Stocks : PurgeLock(p, s)
        BY <3>1, WithdrawOK
      <3>2. CASE PurgeWrite(p)
        <4>1. job[p].stock \in Stocks
          BY <3>2 DEF PurgeWrite, At, JobsHold, JobHolds, LockSteps
        <4>. QED
          BY <3>2, <4>1, WithdrawOK
      <3>. QED
        BY <2>3, <3>1, <3>2
    <2>4. CASE UseWrite(p) \/ UnuseWrite(p)
      BY <2>4, UseOK
    <2>5. CASE UncancelFlush(p) \/ UncancelCommit(p)
      BY <2>5, UncancelOK
    <2>6. CASE EditWrite(p) \/ EditRedate(p) \/ EditCommit(p) \/ \E b \in BookingIds : EditUnuse(p, b)
      BY <2>6, EditOK
    <2>. QED
      BY <1>2, <2>1, <2>2, <2>3, <2>4, <2>5, <2>6 DEF Proceed, TakeLock
  <1>3. ASSUME NEW p \in Requests, LockTimeout(p) \/ Crash(p) PROVE TypeOK' /\ JobsKept
    BY <1>3, GiveUpOK DEF LockTimeout, Crash
  <1>4. ASSUME NEW p \in Requests, NEW q \in Requests, Deadlock(p, q) PROVE TypeOK' /\ JobsKept
    BY <1>4, GiveUpOK DEF Deadlock
  <1>5. CASE UNCHANGED vars
    BY <1>5 DEF vars, TypeOK, JobsHold, JobsKept, JobHolds, CancelsActive, Exists, Active, LockSteps, BookSteps, RowSteps
  <1>. QED
    BY <1>1, <1>2, <1>3, <1>4, <1>5, AroundOK DEF Next

LEMMA JobsOKParts == (JobsOK => JobsHold) /\ (JobsKept => JobsHold')
  BY DEF JobsOK, JobOK, JobsHold, JobsKept

LEMMA NextHolds == TypeOK /\ JobsHold /\ [Next]_vars => TypeOK' /\ JobsHold'
  BY NextKept, JobsOKParts

LEMMA NextOK == TypeOK /\ JobsOK /\ [Next]_vars => TypeOK' /\ JobsOK'
  BY NextKept, JobsOKParts DEF JobsKept, JobsOK, JobOK

\* Every reachable state has its types, and every request may rely at each of
\* its steps on the locks and rows that JobOK lists, whatever the others do.
THEOREM TypeCorrect == Spec => [](TypeOK /\ JobsOK)
  <1>1. Init => TypeOK /\ JobsOK
    BY InitOK
  <1>2. (TypeOK /\ JobsOK) /\ [Next]_vars => (TypeOK /\ JobsOK)'
    BY NextOK
  <1>. QED
    BY <1>1, <1>2, PTL DEF Spec

-----------------------------------------------------------------------------
(* No stock is ever overbooked, and the counter of a stock is the number of *)
(* its places that are taken.                                               *)

\* What a change of one or more rows does to the places of each stock.

LEMMA BookedIsNat ==
  ASSUME NEW v, NEW s
  PROVE  IsFiniteSet(Places(v, s)) /\ Booked(v, s) \in Nat
  BY PlacesFinite DEF Places, Booked

LEMMA PlacesSame ==
  ASSUME NEW v, NEW w,
         \A b \in BookingIds :
           /\ Active(w, b) <=> Active(v, b)
           /\ Active(v, b) => w[b].stock = v[b].stock /\ w[b].quantity = v[b].quantity,
         NEW s
  PROVE  Places(w, s) = Places(v, s) /\ Booked(w, s) = Booked(v, s)
  BY DEF Places, PlacesOf, Booked

LEMMA PlacesOfOne ==
  ASSUME NEW v, NEW b \in BookingIds, v[b].quantity \in 1..2
  PROVE  Cardinality(PlacesOf(v, {b})) = v[b].quantity
  <1>1. CASE v[b].quantity = 1
    <2>1. PlacesOf(v, {b}) = {<<b, 1>>}
      BY <1>1 DEF PlacesOf
    <2>. QED
      BY <1>1, <2>1, FS_Singleton
  <1>2. CASE v[b].quantity = 2
    <2>1. PlacesOf(v, {b}) = {<<b, 1>>} \union {<<b, 2>>}
      BY <1>2 DEF PlacesOf
    <2>2. <<b, 2>> \notin {<<b, 1>>}
      OBVIOUS
    <2>3. IsFiniteSet({<<b, 1>>}) /\ Cardinality({<<b, 1>>}) = 1
      BY FS_Singleton
    <2>4. Cardinality({<<b, 1>>} \union {<<b, 2>>}) = 1 + 1
      BY <2>2, <2>3, FS_AddElement
    <2>. QED
      BY <1>2, <2>1, <2>4
  <1>. QED
    BY <1>1, <1>2

\* From the table v to the table w, the bookings of B, all on stock s, are
\* cancelled.
Frees(v, w, s, B) ==
  /\ B \subseteq BookingIds
  /\ \A b \in B : Active(v, b) /\ v[b].stock = s /\ ~Active(w, b)
  /\ \A b \in BookingIds \ B : w[b] = v[b]

LEMMA PlacesFreed ==
  ASSUME NEW v, NEW w, NEW s, NEW B, Frees(v, w, s, B)
  PROVE  /\ Booked(w, s) = Booked(v, s) - Cardinality(PlacesOf(v, B))
         /\ \A t : t # s => Booked(w, t) = Booked(v, t)
  <1>1. Places(w, s) = Places(v, s) \ PlacesOf(v, B)
    BY DEF Frees, Places, PlacesOf, Active
  <1>2. Places(v, s) \cap PlacesOf(v, B) = PlacesOf(v, B)
    BY DEF Frees, Places, PlacesOf
  <1>3. Booked(w, s) = Booked(v, s) - Cardinality(PlacesOf(v, B))
    BY <1>1, <1>2, BookedIsNat, PlacesFinite, FS_Difference DEF Booked
  <1>4. ASSUME NEW t, t # s PROVE Places(w, t) = Places(v, t)
    BY <1>4 DEF Frees, Places, PlacesOf, Active
  <1>. QED
    BY <1>3, <1>4 DEF Booked

\* From v to w, booking b becomes active; no other row changes.
Takes(v, w, b) ==
  /\ b \in BookingIds /\ ~Active(v, b) /\ Active(w, b) /\ w[b].quantity \in 1..2
  /\ \A c \in BookingIds \ {b} : w[c] = v[c]

LEMMA PlacesTaken ==
  ASSUME NEW v, NEW w, NEW b, Takes(v, w, b)
  PROVE  /\ Booked(w, w[b].stock) = Booked(v, w[b].stock) + w[b].quantity
         /\ \A t : t # w[b].stock => Booked(w, t) = Booked(v, t)
  <1>1. Frees(w, v, w[b].stock, {b})
    BY DEF Takes, Frees
  <1>2. /\ Booked(v, w[b].stock) = Booked(w, w[b].stock) - Cardinality(PlacesOf(w, {b}))
        /\ \A t : t # w[b].stock => Booked(v, t) = Booked(w, t)
    BY <1>1, PlacesFreed
  <1>3. Cardinality(PlacesOf(w, {b})) = w[b].quantity
    BY PlacesOfOne DEF Takes
  <1>4. Booked(v, w[b].stock) \in Nat /\ Booked(w, w[b].stock) \in Nat
    BY BookedIsNat
  <1>. QED
    BY <1>2, <1>3, <1>4 DEF Takes

-----------------------------------------------------------------------------
(* Which steps change what is sold, and which bring a booking to its commit. *)

SalesSame ==
  /\ \A b \in BookingIds :
       /\ Active(booking', b) <=> Active(booking, b)
       /\ Active(booking, b) => /\ booking'[b].stock = booking[b].stock
                               /\ booking'[b].quantity = booking[b].quantity
  /\ \A s \in Stocks : stock'[s].quantity = stock[s].quantity /\ stock'[s].dn = stock[s].dn

\* Only the job of p changes, and not into a commit.
NoCommit(p) ==
  /\ \A q \in Requests \ {p} : job'[q] = job[q]
  /\ job'[p].step # "book:commit"

LEMMA BecomesNoCommit ==
  ASSUME TypeOK, NEW p \in Requests, NEW new, job' = [job EXCEPT ![p] = new],
         new.step # "book:commit"
  PROVE  NoCommit(p)
  BY DEF NoCommit, TypeOK

LEMMA IdleNoCommit ==
  ASSUME TypeOK, NEW p \in Requests, Become(p, Idle)
  PROVE  NoCommit(p)
  BY IdleOK, BecomesNoCommit DEF Become

LEMMA GiveUpSellsNothing ==
  ASSUME TypeOK, NEW p \in Requests, GiveUp(p)
  PROVE  SalesSame /\ NoCommit(p)
  BY IdleNoCommit DEF GiveUp, SalesSame

LEMMA ArrivalSellsNothing ==
  ASSUME TypeOK, NEW p \in Requests, Arrival(p)
  PROVE  SalesSame /\ NoCommit(p)
  <1>1. UNCHANGED booking
    BY DEF Arrival, BookLock, CancelRequest, UseLoad, UncancelLoad, UnuseLoad, DeleteStock, RejectOffer, EditLoad
  <1>2. \A s \in Stocks : stock'[s].quantity = stock[s].quantity /\ stock'[s].dn = stock[s].dn
    <2>1. CASE UNCHANGED stock
      BY <2>1
    <2>2. ASSUME NEW t \in Stocks, DeleteStock(p, t) PROVE <1>2
      BY <2>2 DEF DeleteStock, TypeOK, StockRow
    <2>3. ASSUME NEW t \in Stocks, RejectOffer(p, t) PROVE <1>2
      BY <2>3 DEF RejectOffer, OfferBecomes, TypeOK, StockRow
    <2>. QED
      BY <2>1, <2>2, <2>3 DEF Arrival, BookLock, CancelRequest, UseLoad, UncancelLoad, UnuseLoad, EditLoad
  <1>3. ASSUME NEW new, Begin(p, new), new.step # "book:commit" PROVE NoCommit(p)
    BY <1>3, BecomesNoCommit DEF Begin
  <1>4. /\ \A step, s, b, row : Doing(step, s, b, row).step = step
        /\ \A S : Withdrawing(S).step = "purge:lock"
        /\ \A s, e : [Doing("edit:write", s, None, None) EXCEPT !.edit = e].step = "edit:write"
    BY DEF Doing, Withdrawing
  <1>5. \E new : Begin(p, new) /\ new.step # "book:commit"
    <2>1. CASE \E u \in Users, s \in Stocks, q \in 1..2 : BookLock(p, u, s, q)
      BY <1>4, <2>1 DEF BookLock
    <2>2. CASE \E b \in BookingIds : CancelRequest(p, b) \/ UseLoad(p, b) \/ UncancelLoad(p, b) \/ UnuseLoad(p, b)
      BY <1>4, <2>2 DEF CancelRequest, UseLoad, UncancelLoad, UnuseLoad
    <2>3. CASE \E s \in Stocks : DeleteStock(p, s) \/ RejectOffer(p, s)
      BY <1>4, <2>3 DEF DeleteStock, RejectOffer
    <2>4. CASE \E s \in Stocks, q \in Quantities \union {Unlimited}, price \in Prices,
                  move \in {"same", "near", "far"} : EditLoad(p, s, q, price, move)
      BY <1>4, <2>4 DEF EditLoad
    <2>. QED
      BY <2>1, <2>2, <2>3, <2>4 DEF Arrival
  <1>. QED
    BY <1>1, <1>2, <1>3, <1>5 DEF SalesSame

\* The steps of requests that change what is sold.
Selling(p) ==
  \/ BookCommit(p) \/ CancelWrite(p) \/ PurgeWrite(p)
  \/ (UncancelCommit(p) \/ EditWrite(p)) /\ ~GiveUp(p)

LEMMA OtherStepsSellNothing ==
  ASSUME TypeOK, JobsHold, NEW p \in Requests, Proceed(p) \/ TakeLock(p), ~Selling(p)
  PROVE  SalesSame /\ (NoCommit(p) \/ (BookFlush(p) /\ ~GiveUp(p)))
  <1>. DEFINE j == job[p]
  <1>1. j \in Job /\ JobHolds(p)
    BY DEF TypeOK, JobsHold
  <1>2. CASE GiveUp(p)
    BY <1>2, GiveUpSellsNothing
  <1>3. ASSUME ~GiveUp(p), BookCheck(p) \/ BookFlush(p) \/ CancelLock(p) \/ UncancelFlush(p)
               \/ \E s \in Stocks : PurgeLock(p, s)
        PROVE  SalesSame /\ (NoCommit(p) \/ (BookFlush(p) /\ ~GiveUp(p)))
    <2>1. UNCHANGED <<booking, stock>>
      BY <1>3 DEF BookCheck, BookFlush, CancelLock, UncancelFlush, PurgeLock
    <2>2. CASE BookCheck(p)
      <3>1. PICK row : job' = [job EXCEPT ![p] = [j EXCEPT !.step = "book:flush", !.row = row]]
        BY <1>3, <2>2 DEF BookCheck, Become
      <3>2. [j EXCEPT !.step = "book:flush", !.row = row].step = "book:flush"
        BY <1>1 DEF Job
      <3>. QED
        BY <2>1, <3>1, <3>2, BecomesNoCommit DEF SalesSame
    <2>3. CASE BookFlush(p)
      BY <1>3, <2>1, <2>3 DEF SalesSame
    <2>4. CASE CancelLock(p) \/ UncancelFlush(p)
      <3>1. PICK step \in {"cancel:write", "uncancel:lock"} :
               job' = [job EXCEPT ![p] = [j EXCEPT !.step = step]]
        BY <1>3, <2>4 DEF CancelLock, UncancelFlush, Become
      <3>2. [j EXCEPT !.step = step].step = step
        BY <1>1 DEF Job
      <3>. QED
        BY <2>1, <3>1, <3>2, BecomesNoCommit DEF SalesSame
    <2>5. CASE \E s \in Stocks : PurgeLock(p, s)
      <3>1. PICK s, T : job' = [job EXCEPT ![p] = [j EXCEPT !.step = "purge:write", !.stock = s, !.targets = T]]
        BY <2>5 DEF PurgeLock, Become
      <3>2. [j EXCEPT !.step = "purge:write", !.stock = s, !.targets = T].step = "purge:write"
        BY <1>1 DEF Job
      <3>. QED
        BY <2>1, <3>1, <3>2, BecomesNoCommit DEF SalesSame
    <2>. QED
      BY <1>3, <2>2, <2>3, <2>4, <2>5
  <1>4. ASSUME UseWrite(p) \/ UnuseWrite(p) PROVE SalesSame /\ NoCommit(p)
    <2>1. Become(p, Idle) /\ UNCHANGED stock
      BY <1>4 DEF UseWrite, UnuseWrite
    <2>2. j.booking \in BookingIds /\ booking[j.booking] \in Row
      BY <1>1, <1>4 DEF UseWrite, UnuseWrite, At, JobHolds, TypeOK, Exists
    <2>3. \/ UNCHANGED booking
          \/ \E used \in BOOLEAN : booking' = [booking EXCEPT ![j.booking].used = used]
      BY <1>4 DEF UseWrite, UnuseWrite
    <2>4. ASSUME NEW used \in BOOLEAN, booking' = [booking EXCEPT ![j.booking].used = used]
          PROVE  SalesSame
      <3>. DEFINE row == [booking[j.booking] EXCEPT !.used = used]
      <3>1. /\ row \in Row /\ row.cancelled = booking[j.booking].cancelled
            /\ row.stock = booking[j.booking].stock /\ row.quantity = booking[j.booking].quantity
        BY <2>2 DEF Row
      <3>2. booking' = [booking EXCEPT ![j.booking] = row]
        BY <2>4
      <3>. HIDE DEF row
      <3>. QED
        BY <2>1, <2>2, <3>1, <3>2, BookingsAssumption DEF SalesSame, Active, TypeOK
    <2>. QED
      BY <2>1, <2>3, <2>4, IdleNoCommit DEF SalesSame
  <1>5. ASSUME EditRedate(p) PROVE SalesSame /\ NoCommit(p)
    <2>. DEFINE near == j.edit.move = "near"
                moved == {b \in BookingIds : Active(booking, b) /\ booking[b].stock = j.stock}
                new == IF near \/ moved = {} THEN Idle
                       ELSE [j EXCEPT !.step = "edit:unuse", !.targets = moved]
    <2>1. /\ booking' = [b \in BookingIds |->
               IF b \in moved THEN [booking[b] EXCEPT !.confirmed = near] ELSE booking[b]]
          /\ job' = [job EXCEPT ![p] = new] /\ UNCHANGED stock
      BY <1>5 DEF EditRedate, Become
    <2>2. ASSUME NEW b \in moved
          PROVE  /\ booking'[b] \in Row /\ booking'[b].stock = booking[b].stock
                 /\ booking'[b].cancelled = booking[b].cancelled
                 /\ booking'[b].quantity = booking[b].quantity
      <3>1. booking[b] \in Row
        BY DEF Active, TypeOK
      <3>2. booking'[b] = [booking[b] EXCEPT !.confirmed = near]
        BY <2>1
      <3>3. near \in BOOLEAN
        OBVIOUS
      <3>. HIDE DEF near, moved
      <3>. QED
        BY <3>1, <3>2, <3>3 DEF Row
    <2>3. \A b \in BookingIds \ moved : booking'[b] = booking[b]
      BY <2>1
    <2>4. new.step # "book:commit"
      <3>. HIDE DEF near, moved
      <3>. QED
        BY <1>1, IdleOK DEF Job
    <2>5. SalesSame
      BY <2>1, <2>2, <2>3, BookingsAssumption DEF SalesSame, Active
    <2>. QED
      BY <2>1, <2>4, <2>5, BecomesNoCommit
  <1>6. ASSUME NEW b \in BookingIds, ~GiveUp(p), UnuseStep(p, b) PROVE SalesSame /\ NoCommit(p)
    <2>1. PICK row \in Row :
             /\ booking' = [booking EXCEPT ![b] = row] /\ row.stock = booking[b].stock
             /\ row.cancelled = booking[b].cancelled /\ row.quantity = booking[b].quantity
      BY <1>6, UnuseDoes
    <2>2. PICK new \in Job :
             job' = [job EXCEPT ![p] = new] /\ new.step \in {"idle", "edit:unuse", "edit:commit"}
      BY <1>6, UnuseDoes
    <2>3. UNCHANGED stock /\ Exists(booking, b)
      BY <1>6, UnuseDoes
    <2>4. SalesSame
      BY <2>1, <2>3, BookingsAssumption DEF SalesSame, Active, Exists, TypeOK
    <2>. QED
      BY <2>2, <2>4, BecomesNoCommit
  <1>. QED
    BY <1>2, <1>3, <1>4, <1>5, <1>6, CommitUnuses DEF Proceed, TakeLock, Selling, UnuseStep

LEMMA AroundSellsNothing ==
  ASSUME TypeOK, Around
  PROVE  SalesSame /\ UNCHANGED job
  <1>1. UNCHANGED job
    BY DEF Around, Paying, FindPayable, PaymentsCreated, PaymentsLost, FoundBecome,
            ConfirmationDatePasses, OfferChanges, EventProgresses
  <1>2. ASSUME NEW b \in BookingIds, ConfirmationDatePasses(b) PROVE SalesSame
    <2>. DEFINE row == [booking[b] EXCEPT !.confirmed = TRUE]
    <2>1. booking[b] \in Row /\ booking' = [booking EXCEPT ![b] = row] /\ UNCHANGED stock
      BY <1>2 DEF ConfirmationDatePasses, TypeOK, Exists
    <2>2. /\ row \in Row /\ row.stock = booking[b].stock
          /\ row.cancelled = booking[b].cancelled /\ row.quantity = booking[b].quantity
      BY <2>1 DEF Row
    <2>. HIDE DEF row
    <2>. QED
      BY <2>1, <2>2, BookingsAssumption DEF SalesSame, Active, TypeOK
  <1>3. ASSUME NEW s \in Stocks, OfferChanges(s) PROVE SalesSame
    <2>1. \A t \in Stocks : stock'[t].quantity = stock[t].quantity /\ stock'[t].dn = stock[t].dn
      BY <1>3 DEF OfferChanges, OfferBecomes, TypeOK, StockRow
    <2>. QED
      BY <1>3, <2>1 DEF OfferChanges, SalesSame
  <1>4. ASSUME NEW s \in Stocks, EventProgresses(s) PROVE SalesSame
    BY <1>4 DEF EventProgresses, SalesSame, TypeOK, StockRow
  <1>5. ASSUME Paying PROVE SalesSame
    BY <1>5 DEF Paying, FindPayable, PaymentsCreated, PaymentsLost, FoundBecome, SalesSame
  <1>. QED
    BY <1>1, <1>2, <1>3, <1>4, <1>5 DEF Around

\* Every step but the five that sell leaves the sales alone, and only a
\* successful BookFlush brings a request to its commit.
LEMMA Effects ==
  ASSUME TypeOK, JobsHold, [Next]_vars
  PROVE  \/ SalesSame /\ UNCHANGED job
         \/ \E p \in Requests : SalesSame /\ NoCommit(p)
         \/ \E p \in Requests : SalesSame /\ BookFlush(p) /\ ~GiveUp(p)
         \/ \E p \in Requests : Selling(p)
  <1>1. CASE UNCHANGED vars
    BY <1>1 DEF vars, SalesSame
  <1>2. ASSUME NEW p \in Requests, NEW q \in Requests, Deadlock(p, q)
        PROVE  \E r \in Requests : SalesSame /\ NoCommit(r)
    BY <1>2, GiveUpSellsNothing DEF Deadlock
  <1>3. ASSUME NEW p \in Requests, LockTimeout(p) \/ Crash(p) PROVE SalesSame /\ NoCommit(p)
    BY <1>3, GiveUpSellsNothing DEF LockTimeout, Crash
  <1>4. ASSUME NEW p \in Requests, Proceed(p) \/ TakeLock(p), ~Selling(p)
        PROVE  SalesSame /\ (NoCommit(p) \/ (BookFlush(p) /\ ~GiveUp(p)))
    BY <1>4, OtherStepsSellNothing
  <1>5. ASSUME NEW p \in Requests, Arrival(p) PROVE SalesSame /\ NoCommit(p)
    BY <1>5, ArrivalSellsNothing
  <1>. QED
    BY <1>1, <1>2, <1>3, <1>4, <1>5, AroundSellsNothing DEF Next

-----------------------------------------------------------------------------
(* No overbooking.                                                          *)

LEMMA SalesSameBooked ==
  ASSUME SalesSame, NEW s PROVE Booked(booking', s) = Booked(booking, s)
  BY PlacesSame DEF SalesSame

\* The counter of s moves as its places do.
CounterMovesWithPlaces(s) ==
  stock'[s].dn - Booked(booking', s) = stock[s].dn - Booked(booking, s)

\* The commit of a booking takes its places and counts them.
LEMMA CommitTakes ==
  ASSUME TypeOK, JobsHold, NEW p \in Requests, BookCommit(p)
  PROVE  LET b == job[p].booking
             s == job[p].stock IN
         /\ s \in Stocks /\ ~Exists(booking, b) /\ Takes(booking, booking', b)
         /\ booking'[b].stock = s /\ booking'[b].quantity = job[p].row.quantity
         /\ stock'[s].quantity = stock[s].quantity
         /\ stock'[s].dn = stock[s].dn + job[p].row.quantity
         /\ \A t \in Stocks \ {s} : stock'[t] = stock[t]
  <1>. DEFINE j == job[p]
              s == job[p].stock
              row == [j.row EXCEPT !.confirmed = @ \/ stock[s].phase # "upcoming"]
  <1>1. /\ j.step = "book:commit" /\ booking' = [booking EXCEPT ![j.booking] = row]
        /\ stock' = [stock EXCEPT ![s].dn = @ + j.row.quantity] /\ JobHolds(p)
    BY DEF BookCommit, At, JobsHold
  <1>2. /\ s \in Stocks /\ j.booking \in BookingIds /\ ~Exists(booking, j.booking)
        /\ j.row \in Row /\ j.row.stock = s /\ ~j.row.cancelled
    BY <1>1 DEF JobHolds, LockSteps, BookSteps
  <1>3. /\ row \in Row /\ row.stock = s /\ ~row.cancelled
        /\ row.quantity = j.row.quantity /\ row.quantity \in 1..2
    BY <1>2 DEF Row
  <1>. HIDE DEF row
  <1>4. booking'[j.booking] = row
    BY <1>1, <1>2 DEF TypeOK
  <1>5. Takes(booking, booking', j.booking)
    BY <1>1, <1>2, <1>3, <1>4, BookingsAssumption DEF Takes, Active, Exists, TypeOK
  <1>6. /\ stock'[s].quantity = stock[s].quantity
        /\ stock'[s].dn = stock[s].dn + j.row.quantity
        /\ \A t \in Stocks \ {s} : stock'[t] = stock[t]
    BY <1>1, <1>2 DEF TypeOK, StockRow
  <1>. QED
    BY <1>2, <1>3, <1>4, <1>5, <1>6

\* A cancellation and a purge free the places of those of their bookings that
\* are still active, and count them all back.
LEMMA CancelledAgain ==
  ASSUME NEW row \in Row, row.cancelled
  PROVE  [row EXCEPT !.cancelled = TRUE] = row
  BY DEF Row

LEMMA CancellingFrees ==
  ASSUME TypeOK, JobsHold, NEW p \in Requests, CancelWrite(p) \/ PurgeWrite(p)
  PROVE  LET s == job[p].stock IN
         /\ s \in Stocks /\ lock[s] = p
         /\ \E B : /\ Frees(booking, booking', s, B)
                   /\ CancelsActive(p) => stock'[s].dn = stock[s].dn - Cardinality(PlacesOf(booking, B))
         /\ stock'[s].quantity = stock[s].quantity
         /\ \A t \in Stocks \ {s} : stock'[t] = stock[t]
  <1>. DEFINE j == job[p]
              s == job[p].stock
  <1>1. j \in Job /\ JobHolds(p)
    BY DEF TypeOK, JobsHold
  <1>2. s \in Stocks /\ lock[s] = p
    BY <1>1 DEF CancelWrite, PurgeWrite, At, JobHolds, LockSteps
  <1>3. /\ stock'[s].quantity = stock[s].quantity
        /\ \A t \in Stocks \ {s} : stock'[t] = stock[t]
    <2>1. \E n : stock' = [stock EXCEPT ![s].dn = n]
      BY DEF CancelWrite, PurgeWrite
    <2>. QED
      BY <1>2, <2>1 DEF TypeOK, StockRow
  <1>4. ASSUME CancelWrite(p)
        PROVE  \E B : /\ Frees(booking, booking', s, B)
                      /\ CancelsActive(p) => stock'[s].dn = stock[s].dn - Cardinality(PlacesOf(booking, B))
    <2>. DEFINE row == [booking[j.booking] EXCEPT !.cancelled = TRUE]
    <2>1. /\ j.step = "cancel:write" /\ booking' = [booking EXCEPT ![j.booking] = row]
          /\ stock' = [stock EXCEPT ![s].dn = @ - booking[j.booking].quantity]
      BY <1>4 DEF CancelWrite, At
    <2>2. /\ j.booking \in BookingIds /\ Exists(booking, j.booking)
          /\ booking[j.booking].stock = s
      BY <1>1, <2>1 DEF JobHolds, RowSteps
    <2>3. booking[j.booking] \in Row
      BY <2>2 DEF TypeOK, Exists
    <2>4. /\ row \in Row /\ row.cancelled /\ booking[j.booking].quantity \in 1..2
          /\ booking[j.booking].cancelled => row = booking[j.booking]
      BY <2>3, CancelledAgain DEF Row
    <2>. HIDE DEF row
    <2>5. CASE booking[j.booking].cancelled
      <3>1. Frees(booking, booking', s, {})
        BY <2>1, <2>4, <2>5 DEF Frees, TypeOK
      <3>2. ~CancelsActive(p)
        BY <2>1, <2>5 DEF CancelsActive
      <3>. QED
        BY <3>1, <3>2
    <2>6. CASE ~booking[j.booking].cancelled
      <3>1. Frees(booking, booking', s, {j.booking})
        BY <2>1, <2>2, <2>4, <2>6 DEF Frees, Active, Exists, TypeOK
      <3>2. stock'[s].dn = stock[s].dn - Cardinality(PlacesOf(booking, {j.booking}))
        <4>1. Cardinality(PlacesOf(booking, {j.booking})) = booking[j.booking].quantity
          BY <2>2, <2>4, PlacesOfOne
        <4>2. stock'[s].dn = stock[s].dn - booking[j.booking].quantity
          BY <1>2, <2>1 DEF TypeOK, StockRow
        <4>. QED
          BY <4>1, <4>2
      <3>. QED
        BY <3>1, <3>2
    <2>. QED
      BY <2>5, <2>6
  <1>5. ASSUME PurgeWrite(p)
        PROVE  \E B : /\ Frees(booking, booking', s, B)
                      /\ CancelsActive(p) => stock'[s].dn = stock[s].dn - Cardinality(PlacesOf(booking, B))
    <2>. DEFINE B == {b \in j.targets : Active(booking, b)}
    <2>1. /\ j.step = "purge:write"
          /\ booking' = [b \in BookingIds |->
               IF b \in j.targets THEN [booking[b] EXCEPT !.cancelled = TRUE] ELSE booking[b]]
          /\ stock' = [stock EXCEPT ![s].dn = @ - Cardinality(PlacesOf(booking, j.targets))]
      BY <1>5 DEF PurgeWrite, At
    <2>2. j.targets \subseteq BookingIds
      BY <1>1 DEF Job
    <2>3. \A b \in j.targets : Exists(booking, b) /\ booking[b].stock = s
      BY <1>1, <2>1 DEF JobHolds
    <2>4. ASSUME NEW b \in j.targets
          PROVE  ~Active(booking', b) /\ (booking[b].cancelled => booking'[b] = booking[b])
      <3>1. booking[b] \in Row
        BY <2>2, <2>3 DEF TypeOK, Exists
      <3>2. booking'[b] = [booking[b] EXCEPT !.cancelled = TRUE]
        BY <2>1, <2>2
      <3>3. booking'[b].cancelled
        BY <3>1, <3>2 DEF Row
      <3>. QED
        BY <3>1, <3>2, <3>3, CancelledAgain DEF Active
    <2>5. \A b \in BookingIds : b \notin j.targets => booking'[b] = booking[b]
      BY <2>1
    <2>6. \A b \in BookingIds : b \notin B => booking'[b] = booking[b]
      BY <2>3, <2>4, <2>5 DEF Active, Exists
    <2>7. Frees(booking, booking', s, B)
      BY <2>2, <2>3, <2>4, <2>6 DEF Frees
    <2>8. ASSUME CancelsActive(p) PROVE B = j.targets
      BY <2>1, <2>8 DEF CancelsActive
    <2>9. stock'[s].dn = stock[s].dn - Cardinality(PlacesOf(booking, j.targets))
      BY <1>2, <2>1 DEF TypeOK, StockRow
    <2>. QED
      BY <2>7, <2>8, <2>9
  <1>. QED
    BY <1>2, <1>3, <1>4, <1>5

\* What each of the selling steps does to the places and quantities.
LEMMA SellingEffect ==
  ASSUME TypeOK, JobsHold, NEW p \in Requests, Selling(p)
  PROVE  /\ NoCommit(p)
         /\ job[p].stock \in Stocks
         /\ \A s \in Stocks \ {job[p].stock} :
              stock'[s] = stock[s] /\ Booked(booking', s) = Booked(booking, s)
         /\ CancelsActive(p) /\ (~UncancelCommit(p) \/ ~Active(booking, job[p].booking)) =>
              CounterMovesWithPlaces(job[p].stock)
         /\ LET s == job[p].stock IN
            \/ /\ BookCommit(p) /\ stock'[s].quantity = stock[s].quantity
               /\ Booked(booking', s) = Booked(booking, s) + job[p].row.quantity
            \/ /\ lock[s] = p /\ stock'[s].quantity = stock[s].quantity
               /\ Booked(booking', s) <= Booked(booking, s)
            \/ /\ lock[s] = None
               /\ FitsIn(booking', s, stock'[s].quantity)
  <1>. DEFINE j == job[p]
              s == job[p].stock
  <1>1. j \in Job /\ JobHolds(p)
    BY DEF TypeOK, JobsHold
  <1>2. CASE BookCommit(p)
    <2>1. /\ s \in Stocks /\ Takes(booking, booking', j.booking)
          /\ booking'[j.booking].stock = s /\ booking'[j.booking].quantity = j.row.quantity
          /\ stock'[s].quantity = stock[s].quantity
          /\ stock'[s].dn = stock[s].dn + j.row.quantity
          /\ \A t \in Stocks \ {s} : stock'[t] = stock[t]
      BY <1>2, CommitTakes
    <2>2. /\ Booked(booking', s) = Booked(booking, s) + j.row.quantity
          /\ \A t \in Stocks \ {s} : Booked(booking', t) = Booked(booking, t)
      BY <2>1, PlacesTaken
    <2>3. stock[s].dn \in Int /\ j.row.quantity \in 1..2
      BY <2>1 DEF TypeOK, StockRow, Takes
    <2>4. CounterMovesWithPlaces(s)
      BY <2>1, <2>2, <2>3, BookedIsNat DEF CounterMovesWithPlaces
    <2>5. NoCommit(p)
      BY <1>2, IdleNoCommit DEF BookCommit
    <2>. QED
      BY <1>2, <2>1, <2>2, <2>4, <2>5
  <1>3. ASSUME CancelWrite(p) \/ PurgeWrite(p)
        PROVE  /\ NoCommit(p) /\ s \in Stocks /\ lock[s] = p
               /\ \A t \in Stocks \ {s} :
                    stock'[t] = stock[t] /\ Booked(booking', t) = Booked(booking, t)
               /\ stock'[s].quantity = stock[s].quantity
               /\ Booked(booking', s) <= Booked(booking, s)
               /\ CancelsActive(p) => CounterMovesWithPlaces(s)
    <2>1. /\ s \in Stocks /\ lock[s] = p
          /\ stock'[s].quantity = stock[s].quantity
          /\ \A t \in Stocks \ {s} : stock'[t] = stock[t]
      BY <1>3, CancellingFrees
    <2>2. PICK B : /\ Frees(booking, booking', s, B)
                   /\ CancelsActive(p) =>
                        stock'[s].dn = stock[s].dn - Cardinality(PlacesOf(booking, B))
      BY <1>3, CancellingFrees
    <2>3. stock[s].dn \in Int
      BY <2>1 DEF TypeOK, StockRow
    <2>4. NoCommit(p)
      <3>1. CASE CancelWrite(p)
        BY <3>1, IdleNoCommit DEF CancelWrite
      <3>2. CASE PurgeWrite(p)
        <4>. DEFINE rest == j.queue \ {s}
                    new == IF rest = {} THEN Idle ELSE Withdrawing(rest)
        <4>1. job' = [job EXCEPT ![p] = new]
          BY <3>2 DEF PurgeWrite, Become
        <4>2. new.step # "book:commit"
          BY DEF Idle, Withdrawing, Doing
        <4>. HIDE DEF new
        <4>. QED
          BY <4>1, <4>2, BecomesNoCommit
      <3>. QED
        BY <1>3, <3>1, <3>2
    <2>5. Booked(booking', s) <= Booked(booking, s)
      BY <2>2, PlacesFreed, PlacesFinite, BookedIsNat
    <2>6. \A t \in Stocks \ {s} : Booked(booking', t) = Booked(booking, t)
      BY <2>2, PlacesFreed
    <2>7. CancelsActive(p) => CounterMovesWithPlaces(s)
      BY <2>2, <2>3, PlacesFreed, PlacesFinite, BookedIsNat DEF CounterMovesWithPlaces
    <2>. QED
      BY <2>1, <2>4, <2>5, <2>6, <2>7
  <1>4. ASSUME UncancelCommit(p), ~GiveUp(p)
        PROVE  /\ NoCommit(p) /\ s \in Stocks /\ lock[s] = None
               /\ \A t \in Stocks \ {s} :
                    stock'[t] = stock[t] /\ Booked(booking', t) = Booked(booking, t)
               /\ FitsIn(booking', s, stock'[s].quantity)
               /\ ~Active(booking, j.booking) => CounterMovesWithPlaces(s)
    <2>. DEFINE b == j.booking
                row == [booking[b] EXCEPT !.cancelled = FALSE]
                new == [booking[b] EXCEPT !.cancelled = FALSE, !.used = TRUE]
                v == Uncancelled(b)
    <2>1. /\ j.step = "uncancel:lock" /\ lock[s] = None
          /\ FitsIn(v, s, stock[s].quantity)
          /\ booking' = [booking EXCEPT ![b].cancelled = FALSE, ![b].used = TRUE]
          /\ stock' = [stock EXCEPT ![s].dn = @ + booking[b].quantity]
          /\ Become(p, Idle)
      BY <1>4 DEF UncancelCommit, At
    <2>2. b \in BookingIds /\ Exists(booking, b) /\ s = booking[b].stock
      BY <1>1, <2>1 DEF JobHolds, RowSteps
    <2>3. booking[b] \in Row
      BY <2>2 DEF TypeOK, Exists
    <2>4. s \in Stocks
      BY <2>2, <2>3 DEF Row
    <2>5. booking' = [booking EXCEPT ![b] = new] /\ v = [booking EXCEPT ![b] = row]
      BY <2>1, <2>2 DEF TypeOK, Uncancelled
    <2>6. /\ new \in Row /\ ~new.cancelled /\ new.stock = s /\ new.quantity = booking[b].quantity
          /\ row \in Row /\ ~row.cancelled /\ row.stock = s /\ row.quantity = booking[b].quantity
          /\ booking[b].quantity \in 1..2
      BY <2>2, <2>3 DEF Row
    <2>. HIDE DEF new, row
    <2>7. booking'[b] = new /\ v[b] = row /\ \A c \in BookingIds \ {b} : booking'[c] = booking[c] /\ v[c] = booking[c]
      BY <2>2, <2>5 DEF TypeOK
    <2>. HIDE DEF v
    <2>8. Active(booking', b) /\ Active(v, b)
      BY <2>6, <2>7, BookingsAssumption DEF Active
    <2>9. \A t : Booked(booking', t) = Booked(v, t)
      <3>1. \A c \in BookingIds :
              /\ Active(booking', c) <=> Active(v, c)
              /\ Active(v, c) => booking'[c].stock = v[c].stock /\ booking'[c].quantity = v[c].quantity
        BY <2>6, <2>7, <2>8 DEF Active
      <3>. QED
        BY <3>1, PlacesSame
    <2>10. \A t \in Stocks \ {s} : Booked(booking', t) = Booked(booking, t)
      <3>1. CASE Active(booking, b)
        <4>1. \A c \in BookingIds :
                /\ Active(booking', c) <=> Active(booking, c)
                /\ Active(booking, c) => booking'[c].stock = booking[c].stock /\ booking'[c].quantity = booking[c].quantity
          BY <2>2, <2>6, <2>7, <2>8, <3>1 DEF Active
        <4>. QED
          BY <4>1, PlacesSame
      <3>2. CASE ~Active(booking, b)
        <4>1. Takes(booking, booking', b)
          BY <2>2, <2>6, <2>7, <2>8, <3>2 DEF Takes
        <4>. QED
          BY <2>6, <2>7, <4>1, PlacesTaken
      <3>. QED
        BY <3>1, <3>2
    <2>11. /\ stock'[s].quantity = stock[s].quantity
           /\ stock[s].dn \in Int /\ stock'[s].dn = stock[s].dn + booking[b].quantity
           /\ \A t \in Stocks \ {s} : stock'[t] = stock[t]
      BY <2>1, <2>4 DEF TypeOK, StockRow
    <2>12. FitsIn(booking', s, stock'[s].quantity)
      BY <2>1, <2>9, <2>11 DEF FitsIn
    <2>13. ASSUME ~Active(booking, b) PROVE CounterMovesWithPlaces(s)
      <3>1. Takes(booking, booking', b)
        BY <2>2, <2>6, <2>7, <2>8, <2>13 DEF Takes
      <3>2. Booked(booking', s) = Booked(booking, s) + booking[b].quantity
        BY <2>6, <2>7, <3>1, PlacesTaken
      <3>. QED
        BY <2>6, <2>11, <3>2, BookedIsNat DEF CounterMovesWithPlaces
    <2>. QED
      BY <2>1, <2>4, <2>10, <2>11, <2>12, <2>13, IdleNoCommit
  <1>5. ASSUME EditWrite(p), ~GiveUp(p)
        PROVE  /\ NoCommit(p) /\ s \in Stocks /\ lock[s] = None
               /\ \A t \in Stocks \ {s} :
                    stock'[t] = stock[t] /\ Booked(booking', t) = Booked(booking, t)
               /\ FitsIn(booking', s, stock'[s].quantity)
               /\ CounterMovesWithPlaces(s)
    <2>. DEFINE e == j.edit
                q == Written(e.quantity, stock[s].quantity)
                phase == IF e.move = "same" THEN stock[s].phase ELSE "upcoming"
                price == Written(e.price, stock[s].price)
                new == IF e.move = "same" THEN Idle ELSE [j EXCEPT !.step = "edit:redate"]
    <2>1. /\ j.step = "edit:write" /\ lock[s] = None /\ FitsIn(booking, s, q)
          /\ stock' = [stock EXCEPT ![s].quantity = q, ![s].price = price, ![s].phase = phase]
          /\ job' = [job EXCEPT ![p] = new] /\ UNCHANGED booking
      BY <1>5 DEF EditWrite, At, Become
    <2>2. s \in Stocks
      BY <1>1, <2>1 DEF JobHolds
    <2>3. new.step # "book:commit"
      BY <1>1, IdleOK DEF Job
    <2>. HIDE DEF q, phase, price, new
    <2>4. stock'[s].quantity = q /\ stock'[s].dn = stock[s].dn /\ \A t \in Stocks \ {s} : stock'[t] = stock[t]
      BY <2>1, <2>2 DEF TypeOK, StockRow
    <2>5. Booked(booking', s) = Booked(booking, s)
      BY <2>1
    <2>. QED
      BY <2>1, <2>2, <2>3, <2>4, <2>5, BecomesNoCommit DEF CounterMovesWithPlaces
  <1>. QED
    BY <1>2, <1>3, <1>4, <1>5 DEF Selling

\* What keeps a stock from being overbooked: the room found at the flush stays
\* free until the commit, since the stock is locked.
Capacity == TypeOK /\ JobsHold /\ NoOverbooking /\ RoomHeld

LEMMA CapacityInit == Init => Capacity
  <1>. SUFFICES ASSUME Init PROVE NoOverbooking /\ RoomHeld
    BY InitOK, JobsOKParts DEF Capacity
  <1>1. ASSUME NEW s \in Stocks, stock[s].quantity # Unlimited
        PROVE  Booked(booking, s) <= stock[s].quantity
    <2>1. Places(booking, s) = {}
      BY DEF Init, Places, PlacesOf, Active
    <2>2. Booked(booking, s) = 0
      BY <2>1, FS_EmptySet DEF Booked
    <2>3. stock[s].quantity \in Nat
      BY <1>1, InitOK, BookingsAssumption DEF TypeOK, StockRow
    <2>. QED
      BY <2>2, <2>3
  <1>2. RoomHeld
    BY IdleOK DEF Init, RoomHeld, At
  <1>. QED
    BY <1>1, <1>2 DEF NoOverbooking

LEMMA CapacityKeptBySameSales ==
  ASSUME Capacity, SalesSame
  PROVE  /\ NoOverbooking'
         /\ \A q \in Requests : At(q, "book:commit") /\ job'[q] = job[q] =>
              LET s == job'[q].stock IN
                stock'[s].quantity # Unlimited =>
                  Booked(booking', s) + job'[q].row.quantity <= stock'[s].quantity
  <1>1. \A s : Booked(booking', s) = Booked(booking, s)
    BY SalesSameBooked
  <1>2. NoOverbooking'
    BY <1>1 DEF NoOverbooking, SalesSame, Capacity, Booked, Places
  <1>3. ASSUME NEW q \in Requests, At(q, "book:commit") PROVE job[q].stock \in Stocks
    BY <1>3 DEF Capacity, JobsHold, JobHolds, At, LockSteps, BookSteps
  <1>. QED
    BY <1>1, <1>2, <1>3 DEF RoomHeld, SalesSame, Capacity

LEMMA FlushFindsRoom ==
  ASSUME Capacity, NEW p \in Requests, BookFlush(p), ~GiveUp(p)
  PROVE  /\ \A q \in Requests \ {p} : job'[q] = job[q]
         /\ job'[p].stock = job[p].stock /\ job'[p].row = job[p].row
         /\ UNCHANGED <<booking, stock>>
         /\ LET s == job[p].stock IN
              stock[s].quantity # Unlimited =>
                Booked(booking, s) + job[p].row.quantity <= stock[s].quantity
  <1>. DEFINE j == job[p]
              s == j.stock
              v == [booking EXCEPT ![j.booking] = j.row]
              new == [j EXCEPT !.step = "book:commit"]
  <1>1. j \in Job /\ JobHolds(p)
    BY DEF Capacity, TypeOK, JobsHold
  <1>2. /\ j.step = "book:flush" /\ FitsIn(v, s, stock[s].quantity)
        /\ job' = [job EXCEPT ![p] = new] /\ UNCHANGED <<booking, stock>>
    BY DEF BookFlush, At, Become
  <1>3. /\ s \in Stocks /\ j.booking \in BookingIds /\ ~Exists(booking, j.booking)
        /\ j.row \in Row /\ j.row.stock = s /\ ~j.row.cancelled
    BY <1>1, <1>2 DEF JobHolds, LockSteps, BookSteps
  <1>4. j.row.quantity \in 1..2
    BY <1>3 DEF Row
  <1>5. new.stock = s /\ new.row = j.row
    BY <1>1 DEF Job
  <1>6. v[j.booking] = j.row /\ \A c \in BookingIds \ {j.booking} : v[c] = booking[c]
    BY <1>3 DEF Capacity, TypeOK
  <1>. HIDE DEF v, new
  <1>7. Takes(booking, v, j.booking)
    BY <1>3, <1>4, <1>6, BookingsAssumption DEF Takes, Active, Exists
  <1>8. Booked(v, s) = Booked(booking, s) + j.row.quantity
    BY <1>3, <1>6, <1>7, PlacesTaken
  <1>. QED
    BY <1>2, <1>5, <1>8 DEF FitsIn, Capacity, TypeOK

LEMMA CapacityKeptBySelling ==
  ASSUME Capacity, NEW p \in Requests, Selling(p)
  PROVE  NoOverbooking' /\ RoomHeld'
  <1>. DEFINE s == job[p].stock
  <1>1. /\ NoCommit(p) /\ s \in Stocks
        /\ \A t \in Stocks \ {s} :
             stock'[t] = stock[t] /\ Booked(booking', t) = Booked(booking, t)
    BY SellingEffect DEF Capacity
  <1>2. /\ lock[s] = p \/ lock[s] = None
        /\ stock'[s].quantity # Unlimited => Booked(booking', s) <= stock'[s].quantity
    <2>1. CASE /\ BookCommit(p) /\ stock'[s].quantity = stock[s].quantity
               /\ Booked(booking', s) = Booked(booking, s) + job[p].row.quantity
      BY <2>1 DEF Capacity, RoomHeld, JobsHold, JobHolds, BookCommit, At, LockSteps, BookSteps
    <2>2. CASE /\ lock[s] = p /\ stock'[s].quantity = stock[s].quantity
               /\ Booked(booking', s) <= Booked(booking, s)
      <3>1. Booked(booking, s) \in Nat /\ Booked(booking', s) \in Nat
        BY BookedIsNat
      <3>2. stock[s].quantity # Unlimited =>
              stock[s].quantity \in Nat /\ Booked(booking, s) <= stock[s].quantity
        BY <1>1, BookingsAssumption DEF Capacity, NoOverbooking, TypeOK, StockRow
      <3>. QED
        BY <2>2, <3>1, <3>2
    <2>3. CASE lock[s] = None /\ FitsIn(booking', s, stock'[s].quantity)
      BY <2>3 DEF FitsIn
    <2>. QED
      BY <2>1, <2>2, <2>3, SellingEffect DEF Capacity
  <1>3. NoOverbooking'
    <2>1. ASSUME NEW t \in Stocks, stock'[t].quantity # Unlimited
          PROVE  Booked(booking', t) <= stock'[t].quantity
      BY <1>1, <1>2, <2>1 DEF Capacity, NoOverbooking
    <2>. QED
      BY <2>1 DEF NoOverbooking, Booked, Places
  <1>4. ASSUME NEW q \in Requests, job'[q].step = "book:commit",
               stock'[job'[q].stock].quantity # Unlimited
        PROVE  Booked(booking', job'[q].stock) + job'[q].row.quantity <= stock'[job'[q].stock].quantity
    <2>1. q # p /\ job'[q] = job[q]
      BY <1>1, <1>4 DEF NoCommit
    <2>2. job[q].stock \in Stocks /\ lock[job[q].stock] = q
      BY <1>4, <2>1 DEF Capacity, JobsHold, JobHolds, LockSteps, BookSteps
    <2>3. job[q].stock # s
      BY <1>2, <2>1, <2>2, BookingsAssumption
    <2>. QED
      BY <1>1, <1>4, <2>1, <2>2, <2>3 DEF Capacity, RoomHeld, At
  <1>. QED
    BY <1>3, <1>4 DEF RoomHeld, At, Booked, Places

LEMMA CapacityNext == Capacity /\ [Next]_vars => Capacity'
  <1>. SUFFICES ASSUME Capacity, [Next]_vars PROVE NoOverbooking' /\ RoomHeld'
    BY NextHolds DEF Capacity
  <1>1. CASE SalesSame /\ UNCHANGED job
    BY <1>1, CapacityKeptBySameSales DEF RoomHeld, At
  <1>2. ASSUME NEW p \in Requests, SalesSame, NoCommit(p) PROVE NoOverbooking' /\ RoomHeld'
    BY <1>2, CapacityKeptBySameSales DEF RoomHeld, At, NoCommit
  <1>3. ASSUME NEW p \in Requests, SalesSame, BookFlush(p), ~GiveUp(p)
        PROVE  NoOverbooking' /\ RoomHeld'
    <2>1. ASSUME NEW q \in Requests, job'[q].step = "book:commit",
                 stock'[job'[q].stock].quantity # Unlimited
          PROVE  Booked(booking', job'[q].stock) + job'[q].row.quantity <= stock'[job'[q].stock].quantity
      <3>1. CASE q = p
        BY <1>3, <2>1, <3>1, FlushFindsRoom
      <3>2. CASE q # p
        BY <1>3, <2>1, <3>2, FlushFindsRoom, CapacityKeptBySameSales DEF At
      <3>. QED
        BY <3>1, <3>2
    <2>. QED
      BY <1>3, <2>1, CapacityKeptBySameSales DEF RoomHeld, At
  <1>. QED
    BY <1>1, <1>2, <1>3, Effects, CapacityKeptBySelling DEF Capacity

\* No stock with a limited quantity is ever overbooked: with any number of
\* requests that book, cancel, uncancel, delete, reject and edit at the same
\* time, wait, time out, deadlock or are killed.
THEOREM NeverOverbooked == Spec => []NoOverbooking
  <1>1. Capacity => NoOverbooking
    BY DEF Capacity
  <1>. QED
    BY <1>1, CapacityInit, CapacityNext, PTL DEF Spec

-----------------------------------------------------------------------------
(* The counters.                                                            *)

LEMMA CountersInit == Init => CountersExact
  <1>. SUFFICES ASSUME Init, NEW s \in Stocks PROVE stock[s].dn = Booked(booking, s)
    BY DEF CountersExact
  <1>1. Places(booking, s) = {}
    BY DEF Init, Places, PlacesOf, Active
  <1>. QED
    BY <1>1, FS_EmptySet DEF Init, Booked

LEMMA CountersKept ==
  ASSUME \A p, q \in Admins : p = q, TypeOK, JobsOK, CountersExact, [Next]_vars
  PROVE  CountersExact'
  <1>0. JobsHold
    BY JobsOKParts
  <1>1. ASSUME SalesSame PROVE CountersExact'
    BY <1>1, SalesSameBooked DEF CountersExact, SalesSame, Booked, Places
  <1>2. ASSUME NEW p \in Requests, Selling(p) PROVE CountersExact'
    <2>. DEFINE s == job[p].stock
    <2>1. /\ s \in Stocks
          /\ \A t \in Stocks \ {s} :
               stock'[t] = stock[t] /\ Booked(booking', t) = Booked(booking, t)
      BY <1>0, <1>2, SellingEffect
    <2>2. CancelsActive(p) /\ (~UncancelCommit(p) \/ ~Active(booking, job[p].booking))
      BY DEF UncancelCommit, At, JobsOK, JobOK, JobHolds
    <2>3. CounterMovesWithPlaces(s)
      BY <1>0, <1>2, <2>2, SellingEffect
    <2>4. stock'[s].dn = Booked(booking', s)
      <3>1. stock[s].dn = Booked(booking, s) /\ stock[s].dn \in Int
        BY <2>1 DEF CountersExact, TypeOK, StockRow
      <3>2. stock'[s].dn \in Int
        BY <2>1, NextOK DEF TypeOK, StockRow
      <3>. QED
        BY <2>3, <3>1, <3>2, BookedIsNat DEF CounterMovesWithPlaces
    <2>5. \A t \in Stocks : stock'[t].dn = Booked(booking', t)
      BY <2>1, <2>4 DEF CountersExact
    <2>. QED
      BY <2>5 DEF CountersExact, Booked, Places
  <1>. QED
    BY <1>0, <1>1, <1>2, Effects

\* When the back office serves one request at a time, the counter of every
\* stock is the number of its places that are taken, in every committed state.
\* (Two of them that uncancel the same booking count it twice.)
THEOREM CountersCorrect ==
  ASSUME \A p, q \in Admins : p = q
  PROVE  Spec => []CountersExact
  <1>1. TypeOK /\ JobsOK /\ CountersExact /\ [Next]_vars => TypeOK' /\ JobsOK' /\ CountersExact'
    BY NextOK, CountersKept
  <1>. QED
    BY <1>1, InitOK, CountersInit, PTL DEF Spec
=============================================================================
