-------------------------- MODULE BookingsPromises --------------------------
(* What was checked under the lock of a stock still holds when the booking  *)
(* is committed, a paid booking is final, a withdrawn stock is emptied, and *)
(* the tables change as a box office would change them: proofs for any sets *)
(* of users, stocks and requests. The last section proves what remains of   *)
(* these beside the jobs of the clock (BookingJobs), which take no lock.    *)
EXTENDS BookingsProofs, BookingJobs

-----------------------------------------------------------------------------
(* What a step leaves alone.                                                *)

\* No row is added or removed, and the columns no request ever writes again
\* keep their values.
RowsKept == \A b \in BookingIds :
  /\ Exists(booking', b) <=> Exists(booking, b)
  /\ Exists(booking, b) =>
       /\ booking'[b].user = booking[b].user /\ booking'[b].stock = booking[b].stock
       /\ booking'[b].quantity = booking[b].quantity /\ booking'[b].code = booking[b].code

DeletedSame == \A s \in Stocks : stock'[s].deleted = stock[s].deleted

\* Between the checks of book_offer and its commit.
Granted == {"book:flush", "book:commit"}

\* Only the job of p changes, and not into a granted booking.
NotGranted(p) ==
  /\ \A q \in Requests \ {p} : job'[q] = job[q]
  /\ job'[p].step \notin Granted

LEMMA BecomesNotGranted ==
  ASSUME TypeOK, NEW p \in Requests, NEW new, job' = [job EXCEPT ![p] = new],
         new.step \notin Granted
  PROVE  NotGranted(p)
  BY DEF NotGranted, TypeOK

LEMMA IdleNotGranted ==
  ASSUME TypeOK, NEW p \in Requests, Become(p, Idle)
  PROVE  NotGranted(p)
  BY IdleOK, BecomesNotGranted DEF Become, Granted

LEMMA UnchangedKept ==
  /\ UNCHANGED booking => RowsKept
  /\ UNCHANGED stock => DeletedSame
  BY DEF RowsKept, DeletedSame

\* One row is rewritten but for the columns that stay.
LEMMA RowRewritten ==
  ASSUME TypeOK, NEW b \in BookingIds, booking[b] \in Row, NEW row \in Row,
         booking' = [booking EXCEPT ![b] = row],
         row.user = booking[b].user, row.stock = booking[b].stock,
         row.quantity = booking[b].quantity, row.code = booking[b].code
  PROVE  RowsKept
  BY BookingsAssumption DEF RowsKept, Exists, TypeOK

LEMMA GiveUpKeeps ==
  ASSUME TypeOK, NEW p \in Requests, GiveUp(p)
  PROVE  RowsKept /\ DeletedSame /\ NotGranted(p)
  BY UnchangedKept, IdleNotGranted DEF GiveUp

LEMMA ArrivalKeeps ==
  ASSUME TypeOK, NEW p \in Requests, Arrival(p)
  PROVE  /\ RowsKept /\ NotGranted(p)
         /\ DeletedSame \/ \E s \in Stocks : DeleteStock(p, s)
  <1>1. UNCHANGED booking
    BY DEF Arrival, BookLock, CancelRequest, UseLoad, UncancelLoad, UnuseLoad, DeleteStock, RejectOffer, EditLoad
  <1>2. DeletedSame \/ \E s \in Stocks : DeleteStock(p, s)
    <2>1. CASE UNCHANGED stock
      BY <2>1, UnchangedKept
    <2>2. ASSUME NEW t \in Stocks, RejectOffer(p, t) PROVE DeletedSame
      BY <2>2 DEF DeletedSame, RejectOffer, OfferBecomes, TypeOK, StockRow
    <2>. QED
      BY <2>1, <2>2 DEF Arrival, BookLock, CancelRequest, UseLoad, UncancelLoad, UnuseLoad, EditLoad
  <1>3. ASSUME NEW new, Begin(p, new), new.step \notin Granted PROVE NotGranted(p)
    BY <1>3, BecomesNotGranted DEF Begin
  <1>4. /\ \A step, s, b, row : Doing(step, s, b, row).step = step
        /\ \A S : Withdrawing(S).step = "purge:lock"
        /\ \A s, e : [Doing("edit:write", s, None, None) EXCEPT !.edit = e].step = "edit:write"
    BY DEF Doing, Withdrawing
  <1>5. \E new : Begin(p, new) /\ new.step \notin Granted
    <2>1. CASE \E u \in Users, s \in Stocks, q \in 1..2 : BookLock(p, u, s, q)
      BY <1>4, <2>1 DEF BookLock, Granted
    <2>2. CASE \E b \in BookingIds : CancelRequest(p, b) \/ UseLoad(p, b) \/ UncancelLoad(p, b) \/ UnuseLoad(p, b)
      BY <1>4, <2>2 DEF CancelRequest, UseLoad, UncancelLoad, UnuseLoad, Granted
    <2>3. CASE \E s \in Stocks : DeleteStock(p, s) \/ RejectOffer(p, s)
      BY <1>4, <2>3 DEF DeleteStock, RejectOffer, Granted
    <2>4. CASE \E s \in Stocks, q \in Quantities \union {Unlimited}, price \in Prices,
                  move \in {"same", "near", "far"} : EditLoad(p, s, q, price, move)
      BY <1>4, <2>4 DEF EditLoad, Granted
    <2>. QED
      BY <2>1, <2>2, <2>3, <2>4 DEF Arrival
  <1>. QED
    BY <1>1, <1>2, <1>3, <1>5, UnchangedKept

LEMMA StepKeeps ==
  ASSUME TypeOK, JobsHold, NEW p \in Requests, Proceed(p) \/ TakeLock(p)
  PROVE  /\ DeletedSame
         /\ RowsKept \/ BookCommit(p)
         /\ NotGranted(p) \/ (~GiveUp(p) /\ (BookCheck(p) \/ BookFlush(p)))
  <1>. DEFINE j == job[p]
              s == job[p].stock
  <1>1. j \in Job /\ JobHolds(p)
    BY DEF TypeOK, JobsHold
  <1>2. CASE GiveUp(p)
    BY <1>2, GiveUpKeeps
  <1>3. CASE ~GiveUp(p) /\ (BookCheck(p) \/ BookFlush(p))
    BY <1>3, UnchangedKept DEF BookCheck, BookFlush
  <1>4. CASE BookCommit(p)
    <2>1. /\ s \in Stocks /\ stock' = [stock EXCEPT ![s].dn = @ + j.row.quantity]
          /\ Become(p, Idle)
      BY <1>1, <1>4 DEF BookCommit, At, JobHolds, LockSteps, BookSteps
    <2>. QED
      BY <1>4, <2>1, IdleNotGranted DEF DeletedSame, TypeOK, StockRow
  <1>5. ASSUME ~GiveUp(p), CancelLock(p) \/ UncancelFlush(p) \/ \E t \in Stocks : PurgeLock(p, t)
        PROVE  RowsKept /\ DeletedSame /\ NotGranted(p)
    <2>1. UNCHANGED <<booking, stock>>
      BY <1>5 DEF CancelLock, UncancelFlush, PurgeLock
    <2>2. CASE CancelLock(p) \/ UncancelFlush(p)
      <3>1. PICK step \in {"cancel:write", "uncancel:lock"} :
               job' = [job EXCEPT ![p] = [j EXCEPT !.step = step]]
        BY <1>5, <2>2 DEF CancelLock, UncancelFlush, Become
      <3>2. [j EXCEPT !.step = step].step = step
        BY <1>1 DEF Job
      <3>. QED
        BY <2>1, <3>1, <3>2, BecomesNotGranted, UnchangedKept DEF Granted
    <2>3. CASE \E t \in Stocks : PurgeLock(p, t)
      <3>1. PICK t, T : job' = [job EXCEPT ![p] = [j EXCEPT !.step = "purge:write", !.stock = t, !.targets = T]]
        BY <2>3 DEF PurgeLock, Become
      <3>2. [j EXCEPT !.step = "purge:write", !.stock = t, !.targets = T].step = "purge:write"
        BY <1>1 DEF Job
      <3>. QED
        BY <2>1, <3>1, <3>2, BecomesNotGranted, UnchangedKept DEF Granted
    <2>. QED
      BY <1>5, <2>2, <2>3
  <1>6. ASSUME CancelWrite(p) PROVE RowsKept /\ DeletedSame /\ NotGranted(p)
    <2>. DEFINE row == [booking[j.booking] EXCEPT !.cancelled = TRUE]
    <2>1. /\ s \in Stocks /\ j.booking \in BookingIds /\ Exists(booking, j.booking)
      BY <1>1, <1>6 DEF CancelWrite, At, JobHolds, LockSteps, RowSteps
    <2>2. /\ booking' = [booking EXCEPT ![j.booking] = row] /\ Become(p, Idle)
          /\ stock' = [stock EXCEPT ![s].dn = @ - booking[j.booking].quantity]
      BY <1>6 DEF CancelWrite
    <2>3. booking[j.booking] \in Row
      BY <2>1 DEF TypeOK, Exists
    <2>4. /\ row \in Row /\ row.user = booking[j.booking].user /\ row.stock = booking[j.booking].stock
          /\ row.quantity = booking[j.booking].quantity /\ row.code = booking[j.booking].code
      BY <2>3 DEF Row
    <2>. HIDE DEF row
    <2>5. RowsKept
      BY <2>1, <2>2, <2>3, <2>4, RowRewritten
    <2>6. DeletedSame
      BY <2>1, <2>2 DEF DeletedSame, TypeOK, StockRow
    <2>. QED
      BY <2>2, <2>5, <2>6, IdleNotGranted
  <1>7. ASSUME PurgeWrite(p) PROVE RowsKept /\ DeletedSame /\ NotGranted(p)
    <2>. DEFINE rest == j.queue \ {s}
                new == IF rest = {} THEN Idle ELSE Withdrawing(rest)
                fewer == Cardinality(PlacesOf(booking, j.targets))
    <2>1. s \in Stocks /\ j.targets \subseteq BookingIds /\ \A b \in j.targets : Exists(booking, b)
      BY <1>1, <1>7 DEF PurgeWrite, At, JobHolds, LockSteps, Job
    <2>2. /\ booking' = [b \in BookingIds |->
               IF b \in j.targets THEN [booking[b] EXCEPT !.cancelled = TRUE] ELSE booking[b]]
          /\ stock' = [stock EXCEPT ![s].dn = @ - fewer]
          /\ job' = [job EXCEPT ![p] = new]
      BY <1>7 DEF PurgeWrite, Become
    <2>3. ASSUME NEW b \in j.targets
          PROVE  /\ Exists(booking', b) /\ Exists(booking, b)
                 /\ booking'[b].user = booking[b].user /\ booking'[b].stock = booking[b].stock
                 /\ booking'[b].quantity = booking[b].quantity /\ booking'[b].code = booking[b].code
      <3>1. booking[b] \in Row
        BY <2>1 DEF TypeOK, Exists
      <3>2. booking'[b] = [booking[b] EXCEPT !.cancelled = TRUE]
        BY <2>1, <2>2
      <3>3. booking'[b] \in Row
        BY <3>1, <3>2 DEF Row
      <3>. QED
        BY <3>1, <3>2, <3>3, BookingsAssumption DEF Row, Exists
    <2>4. \A b \in BookingIds \ j.targets : booking'[b] = booking[b]
      BY <2>2
    <2>5. RowsKept
      BY <2>3, <2>4 DEF RowsKept, Exists
    <2>6. new.step \notin Granted
      BY DEF Idle, Withdrawing, Doing, Granted
    <2>. HIDE DEF new, fewer
    <2>7. NotGranted(p)
      BY <2>2, <2>6, BecomesNotGranted
    <2>8. DeletedSame
      BY <2>1, <2>2 DEF DeletedSame, TypeOK, StockRow
    <2>. QED
      BY <2>5, <2>7, <2>8
  <1>8. ASSUME UseWrite(p) \/ UnuseWrite(p) PROVE RowsKept /\ DeletedSame /\ NotGranted(p)
    <2>1. Become(p, Idle) /\ UNCHANGED stock
      BY <1>8 DEF UseWrite, UnuseWrite
    <2>2. j.booking \in BookingIds /\ booking[j.booking] \in Row
      BY <1>1, <1>8 DEF UseWrite, UnuseWrite, At, JobHolds, TypeOK, Exists
    <2>3. \/ UNCHANGED booking
          \/ \E used \in BOOLEAN : booking' = [booking EXCEPT ![j.booking].used = used]
      BY <1>8 DEF UseWrite, UnuseWrite
    <2>4. ASSUME NEW used \in BOOLEAN, booking' = [booking EXCEPT ![j.booking].used = used]
          PROVE  RowsKept
      <3>. DEFINE row == [booking[j.booking] EXCEPT !.used = used]
      <3>1. /\ row \in Row /\ row.user = booking[j.booking].user /\ row.stock = booking[j.booking].stock
            /\ row.quantity = booking[j.booking].quantity /\ row.code = booking[j.booking].code
        BY <2>2 DEF Row
      <3>2. booking' = [booking EXCEPT ![j.booking] = row]
        BY <2>4
      <3>. HIDE DEF row
      <3>. QED
        BY <2>2, <3>1, <3>2, RowRewritten
    <2>. QED
      BY <2>1, <2>3, <2>4, IdleNotGranted, UnchangedKept
  <1>9. ASSUME UncancelCommit(p), ~GiveUp(p) PROVE RowsKept /\ DeletedSame /\ NotGranted(p)
    <2>. DEFINE b == j.booking
                new == [booking[b] EXCEPT !.cancelled = FALSE, !.used = TRUE]
    <2>1. /\ booking' = [booking EXCEPT ![b].cancelled = FALSE, ![b].used = TRUE]
          /\ stock' = [stock EXCEPT ![s].dn = @ + booking[b].quantity]
          /\ Become(p, Idle) /\ j.step = "uncancel:lock"
      BY <1>9 DEF UncancelCommit, At
    <2>2. b \in BookingIds /\ Exists(booking, b) /\ s = booking[b].stock
      BY <1>1, <2>1 DEF JobHolds, RowSteps
    <2>3. booking[b] \in Row /\ s \in Stocks
      BY <2>2 DEF TypeOK, Exists, Row
    <2>4. booking' = [booking EXCEPT ![b] = new]
      BY <2>1, <2>2 DEF TypeOK
    <2>5. /\ new \in Row /\ new.user = booking[b].user /\ new.stock = booking[b].stock
          /\ new.quantity = booking[b].quantity /\ new.code = booking[b].code
      BY <2>3 DEF Row
    <2>. HIDE DEF new
    <2>6. RowsKept
      BY <2>2, <2>3, <2>4, <2>5, RowRewritten
    <2>7. DeletedSame
      BY <2>1, <2>3 DEF DeletedSame, TypeOK, StockRow
    <2>. QED
      BY <2>1, <2>6, <2>7, IdleNotGranted
  <1>10. ASSUME EditWrite(p), ~GiveUp(p) PROVE RowsKept /\ DeletedSame /\ NotGranted(p)
    <2>. DEFINE e == j.edit
                q == Written(e.quantity, stock[s].quantity)
                phase == IF e.move = "same" THEN stock[s].phase ELSE "upcoming"
                price == Written(e.price, stock[s].price)
                new == IF e.move = "same" THEN Idle ELSE [j EXCEPT !.step = "edit:redate"]
    <2>1. /\ j.step = "edit:write"
          /\ stock' = [stock EXCEPT ![s].quantity = q, ![s].price = price, ![s].phase = phase]
          /\ job' = [job EXCEPT ![p] = new] /\ UNCHANGED booking
      BY <1>10 DEF EditWrite, At, Become
    <2>2. s \in Stocks
      BY <1>1, <2>1 DEF JobHolds
    <2>3. new.step \notin Granted
      BY <1>1, IdleOK DEF Job, Granted
    <2>. HIDE DEF q, phase, price, new
    <2>4. DeletedSame
      BY <2>1, <2>2 DEF DeletedSame, TypeOK, StockRow
    <2>. QED
      BY <2>1, <2>3, <2>4, BecomesNotGranted, UnchangedKept
  <1>11. ASSUME EditRedate(p) PROVE RowsKept /\ DeletedSame /\ NotGranted(p)
    <2>. DEFINE near == j.edit.move = "near"
                moved == {b \in BookingIds : Active(booking, b) /\ booking[b].stock = s}
                new == IF near \/ moved = {} THEN Idle
                       ELSE [j EXCEPT !.step = "edit:unuse", !.targets = moved]
    <2>1. /\ booking' = [b \in BookingIds |->
               IF b \in moved THEN [booking[b] EXCEPT !.confirmed = near] ELSE booking[b]]
          /\ job' = [job EXCEPT ![p] = new] /\ UNCHANGED stock
      BY <1>11 DEF EditRedate, Become
    <2>2. ASSUME NEW b \in moved
          PROVE  /\ Exists(booking', b) /\ Exists(booking, b)
                 /\ booking'[b].user = booking[b].user /\ booking'[b].stock = booking[b].stock
                 /\ booking'[b].quantity = booking[b].quantity /\ booking'[b].code = booking[b].code
      <3>1. booking[b] \in Row
        BY DEF Active, TypeOK
      <3>2. booking'[b] = [booking[b] EXCEPT !.confirmed = near]
        BY <2>1
      <3>3. near \in BOOLEAN
        OBVIOUS
      <3>. HIDE DEF near, moved
      <3>4. booking'[b] \in Row
        BY <3>1, <3>2, <3>3 DEF Row
      <3>. QED
        BY <3>1, <3>2, <3>4, BookingsAssumption DEF Row, Exists
    <2>3. \A b \in BookingIds \ moved : booking'[b] = booking[b]
      BY <2>1
    <2>4. new.step \notin Granted
      <3>. HIDE DEF near, moved
      <3>. QED
        BY <1>1, IdleOK DEF Job, Granted
    <2>5. RowsKept
      BY <2>2, <2>3 DEF RowsKept, Exists
    <2>. QED
      BY <2>1, <2>4, <2>5, BecomesNotGranted, UnchangedKept
  <1>12. ASSUME NEW b \in BookingIds, ~GiveUp(p), UnuseStep(p, b)
         PROVE  RowsKept /\ DeletedSame /\ NotGranted(p)
    <2>1. /\ UNCHANGED stock /\ Exists(booking, b) /\ booking[b] \in Row
          /\ \E row \in Row :
               /\ booking' = [booking EXCEPT ![b] = row]
               /\ row.user = booking[b].user /\ row.stock = booking[b].stock
               /\ row.quantity = booking[b].quantity /\ row.code = booking[b].code
      BY <1>12, UnuseDoes DEF TypeOK, Exists
    <2>2. PICK new \in Job :
             job' = [job EXCEPT ![p] = new] /\ new.step \in {"idle", "edit:unuse", "edit:commit"}
      BY <1>12, UnuseDoes
    <2>3. RowsKept
      BY <2>1, RowRewritten
    <2>4. new.step \notin Granted
      BY <2>2 DEF Granted
    <2>. QED
      BY <2>1, <2>2, <2>3, <2>4, BecomesNotGranted, UnchangedKept
  <1>. QED
    BY <1>2, <1>3, <1>4, <1>5, <1>6, <1>7, <1>8, <1>9, <1>10, <1>11, <1>12, CommitUnuses
    DEF Proceed, TakeLock, UnuseStep

LEMMA AroundKeeps ==
  ASSUME TypeOK, Around
  PROVE  RowsKept /\ DeletedSame /\ UNCHANGED <<job, lock>>
  <1>1. UNCHANGED <<job, lock>>
    BY DEF Around, Paying, FindPayable, PaymentsCreated, PaymentsLost, FoundBecome,
            ConfirmationDatePasses, OfferChanges, EventProgresses
  <1>2. ASSUME NEW b \in BookingIds, ConfirmationDatePasses(b) PROVE RowsKept /\ DeletedSame
    <2>. DEFINE row == [booking[b] EXCEPT !.confirmed = TRUE]
    <2>1. booking[b] \in Row /\ booking' = [booking EXCEPT ![b] = row] /\ UNCHANGED stock
      BY <1>2 DEF ConfirmationDatePasses, TypeOK, Exists
    <2>2. /\ row \in Row /\ row.user = booking[b].user /\ row.stock = booking[b].stock
          /\ row.quantity = booking[b].quantity /\ row.code = booking[b].code
      BY <2>1 DEF Row
    <2>. HIDE DEF row
    <2>. QED
      BY <2>1, <2>2, RowRewritten, UnchangedKept
  <1>3. ASSUME NEW s \in Stocks, OfferChanges(s) \/ EventProgresses(s) PROVE RowsKept /\ DeletedSame
    <2>1. \A t \in Stocks : stock'[t].deleted = stock[t].deleted
      <3>1. CASE OfferChanges(s)
        BY <3>1 DEF OfferChanges, OfferBecomes, TypeOK, StockRow
      <3>2. CASE EventProgresses(s)
        BY <3>2 DEF EventProgresses, TypeOK, StockRow
      <3>. QED
        BY <1>3, <3>1, <3>2
    <2>. QED
      BY <1>3, <2>1, UnchangedKept DEF OfferChanges, EventProgresses, DeletedSame
  <1>4. ASSUME Paying PROVE RowsKept /\ DeletedSame
    BY <1>4, UnchangedKept DEF Paying, FindPayable, PaymentsCreated, PaymentsLost, FoundBecome
  <1>. QED
    BY <1>1, <1>2, <1>3, <1>4 DEF Around

\* Rows appear at the commit of a booking only, a stock is deleted only while
\* nobody has it locked, and a request is granted a booking only by its checks.
LEMMA Keeps ==
  ASSUME TypeOK, JobsHold, [Next]_vars
  PROVE  /\ RowsKept \/ \E p \in Requests : BookCommit(p)
         /\ DeletedSame \/ \E p \in Requests, s \in Stocks : DeleteStock(p, s)
         /\ \A q \in Requests : job'[q].step \in Granted =>
              job'[q] = job[q] \/ (~GiveUp(q) /\ (BookCheck(q) \/ BookFlush(q)))
  <1>1. CASE UNCHANGED vars
    BY <1>1, UnchangedKept DEF vars
  <1>2. ASSUME NEW p \in Requests, NEW q \in Requests, Deadlock(p, q)
        PROVE  RowsKept /\ DeletedSame /\ \E r \in Requests : NotGranted(r)
    BY <1>2, GiveUpKeeps DEF Deadlock
  <1>3. ASSUME NEW p \in Requests, LockTimeout(p) \/ Crash(p)
        PROVE  RowsKept /\ DeletedSame /\ NotGranted(p)
    BY <1>3, GiveUpKeeps DEF LockTimeout, Crash
  <1>4. ASSUME NEW p \in Requests, NotGranted(p), NEW q \in Requests, job'[q].step \in Granted
        PROVE  job'[q] = job[q]
    BY <1>4 DEF NotGranted
  <1>5. ASSUME NEW p \in Requests, ~GiveUp(p), BookCheck(p) \/ BookFlush(p), NEW q \in Requests
        PROVE  job'[q] = job[q] \/ (~GiveUp(q) /\ (BookCheck(q) \/ BookFlush(q)))
    <2>1. q # p => job'[q] = job[q]
      BY <1>5 DEF BookCheck, BookFlush, Become, TypeOK
    <2>. QED
      BY <1>5, <2>1
  <1>. QED
    BY <1>1, <1>2, <1>3, <1>4, <1>5, ArrivalKeeps, StepKeeps, AroundKeeps DEF Next

-----------------------------------------------------------------------------
(* What was checked still holds at the commit.                              *)

LEMMA CommitAdds ==
  ASSUME TypeOK, JobsHold, NEW p \in Requests, BookCommit(p)
  PROVE  LET b == job[p].booking
             s == job[p].stock IN
         /\ job[p].step = "book:commit" /\ job'[p] = Idle
         /\ s \in Stocks /\ lock[s] = p
         /\ b \in BookingIds /\ ~Exists(booking, b) /\ job[p].row \in Row
         /\ booking'[b] \in Row /\ booking'[b].user = job[p].row.user
         /\ booking'[b].stock = s /\ booking'[b].code = job[p].row.code
         /\ \A c \in BookingIds \ {b} : booking'[c] = booking[c]
  <1>. DEFINE j == job[p]
              s == job[p].stock
              row == [j.row EXCEPT !.confirmed = @ \/ stock[s].phase # "upcoming"]
  <1>1. JobHolds(p)
    BY DEF JobsHold
  <1>2. /\ j.step = "book:commit" /\ booking' = [booking EXCEPT ![j.booking] = row]
        /\ job'[p] = Idle
    BY DEF BookCommit, At, Become, TypeOK
  <1>3. /\ s \in Stocks /\ lock[s] = p /\ j.booking \in BookingIds /\ ~Exists(booking, j.booking)
        /\ j.row \in Row /\ j.row.stock = s
    BY <1>1, <1>2 DEF JobHolds, LockSteps, BookSteps
  <1>4. /\ row \in Row /\ row.user = j.row.user /\ row.stock = s /\ row.code = j.row.code
    BY <1>3 DEF Row
  <1>. HIDE DEF row
  <1>. QED
    BY <1>2, <1>3, <1>4 DEF TypeOK

\* A booking becomes active by its commit, or when it is uncancelled while
\* nobody has its stock locked.
LEMMA NewlyActive ==
  ASSUME TypeOK, JobsHold, [Next]_vars, NEW b \in BookingIds,
         Active(booking', b), ~Active(booking, b)
  PROVE  \/ \E p \in Requests : BookCommit(p) /\ job[p].booking = b
         \/ /\ Exists(booking, b) /\ lock[booking[b].stock] = None
            /\ \E p \in Requests : UncancelCommit(p) /\ ~GiveUp(p) /\ job[p].booking = b
  <1>1. PICK p \in Requests : Selling(p)
    BY Effects DEF SalesSame
  <1>2. job[p] \in Job /\ JobHolds(p)
    BY DEF TypeOK, JobsHold
  <1>3. CASE BookCommit(p)
    BY <1>3, CommitAdds DEF Active
  <1>4. ~CancelWrite(p)
    <2>. SUFFICES ASSUME CancelWrite(p) PROVE FALSE
      OBVIOUS
    <2>. DEFINE row == [booking[job[p].booking] EXCEPT !.cancelled = TRUE]
    <2>1. booking' = [booking EXCEPT ![job[p].booking] = row]
      BY DEF CancelWrite
    <2>2. b = job[p].booking
      BY <2>1 DEF Active, TypeOK
    <2>3. Exists(booking, b) /\ booking[b] \in Row
      BY <1>2, <2>2 DEF CancelWrite, At, JobHolds, RowSteps, TypeOK, Exists
    <2>4. row.cancelled
      BY <2>2, <2>3 DEF Row
    <2>. QED
      BY <2>1, <2>2, <2>4 DEF Active, TypeOK
  <1>5. ~PurgeWrite(p)
    <2>. SUFFICES ASSUME PurgeWrite(p) PROVE FALSE
      OBVIOUS
    <2>1. booking'[b] = IF b \in job[p].targets THEN [booking[b] EXCEPT !.cancelled = TRUE] ELSE booking[b]
      BY DEF PurgeWrite
    <2>2. CASE b \notin job[p].targets
      BY <2>1, <2>2 DEF Active
    <2>3. CASE b \in job[p].targets
      <3>1. booking[b] \in Row
        BY <1>2, <2>3 DEF JobHolds, TypeOK, Exists
      <3>2. booking'[b].cancelled
        BY <2>1, <2>3, <3>1 DEF Row
      <3>. QED
        BY <3>2 DEF Active
    <2>. QED
      BY <2>2, <2>3
  <1>6. ~(EditWrite(p) /\ ~GiveUp(p))
    BY DEF EditWrite, Active
  <1>7. CASE UncancelCommit(p) /\ ~GiveUp(p)
    <2>1. /\ job[p].step = "uncancel:lock" /\ lock[job[p].stock] = None
          /\ booking' = [booking EXCEPT ![job[p].booking].cancelled = FALSE, ![job[p].booking].used = TRUE]
      BY <1>7 DEF UncancelCommit, At
    <2>2. job[p].booking = b
      BY <2>1 DEF Active, TypeOK
    <2>. QED
      BY <1>2, <1>7, <2>1, <2>2 DEF JobHolds, RowSteps
  <1>. QED
    BY <1>1, <1>3, <1>4, <1>5, <1>6, <1>7 DEF Selling

\* The stock of a granted booking is not deleted, its user has no other booking
\* there, and its code has been given to nobody.
Held(p) == job[p].step \in Granted => LET row == job[p].row IN
  /\ ~stock[job[p].stock].deleted
  /\ ActiveOn(booking, row.user, {job[p].stock}) = {}
  /\ row.code # None =>
       /\ row.code \in CodesOf[job[p].stock]
       /\ \A b \in BookingIds : Exists(booking, b) => booking[b].code # row.code

CodesOwned == \A b \in BookingIds :
  Exists(booking, b) /\ booking[b].code # None => booking[b].code \in CodesOf[booking[b].stock]

Promised ==
  /\ TypeOK /\ JobsHold
  /\ \A p \in Requests : Held(p)
  /\ CodesOwned /\ CodesGivenOnce

LEMMA PromisedInit == Init => Promised
  <1>. SUFFICES ASSUME Init PROVE Promised
    OBVIOUS
  <1>1. \A p \in Requests : Held(p)
    BY IdleOK DEF Init, Held, Granted
  <1>2. CodesOwned /\ CodesGivenOnce
    BY DEF Init, CodesOwned, CodesGivenOnce, Exists
  <1>. QED
    BY <1>1, <1>2, InitOK, JobsOKParts DEF Promised

LEMMA ChecksGrant ==
  ASSUME Promised, NEW p \in Requests, BookCheck(p), ~GiveUp(p)
  PROVE  Held(p)'
  <1>. DEFINE j == job[p]
              s == j.stock
  <1>1. j \in Job /\ JobHolds(p) /\ j.step = "book:check"
    BY DEF Promised, TypeOK, JobsHold, BookCheck, At
  <1>2. s \in Stocks /\ j.row \in Row /\ j.row.stock = s
    BY <1>1 DEF JobHolds, LockSteps, BookSteps
  <1>3. /\ MayBook(j.row) /\ UNCHANGED <<booking, stock>>
    BY DEF BookCheck
  <1>4. PICK c \in (IF CodesOf[s] = {} THEN {None} ELSE FreeCodes(s)), confirmed \in BOOLEAN :
          job' = [job EXCEPT ![p] = [j EXCEPT !.step = "book:flush", !.row = Issued(@, c, confirmed)]]
    <2>1. \E c \in (IF CodesOf[s] = {} THEN {None} ELSE FreeCodes(s)),
              confirmed \in (IF s \in Events THEN BOOLEAN ELSE {FALSE}) :
            job' = [job EXCEPT ![p] = [j EXCEPT !.step = "book:flush", !.row = Issued(@, c, confirmed)]]
      BY DEF BookCheck, Become
    <2>. QED
      BY <2>1
  <1>. DEFINE row == Issued(j.row, c, confirmed)
              new == [j EXCEPT !.step = "book:flush", !.row = row]
  <1>5. row.user = j.row.user /\ row.code = c
    BY <1>2 DEF Issued, Row
  <1>. HIDE DEF row
  <1>6. new.row = row /\ new.stock = s /\ new.step = "book:flush"
    BY <1>1 DEF Job
  <1>7. job'[p] = new
    BY <1>4 DEF Promised, TypeOK, row
  <1>. HIDE DEF new
  <1>8. ~stock'[s].deleted
    BY <1>2, <1>3 DEF MayBook, IsBookable, IsSoldOut
  <1>9. ActiveOn(booking', row.user, {s}) = {}
    <2>1. s \in SameOffer(s)
      BY <1>2 DEF SameOffer
    <2>2. ActiveOn(booking, j.row.user, SameOffer(s)) = {}
      BY <1>2, <1>3 DEF MayBook
    <2>3. ActiveOn(booking, j.row.user, {s}) \subseteq ActiveOn(booking, j.row.user, SameOffer(s))
      BY <2>1 DEF ActiveOn
    <2>. QED
      BY <1>3, <1>5, <2>2, <2>3
  <1>10. c # None => c \in CodesOf[s] /\ \A b \in BookingIds : Exists(booking', b) => booking'[b].code # c
    BY <1>3, <1>4 DEF FreeCodes
  <1>. QED
    BY <1>5, <1>6, <1>7, <1>8, <1>9, <1>10 DEF Held, ActiveOn, Active, Exists

\* The lock protects what was checked from every other request.
LEMMA OthersCannotSpoil ==
  ASSUME Promised, [Next]_vars, NEW q \in Requests, job'[q].step \in Granted,
         job[q].step \in Granted, job'[q].stock = job[q].stock, job'[q].row = job[q].row
  PROVE  Held(q)'
  <1>. DEFINE s == job[q].stock
              row == job[q].row
  <1>1. /\ TypeOK /\ JobsHold /\ Held(q) /\ JobHolds(q) /\ s \in Stocks /\ lock[s] = q
        /\ q # None
    BY BookingsAssumption DEF Promised, JobsHold, JobHolds, Granted, LockSteps, BookSteps
  <1>2. ASSUME NEW p \in Requests, BookCommit(p) PROVE p # q /\ job[p].stock # s
    <2>1. p # q
      BY <1>1, <1>2, CommitAdds, IdleOK DEF Granted
    <2>. QED
      BY <1>1, <1>2, <2>1, CommitAdds
  <1>3. ~stock'[s].deleted
    <2>1. CASE DeletedSame
      BY <1>1, <2>1 DEF Held, DeletedSame
    <2>2. ASSUME NEW p \in Requests, NEW t \in Stocks, DeleteStock(p, t) PROVE <1>3
      BY <1>1, <2>2 DEF Held, DeleteStock, TypeOK, StockRow
    <2>. QED
      BY <1>1, <2>1, <2>2, Keeps
  <1>4. ASSUME NEW b \in BookingIds, Active(booking', b), booking'[b].user = row.user, booking'[b].stock = s
        PROVE  FALSE
    <2>1. ASSUME NEW p \in Requests, BookCommit(p) PROVE job[p].booking # b /\ booking'[b] = booking[b]
      BY <1>1, <1>2, <1>4, <2>1, CommitAdds
    <2>2. Exists(booking, b) /\ booking[b].user = row.user /\ booking[b].stock = s
      BY <1>1, <1>4, <2>1, Keeps DEF RowsKept, Active, Exists
    <2>3. Active(booking, b)
      BY <1>1, <1>4, <2>1, <2>2, NewlyActive
    <2>. QED
      BY <1>1, <2>2, <2>3 DEF Held, ActiveOn
  <1>5. ASSUME row.code # None, NEW b \in BookingIds, Exists(booking', b) PROVE booking'[b].code # row.code
    <2>1. row.code \in CodesOf[s] /\ (Exists(booking, b) => booking[b].code # row.code)
      BY <1>1, <1>5 DEF Held
    <2>2. ASSUME NEW p \in Requests, BookCommit(p)
          PROVE  booking'[b].code # row.code
      <3>1. CASE b # job[p].booking
        BY <1>1, <1>5, <2>1, <2>2, <3>1, CommitAdds DEF Exists
      <3>2. CASE b = job[p].booking
        <4>1. Held(p) /\ job[p].step \in Granted /\ job[p].stock \in Stocks /\ booking'[b].code = job[p].row.code
          BY <1>1, <2>2, <3>2, CommitAdds DEF Promised, Granted
        <4>2. booking'[b].code # None => booking'[b].code \in CodesOf[job[p].stock]
          BY <4>1 DEF Held
        <4>. QED
          BY <1>1, <1>2, <1>5, <2>1, <2>2, <4>1, <4>2, BookingsAssumption
      <3>. QED
        BY <3>1, <3>2
    <2>. QED
      BY <1>1, <1>5, <2>1, <2>2, Keeps DEF RowsKept
  <1>6. ActiveOn(booking', row.user, {s}) = {}
    BY <1>4 DEF ActiveOn
  <1>. QED
    BY <1>1, <1>3, <1>5, <1>6 DEF Held, ActiveOn, Active, Exists

LEMMA PromisedNext == Promised /\ [Next]_vars => Promised'
  <1>. SUFFICES ASSUME Promised, [Next]_vars PROVE Promised'
    OBVIOUS
  <1>1. TypeOK /\ JobsHold /\ TypeOK' /\ JobsHold'
    BY NextHolds DEF Promised
  <1>2. ASSUME NEW q \in Requests PROVE Held(q)'
    <2>1. CASE job'[q].step \notin Granted
      BY <2>1 DEF Held
    <2>2. CASE job'[q].step \in Granted /\ job'[q] = job[q]
      BY <2>2, OthersCannotSpoil
    <2>3. CASE job'[q].step \in Granted /\ ~GiveUp(q) /\ BookCheck(q)
      BY <2>3, ChecksGrant
    <2>4. CASE job'[q].step \in Granted /\ ~GiveUp(q) /\ BookFlush(q)
      <3>1. job[q].step = "book:flush"
        BY <2>4 DEF BookFlush, At
      <3>2. job'[q] = [job[q] EXCEPT !.step = "book:commit"] /\ job[q] \in Job
        BY <1>1, <2>4 DEF BookFlush, Become, TypeOK
      <3>3. job'[q].stock = job[q].stock /\ job'[q].row = job[q].row
        BY <3>2 DEF Job
      <3>. QED
        BY <2>4, <3>1, <3>3, OthersCannotSpoil DEF Granted
    <2>. QED
      BY <1>1, <2>1, <2>2, <2>3, <2>4, Keeps
  <1>3. CASE RowsKept
    <2>1. CodesOwned' /\ CodesGivenOnce'
      BY <1>3 DEF Promised, CodesOwned, CodesGivenOnce, RowsKept
    <2>. QED
      BY <1>1, <1>2, <2>1 DEF Promised
  <1>4. ASSUME NEW p \in Requests, BookCommit(p) PROVE CodesOwned' /\ CodesGivenOnce'
    <2>. DEFINE b == job[p].booking
    <2>1. /\ booking'[b].stock = job[p].stock /\ booking'[b].code = job[p].row.code
          /\ \A c \in BookingIds \ {b} : booking'[c] = booking[c]
      BY <1>1, <1>4, CommitAdds
    <2>2. booking'[b].code # None =>
            /\ booking'[b].code \in CodesOf[booking'[b].stock]
            /\ \A c \in BookingIds : Exists(booking, c) => booking[c].code # booking'[b].code
      <3>1. Held(p) /\ job[p].step \in Granted
        BY <1>1, <1>4, CommitAdds DEF Promised, Granted
      <3>. QED
        BY <2>1, <3>1 DEF Held
    <2>3. CodesOwned'
      BY <2>1, <2>2 DEF Promised, CodesOwned, Exists
    <2>4. CodesGivenOnce'
      BY <2>1, <2>2 DEF Promised, CodesGivenOnce, Exists
    <2>. QED
      BY <2>3, <2>4
  <1>. QED
    BY <1>1, <1>2, <1>3, <1>4, Keeps DEF Promised

Legal == \A b \in BookingIds : ~Exists(booking, b) /\ Exists(booking', b) =>
  LET row == booking'[b] IN
  /\ ActiveOn(booking, row.user, {row.stock}) = {}
  /\ ~stock[row.stock].deleted

LEMMA LegalNext ==
  ASSUME Promised, [Next]_vars
  PROVE  Legal
  <1>1. TypeOK /\ JobsHold
    BY DEF Promised
  <1>2. CASE RowsKept
    BY <1>2 DEF RowsKept, Legal
  <1>3. ASSUME NEW p \in Requests, BookCommit(p) PROVE Legal
    <2>1. Held(p) /\ job[p].step \in Granted
      BY <1>1, <1>3, CommitAdds DEF Promised, Granted
    <2>2. ~stock[job[p].stock].deleted /\ ActiveOn(booking, job[p].row.user, {job[p].stock}) = {}
      BY <2>1 DEF Held
    <2>3. ASSUME NEW b \in BookingIds, ~Exists(booking, b), Exists(booking', b)
          PROVE  b = job[p].booking /\ booking'[b].stock = job[p].stock /\ booking'[b].user = job[p].row.user
      BY <1>1, <1>3, <2>3, CommitAdds DEF Exists
    <2>. QED
      BY <2>2, <2>3 DEF Legal
  <1>. QED
    BY <1>1, <1>2, <1>3, Keeps

\* What was checked under the lock of the stock holds at the commit: a new
\* booking is its user's only one on that stock, which is not deleted.
THEOREM BookingsAreLegal == Spec => NewBookingsAreLegal
  <1>1. Promised /\ [Next]_vars => [Legal]_vars
    BY LegalNext
  <1>. QED
    BY <1>1, PromisedInit, PromisedNext, PTL DEF Spec, NewBookingsAreLegal, Legal

\* No activation code is given twice.
THEOREM NoCodeIsGivenTwice == Spec => []CodesGivenOnce
  <1>1. Promised => CodesGivenOnce
    BY DEF Promised
  <1>. QED
    BY <1>1, PromisedInit, PromisedNext, PTL DEF Spec

-----------------------------------------------------------------------------
(* Paid bookings.                                                           *)

\* The request p is not about to write the booking b.
Aloof(p, b) == job[p].booking # b /\ ~(At(p, "purge:write") /\ b \in job[p].targets)

LEMMA SettledAloof == \A b : Settled(b) => \A p \in Requests : Aloof(p, b)
  BY DEF Settled, InHand, Aloof

\* A step of p that leaves b used and does not take it in hand.
LEMMA SettledByOne ==
  ASSUME NEW b \in BookingIds, Settled(b), NEW p \in Requests, UNCHANGED payment,
         Active(booking', b), booking'[b].used, Aloof(p, b)',
         \A q \in Requests \ {p} : job'[q] = job[q]
  PROVE  Settled(b)'
  <1>1. b \in paid'
    BY DEF Settled, paid
  <1>2. \A q \in Requests : Aloof(q, b)'
    BY SettledAloof DEF Aloof, At
  <1>3. Active(booking, b)' /\ ~InHand(b)'
    BY <1>2 DEF InHand, Aloof, Active
  <1>. QED
    BY <1>1, <1>3 DEF Settled

LEMMA SettledSame ==
  ASSUME NEW b \in BookingIds, Settled(b), NEW p \in Requests, UNCHANGED payment,
         booking'[b] = booking[b], Aloof(p, b)', \A q \in Requests \ {p} : job'[q] = job[q]
  PROVE  Settled(b)'
  BY SettledByOne DEF Settled, Active

LEMMA SettledIdle ==
  ASSUME TypeOK, NEW b \in BookingIds, Settled(b), NEW p \in Requests, Become(p, Idle),
         UNCHANGED payment, booking'[b] = booking[b]
  PROVE  Settled(b)'
  <1>1. job'[p] = Idle /\ \A q \in Requests \ {p} : job'[q] = job[q]
    BY DEF Become, TypeOK
  <1>2. Aloof(p, b)'
    BY <1>1, BookingsAssumption DEF Aloof, At, Idle, Doing
  <1>. QED
    BY <1>1, <1>2, SettledSame

\* No request begins on a booking that is settled.
LEMMA SettledArrival ==
  ASSUME TypeOK, NEW b \in BookingIds, Settled(b), NEW p \in Requests, Arrival(p)
  PROVE  Settled(b)'
  <1>1. UNCHANGED <<booking, payment>>
    BY DEF Arrival, BookLock, CancelRequest, UseLoad, UncancelLoad, UnuseLoad, DeleteStock, RejectOffer, EditLoad
  <1>2. ASSUME NEW new, Begin(p, new), new.step # "purge:write", new.booking # b
        PROVE  Settled(b)'
    <2>1. job'[p] = new /\ \A q \in Requests \ {p} : job'[q] = job[q]
      BY <1>2 DEF Begin, TypeOK
    <2>2. Aloof(p, b)'
      BY <1>2, <2>1 DEF Aloof, At
    <2>. QED
      BY <1>1, <2>1, <2>2, SettledSame
  <1>3. /\ \A step, s, c, row : Doing(step, s, c, row).step = step /\ Doing(step, s, c, row).booking = c
        /\ \A S : Withdrawing(S).step = "purge:lock" /\ Withdrawing(S).booking = None
        /\ \A s, e : /\ [Doing("edit:write", s, None, None) EXCEPT !.edit = e].step = "edit:write"
                     /\ [Doing("edit:write", s, None, None) EXCEPT !.edit = e].booking = None
    BY DEF Doing, Withdrawing
  <1>4. b # None /\ b \in paid /\ booking[b] # Absent /\ booking[b].used /\ ~booking[b].cancelled
    BY BookingsAssumption DEF Settled, Active
  <1>5. \E new : Begin(p, new) /\ new.step # "purge:write" /\ new.booking # b
    <2>1. CASE \E u \in Users, s \in Stocks, q \in 1..2 : BookLock(p, u, s, q)
      BY <1>3, <1>4, <2>1 DEF BookLock, Exists
    <2>2. CASE \E c \in BookingIds : CancelRequest(p, c) \/ UncancelLoad(p, c)
      BY <1>3, <1>4, <2>2 DEF CancelRequest, UncancelLoad, BeneficiaryMayCancel, MayBeCancelled
    <2>3. CASE \E c \in BookingIds : UseLoad(p, c) \/ UnuseLoad(p, c)
      BY <1>3, <1>4, <2>3 DEF UseLoad, UnuseLoad, HasPayment
    <2>4. CASE \E s \in Stocks : DeleteStock(p, s) \/ RejectOffer(p, s)
      BY <1>3, <1>4, <2>4 DEF DeleteStock, RejectOffer
    <2>5. CASE \E s \in Stocks, q \in Quantities \union {Unlimited}, price \in Prices,
                  move \in {"same", "near", "far"} : EditLoad(p, s, q, price, move)
      <3>1. PICK s \in Stocks, q \in Quantities \union {Unlimited}, price \in Prices,
                 move \in {"same", "near", "far"} : EditLoad(p, s, q, price, move)
        BY <2>5
      <3>. DEFINE e == [quantity |-> Changed(q, stock[s].quantity),
                        price |-> Changed(price, stock[s].price), move |-> move]
                  new == [Doing("edit:write", s, None, None) EXCEPT !.edit = e]
      <3>2. Begin(p, new)
        BY <3>1 DEF EditLoad
      <3>. HIDE DEF e
      <3>3. new.step = "edit:write" /\ new.booking = None
        BY <1>3
      <3>. QED
        BY <1>4, <3>2, <3>3
    <2>. QED
      BY <2>1, <2>2, <2>3, <2>4, <2>5 DEF Arrival
  <1>. QED
    BY <1>2, <1>5

\* No request that is under way writes a booking it has not in hand, nor takes
\* in hand one that is settled.
LEMMA SettledStep ==
  ASSUME TypeOK, JobsHold, NEW b \in BookingIds, Settled(b), NEW p \in Requests,
         Proceed(p) \/ TakeLock(p)
  PROVE  Settled(b)'
  <1>. DEFINE j == job[p]
  <1>1. /\ j \in Job /\ JobHolds(p) /\ UNCHANGED payment /\ j.booking # b /\ Aloof(p, b)
        /\ b \in paid /\ booking[b] # Absent /\ booking[b].used /\ ~booking[b].cancelled
    <2>1. UNCHANGED payment
      BY DEF Proceed, TakeLock, BookCheck, BookFlush, BookCommit, EditRedate, EditUnuse, EditCommit,
             CancelWrite, PurgeWrite, UseWrite, UncancelFlush, UnuseWrite, CancelLock, PurgeLock,
             UncancelCommit, EditWrite, NoRollback, GiveUp
    <2>. QED
      BY <2>1, SettledAloof DEF TypeOK, JobsHold, Settled, Active, Aloof
  <1>2. CASE GiveUp(p)
    BY <1>1, <1>2, SettledIdle DEF GiveUp
  <1>3. ASSUME NEW new, job' = [job EXCEPT ![p] = new], new.booking # b,
               new.step # "purge:write" \/ b \notin new.targets, booking'[b] = booking[b]
        PROVE  Settled(b)'
    <2>1. job'[p] = new /\ \A q \in Requests \ {p} : job'[q] = job[q]
      BY <1>3 DEF TypeOK
    <2>2. Aloof(p, b)'
      BY <1>3, <2>1 DEF Aloof, At
    <2>. QED
      BY <1>1, <1>3, <2>1, <2>2, SettledSame
  <1>4. ASSUME NEW new, job' = [job EXCEPT ![p] = new], new.booking # b, new.step # "purge:write",
               Active(booking', b), booking'[b].used
        PROVE  Settled(b)'
    <2>1. job'[p] = new /\ \A q \in Requests \ {p} : job'[q] = job[q]
      BY <1>4 DEF TypeOK
    <2>2. Aloof(p, b)'
      BY <1>4, <2>1 DEF Aloof, At
    <2>. QED
      BY <1>1, <1>4, <2>1, <2>2, SettledByOne
  <1>5. Idle.step = "idle" /\ Idle.booking # b
    BY IdleOK, BookingsAssumption DEF Idle, Doing
  <1>6. ASSUME ~GiveUp(p), BookCheck(p) \/ BookFlush(p) \/ CancelLock(p) \/ UncancelFlush(p)
        PROVE  Settled(b)'
    <2>1. UNCHANGED booking
      BY <1>6 DEF BookCheck, BookFlush, CancelLock, UncancelFlush
    <2>2. CASE BookCheck(p)
      <3>1. PICK row : job' = [job EXCEPT ![p] = [j EXCEPT !.step = "book:flush", !.row = row]]
        BY <1>6, <2>2 DEF BookCheck, Become
      <3>2. /\ [j EXCEPT !.step = "book:flush", !.row = row].step = "book:flush"
            /\ [j EXCEPT !.step = "book:flush", !.row = row].booking = j.booking
        BY <1>1 DEF Job
      <3>. QED
        BY <1>1, <1>3, <2>1, <3>1, <3>2
    <2>3. CASE BookFlush(p) \/ CancelLock(p) \/ UncancelFlush(p)
      <3>1. PICK step \in {"book:commit", "cancel:write", "uncancel:lock"} :
               job' = [job EXCEPT ![p] = [j EXCEPT !.step = step]]
        BY <1>6, <2>3 DEF BookFlush, CancelLock, UncancelFlush, Become
      <3>2. [j EXCEPT !.step = step].step = step /\ [j EXCEPT !.step = step].booking = j.booking
        BY <1>1 DEF Job
      <3>. QED
        BY <1>1, <1>3, <2>1, <3>1, <3>2
    <2>. QED
      BY <1>6, <2>2, <2>3
  <1>7. ASSUME NEW s \in Stocks, PurgeLock(p, s) PROVE Settled(b)'
    <2>. DEFINE T == {c \in BookingIds : Active(booking, c) /\ booking[c].stock = s /\ ~booking[c].used}
                new == [j EXCEPT !.step = "purge:write", !.stock = s, !.targets = T]
    <2>1. job' = [job EXCEPT ![p] = new] /\ UNCHANGED booking
      BY <1>7 DEF PurgeLock, Become
    <2>2. b \notin T
      BY <1>1
    <2>. HIDE DEF T
    <2>3. new.booking = j.booking /\ new.targets = T
      BY <1>1 DEF Job
    <2>. HIDE DEF new
    <2>. QED
      BY <1>1, <1>3, <2>1, <2>2, <2>3
  <1>8. CASE BookCommit(p)
    <2>1. booking'[b] = booking[b]
      BY <1>1, <1>8, CommitAdds
    <2>. QED
      BY <1>1, <1>8, <2>1, SettledIdle DEF BookCommit
  <1>9. CASE CancelWrite(p) \/ UseWrite(p) \/ UnuseWrite(p)
    <2>1. booking'[b] = booking[b]
      BY <1>1, <1>9 DEF CancelWrite, UseWrite, UnuseWrite, TypeOK
    <2>. QED
      BY <1>1, <1>9, <2>1, SettledIdle DEF CancelWrite, UseWrite, UnuseWrite
  <1>10. CASE PurgeWrite(p)
    <2>. DEFINE rest == j.queue \ {j.stock}
                new == IF rest = {} THEN Idle ELSE Withdrawing(rest)
    <2>1. booking'[b] = booking[b]
      BY <1>1, <1>10 DEF PurgeWrite, At, Aloof
    <2>2. new.step \in {"idle", "purge:lock"} /\ new.booking # b
      BY <1>5, BookingsAssumption DEF Withdrawing, Doing
    <2>3. job' = [job EXCEPT ![p] = new]
      BY <1>10 DEF PurgeWrite, Become
    <2>. HIDE DEF new
    <2>. QED
      BY <1>3, <2>1, <2>2, <2>3
  <1>11. CASE UncancelCommit(p) /\ ~GiveUp(p)
    <2>1. Become(p, Idle) /\ booking'[b] = booking[b]
      BY <1>1, <1>11 DEF UncancelCommit, TypeOK
    <2>. QED
      BY <1>1, <2>1, SettledIdle
  <1>12. CASE EditWrite(p) /\ ~GiveUp(p)
    <2>. DEFINE new == IF j.edit.move = "same" THEN Idle ELSE [j EXCEPT !.step = "edit:redate"]
    <2>1. UNCHANGED booking /\ job' = [job EXCEPT ![p] = new]
      BY <1>12 DEF EditWrite, Become
    <2>2. new.step \in {"idle", "edit:redate"} /\ new.booking # b
      BY <1>1, <1>5 DEF Job
    <2>. HIDE DEF new
    <2>. QED
      BY <1>3, <2>1, <2>2
  <1>13. CASE EditRedate(p)
    <2>. DEFINE near == j.edit.move = "near"
                moved == {c \in BookingIds : Active(booking, c) /\ booking[c].stock = j.stock}
                new == IF near \/ moved = {} THEN Idle
                       ELSE [j EXCEPT !.step = "edit:unuse", !.targets = moved]
    <2>1. /\ booking' = [c \in BookingIds |->
               IF c \in moved THEN [booking[c] EXCEPT !.confirmed = near] ELSE booking[c]]
          /\ job' = [job EXCEPT ![p] = new]
      BY <1>13 DEF EditRedate, Become
    <2>2. near \in BOOLEAN
      OBVIOUS
    <2>3. new.step \in {"idle", "edit:unuse"} /\ new.booking # b
      <3>. HIDE DEF near, moved
      <3>. QED
        BY <1>1, <1>5 DEF Job
    <2>. HIDE DEF near, moved, new
    <2>4. booking'[b] = booking[b] \/ booking'[b] = [booking[b] EXCEPT !.confirmed = near]
      BY <2>1
    <2>5. booking[b] \in Row
      BY <1>1 DEF TypeOK
    <2>6. booking'[b] \in Row /\ booking'[b].used /\ ~booking'[b].cancelled
      BY <1>1, <2>2, <2>4, <2>5 DEF Row
    <2>7. Active(booking', b)
      BY <2>6, BookingsAssumption DEF Active
    <2>. QED
      BY <1>4, <2>1, <2>3, <2>6, <2>7
  <1>14. ASSUME NEW c \in BookingIds, ~GiveUp(p), UnuseStep(p, c) PROVE Settled(b)'
    <2>1. PICK row \in Row :
             booking' = [booking EXCEPT ![c] = row] /\ (EditUnuse(p, c) => row = booking[c])
      BY <1>14, UnuseDoes
    <2>2. PICK new \in Job :
             /\ job' = [job EXCEPT ![p] = new] /\ new.step \in {"idle", "edit:unuse", "edit:commit"}
             /\ new.booking = None \/ (new.booking = c /\ ~HasPayment(c))
      BY <1>14, UnuseDoes
    <2>3. new.booking # b
      BY <1>1, <2>2, BookingsAssumption DEF HasPayment
    <2>4. booking'[b] = booking[b]
      BY <1>1, <1>14, <2>1 DEF UnuseStep, TypeOK
    <2>. QED
      BY <1>3, <2>2, <2>3, <2>4
  <1>. QED
    BY <1>2, <1>6, <1>7, <1>8, <1>9, <1>10, <1>11, <1>12, <1>13, <1>14, CommitUnuses
    DEF Proceed, TakeLock, UnuseStep

LEMMA SettledAround ==
  ASSUME TypeOK, NEW b \in BookingIds, Settled(b), Around
  PROVE  Settled(b)'
  <1>1. UNCHANGED job
    BY AroundKeeps
  <1>2. b \in paid /\ booking[b] # Absent /\ booking[b].used /\ ~booking[b].cancelled /\ ~InHand(b)
    BY DEF Settled, Active
  <1>3. ~InHand(b)'
    BY <1>1, <1>2 DEF InHand, At
  <1>4. CASE Paying
    <2>1. UNCHANGED booking /\ payment'[b] = "paid"
      BY <1>2, <1>4 DEF Paying, FindPayable, Payable, PaymentsCreated, PaymentsLost, FoundBecome, paid
    <2>. QED
      BY <1>2, <1>3, <2>1 DEF Settled, Active, paid
  <1>5. ASSUME NEW c \in BookingIds, ConfirmationDatePasses(c) PROVE Settled(b)'
    <2>. DEFINE row == [booking[c] EXCEPT !.confirmed = TRUE]
    <2>1. booking[c] \in Row /\ booking' = [booking EXCEPT ![c] = row] /\ UNCHANGED payment
      BY <1>5 DEF ConfirmationDatePasses, TypeOK, Exists
    <2>2. row \in Row /\ row.used = booking[c].used /\ row.cancelled = booking[c].cancelled
      BY <2>1 DEF Row
    <2>. HIDE DEF row
    <2>3. booking'[b] # Absent /\ booking'[b].used /\ ~booking'[b].cancelled
      BY <1>2, <2>1, <2>2, BookingsAssumption DEF TypeOK
    <2>. QED
      BY <1>2, <1>3, <2>1, <2>3 DEF Settled, Active, paid
  <1>6. CASE \E s \in Stocks : OfferChanges(s) \/ EventProgresses(s)
    BY <1>2, <1>3, <1>6 DEF OfferChanges, EventProgresses, Settled, Active, paid
  <1>. QED
    BY <1>4, <1>5, <1>6 DEF Around

LEMMA SettledNext ==
  ASSUME TypeOK, JobsHold, [Next]_vars, NEW b \in BookingIds, Settled(b)
  PROVE  Settled(b)'
  <1>1. CASE UNCHANGED vars
    BY <1>1 DEF vars, Settled, InHand, Active, At, paid
  <1>2. ASSUME NEW p \in Requests, GiveUp(p) PROVE Settled(b)'
    BY <1>2, SettledIdle DEF GiveUp
  <1>. QED
    BY <1>1, <1>2, SettledArrival, SettledStep, SettledAround DEF Next, Deadlock, LockTimeout, Crash

Final == \A b \in BookingIds : Settled(b) => Settled(b)'

\* A booking that has a payment, is used and is in no request's hands stays so
\* for ever, though requests race and time out and workers are killed.
THEOREM PaymentsAreFinal == Spec => PaidIsFinal
  <1>1. Init => TypeOK /\ JobsHold
    BY InitOK, JobsOKParts
  <1>2. TypeOK /\ JobsHold /\ [Next]_vars => TypeOK' /\ JobsHold' /\ [Final]_vars
    BY NextHolds, SettledNext DEF Final
  <1>. QED
    BY <1>1, <1>2, PTL DEF Spec, PaidIsFinal, Final

-----------------------------------------------------------------------------
(* The box office.                                                          *)

LEMMA PlacesAdded ==
  ASSUME NEW v, NEW w, NEW b, Takes(v, w, b)
  PROVE  /\ Places(w, w[b].stock) = Places(v, w[b].stock) \union ({b} \X (1..w[b].quantity))
         /\ \A t : t # w[b].stock => Places(w, t) = Places(v, t)
         /\ \A t : b \notin {place[1] : place \in Places(v, t)}
  <1>1. ASSUME NEW t, NEW x \in Places(w, t), x[1] # b PROVE x \in Places(v, t)
    BY <1>1 DEF Takes, Places, PlacesOf, Active
  <1>2. ASSUME NEW t, NEW x \in Places(v, t) PROVE x \in Places(w, t) /\ x[1] # b
    BY <1>2 DEF Takes, Places, PlacesOf, Active
  <1>3. ASSUME NEW t, NEW x \in Places(w, t), x[1] = b
        PROVE  t = w[b].stock /\ x \in {b} \X (1..w[b].quantity)
    BY <1>3 DEF Takes, Places, PlacesOf
  <1>4. {b} \X (1..w[b].quantity) \subseteq Places(w, w[b].stock)
    BY DEF Takes, Places, PlacesOf
  <1>5. Places(w, w[b].stock) = Places(v, w[b].stock) \union ({b} \X (1..w[b].quantity))
    <2>1. ASSUME NEW x \in {b} \X (1..w[b].quantity) PROVE x \in Places(w, w[b].stock)
      BY <1>4
    <2>. QED
      BY <1>1, <1>2, <1>3, <2>1
  <1>6. ASSUME NEW t, t # w[b].stock PROVE Places(w, t) = Places(v, t)
    <2>1. ASSUME NEW x \in Places(w, t) PROVE x \in Places(v, t)
      BY <1>1, <1>3, <1>6, <2>1
    <2>2. ASSUME NEW x \in Places(v, t) PROVE x \in Places(w, t)
      BY <1>2, <2>2
    <2>. QED
      BY <2>1, <2>2
  <1>7. ASSUME NEW t PROVE b \notin {place[1] : place \in Places(v, t)}
    BY <1>2
  <1>. QED
    BY <1>5, <1>6, <1>7

\* The box office counts as the tables do.
LEMMA OfficeCardinality == \A S : Office!Cardinality(S) = Cardinality(S)
  BY DEF Office!Cardinality, Cardinality

LEMMA PlacesReturned ==
  ASSUME NEW v, NEW w, NEW s, NEW B, Frees(v, w, s, B)
  PROVE  /\ PlacesOf(v, B) = {place \in Places(v, s) : place[1] \in B}
         /\ Places(w, s) = Places(v, s) \ PlacesOf(v, B)
         /\ \A t : t # s => Places(w, t) = Places(v, t)
  BY DEF Frees, Places, PlacesOf, Active

\* The five things the box office sees of the tables.
capacity == [s \in Stocks |-> stock[s].quantity]
sold == [s \in Stocks |-> Places(booking, s)]
counter == [s \in Stocks |-> stock[s].dn]
issued == {b \in BookingIds : Exists(booking, b)}
deleted == {s \in Stocks : stock[s].deleted}

\* A sale: Hold of the box office, with its first places or again.
LEMMA OfficeHold ==
  ASSUME NEW s \in Stocks, NEW b, Takes(booking, booking', b), booking'[b].stock = s,
         stock'[s].dn = stock[s].dn + booking'[b].quantity,
         stock'[s].quantity = stock[s].quantity, DeletedSame,
         stock[s].quantity # Unlimited => Booked(booking', s) <= stock[s].quantity,
         \A t \in Stocks \ {s} : stock'[t] = stock[t]
  PROVE  Office!Hold(s, b)
  <1>. DEFINE n == booking'[b].quantity
              places == sold[s] \union ({b} \X (1..n))
  <1>1. /\ n \in 1..2 /\ Places(booking', s) = places
        /\ \A t \in Stocks \ {s} : Places(booking', t) = Places(booking, t)
        /\ \A x \in Stocks : b \notin {place[1] : place \in sold[x]}
    BY PlacesAdded DEF Takes, sold
  <1>2. capacity[s] # Unlimited => Cardinality(places) <= capacity[s]
    BY <1>1 DEF Booked, capacity
  <1>3. sold' = [sold EXCEPT ![s] = places]
    <2>1. sold' = [t \in Stocks |-> Places(booking', t)]
      BY DEF sold
    <2>2. sold'[s] = places /\ \A t \in Stocks \ {s} : sold'[t] = sold[t]
      BY <1>1, <2>1 DEF sold
    <2>. HIDE DEF places
    <2>. QED
      BY <2>1, <2>2 DEF sold
  <1>4. counter' = [counter EXCEPT ![s] = @ + n]
    BY DEF counter
  <1>5. capacity' = capacity /\ deleted' = deleted
    BY DEF capacity, deleted, DeletedSame
  <1>. QED
    BY <1>1, <1>2, <1>3, <1>4, <1>5, OfficeCardinality DEF Office!Hold, Office!Holders, capacity, sold, counter, deleted

LEMMA OfficeTakeBack ==
  ASSUME NEW s \in Stocks, NEW B, Frees(booking, booking', s, B), RowsKept, DeletedSame,
         stock'[s].dn = stock[s].dn - Cardinality(PlacesOf(booking, B)),
         stock'[s].quantity = stock[s].quantity,
         \A t \in Stocks \ {s} : stock'[t] = stock[t]
  PROVE  Office!TakeBack(s, B)
  <1>. DEFINE places == {place \in sold[s] : place[1] \in B}
  <1>1. /\ places = PlacesOf(booking, B) /\ Places(booking', s) = sold[s] \ places
        /\ \A t \in Stocks \ {s} : Places(booking', t) = Places(booking, t)
    BY PlacesReturned DEF sold
  <1>2. sold' = [sold EXCEPT ![s] = @ \ places]
    <2>1. sold' = [t \in Stocks |-> Places(booking', t)]
      BY DEF sold
    <2>2. sold'[s] = sold[s] \ places /\ \A t \in Stocks \ {s} : sold'[t] = sold[t]
      BY <1>1, <2>1 DEF sold
    <2>. HIDE DEF places
    <2>. QED
      BY <2>1, <2>2 DEF sold
  <1>3. counter' = [counter EXCEPT ![s] = @ - Cardinality(places)]
    BY <1>1 DEF counter
  <1>4. capacity' = capacity /\ issued' = issued /\ deleted' = deleted
    BY DEF capacity, issued, deleted, DeletedSame, RowsKept, Exists
  <1>. QED
    BY <1>2, <1>3, <1>4, OfficeCardinality DEF Office!TakeBack, capacity, sold, counter, issued, deleted

LEMMA OfficeSame ==
  /\ (\A s \in Stocks : Places(booking', s) = Places(booking, s)) => sold' = sold
  /\ (\A s \in Stocks : stock'[s].dn = stock[s].dn) => counter' = counter
  /\ (\A s \in Stocks : stock'[s].quantity = stock[s].quantity) => capacity' = capacity
  /\ RowsKept => issued' = issued
  /\ DeletedSame => deleted' = deleted
  <1>1. sold' = [t \in Stocks |-> Places(booking', t)]
    BY DEF sold
  <1>. QED
    BY <1>1 DEF sold, counter, capacity, issued, deleted, RowsKept, DeletedSame, Exists

LEMMA OfficeInit == Init => Office!Init
  <1>. SUFFICES ASSUME Init PROVE Office!Init
    OBVIOUS
  <1>1. \A s \in Stocks : Places(booking, s) = {}
    BY DEF Init, Places, PlacesOf, Active
  <1>2. \A b \in BookingIds : ~Exists(booking, b)
    BY DEF Init, Exists
  <1>3. \A s \in Stocks : /\ stock[s].quantity \in Nat \union {Unlimited}
                          /\ stock[s].dn = 0 /\ stock[s].deleted = FALSE
    BY BookingsAssumption DEF Init
  <1>4. capacity \in [Stocks -> Nat \union {Unlimited}]
    BY <1>3 DEF capacity
  <1>5. sold = [s \in Stocks |-> {}] /\ counter = [s \in Stocks |-> 0] /\ issued = {} /\ deleted = {}
    BY <1>1, <1>2, <1>3 DEF sold, counter, issued, deleted
  <1>. QED
    BY <1>4, <1>5 DEF Office!Init, capacity, sold, counter, issued, deleted

LEMMA OfficeNext ==
  ASSUME \A p, q \in Admins : p = q, Capacity, Promised, JobsOK, [Next]_vars
  PROVE  [Office!Next]_Office!vars
  <1>1. /\ TypeOK /\ JobsHold /\ NoOverbooking /\ RoomHeld /\ TypeOK' /\ NoOverbooking'
    BY CapacityNext DEF Capacity
  <1>2. ASSUME NEW p \in Requests, BookCommit(p) PROVE Office!Next
    <2>0. PICK s \in Stocks, b \in BookingIds : s = job[p].stock /\ b = job[p].booking
      BY <1>1, <1>2, CommitAdds
    <2>1. /\ ~Exists(booking, b) /\ Takes(booking, booking', b)
          /\ booking'[b].stock = s /\ booking'[b].quantity = job[p].row.quantity
          /\ stock'[s].quantity = stock[s].quantity
          /\ stock'[s].dn = stock[s].dn + booking'[b].quantity
          /\ \A t \in Stocks \ {s} : stock'[t] = stock[t]
      BY <1>1, <1>2, <2>0, CommitTakes
    <2>2. DeletedSame
      BY <1>1, <1>2, StepKeeps DEF Proceed
    <2>3. stock[s].quantity # Unlimited => Booked(booking', s) <= stock[s].quantity
      BY <1>1, <2>1 DEF NoOverbooking
    <2>4. Office!Hold(s, b)
      BY <2>1, <2>2, <2>3, OfficeHold
    <2>5. s \notin deleted
      BY <1>1, <1>2, <2>0, CommitAdds DEF Promised, Held, Granted, deleted
    <2>6. b \in BookingIds /\ b \notin issued /\ issued' = issued \union {b}
      BY <2>1 DEF issued, Takes, Exists, Active
    <2>7. Office!Sell(s, b)
      BY <2>4, <2>5, <2>6 DEF Office!Sell, issued, deleted
    <2>. QED
      BY <2>1, <2>6, <2>7 DEF Office!Next
  <1>3. ASSUME NEW p \in Requests, CancelWrite(p) \/ PurgeWrite(p) PROVE Office!Next
    <2>0. PICK s \in Stocks : s = job[p].stock
      BY <1>1, <1>3, CancellingFrees
    <2>1. /\ stock'[s].quantity = stock[s].quantity
          /\ \A t \in Stocks \ {s} : stock'[t] = stock[t]
      BY <1>1, <1>3, <2>0, CancellingFrees
    <2>2. PICK B : /\ Frees(booking, booking', s, B)
                   /\ stock'[s].dn = stock[s].dn - Cardinality(PlacesOf(booking, B))
      BY <1>1, <1>3, <2>0, CancellingFrees DEF JobsOK, JobOK
    <2>3. RowsKept /\ DeletedSame
      <3>1. ~BookCommit(p)
        BY <1>3 DEF CancelWrite, PurgeWrite, BookCommit, At
      <3>. QED
        BY <1>1, <1>3, <3>1, StepKeeps DEF Proceed
    <2>4. Office!TakeBack(s, B)
      BY <2>1, <2>2, <2>3, OfficeTakeBack
    <2>. QED
      BY <2>1, <2>2, <2>4 DEF Office!Next, Frees
  <1>4. ASSUME NEW p \in Requests, UncancelCommit(p), ~GiveUp(p) PROVE Office!Next
    <2>0. PICK s, b : s = job[p].stock /\ b = job[p].booking
      OBVIOUS
    <2>. DEFINE new == [booking[b] EXCEPT !.cancelled = FALSE, !.used = TRUE]
    <2>1. /\ job[p].step = "uncancel:lock" /\ JobHolds(p)
          /\ booking' = [booking EXCEPT ![b].cancelled = FALSE, ![b].used = TRUE]
          /\ stock' = [stock EXCEPT ![s].dn = @ + booking[b].quantity]
      BY <1>1, <1>4, <2>0 DEF UncancelCommit, At, JobsHold
    <2>2. b \in BookingIds /\ Exists(booking, b) /\ s = booking[b].stock /\ ~Active(booking, b)
      BY <2>0, <2>1 DEF JobHolds, RowSteps
    <2>3. booking[b] \in Row /\ s \in Stocks
      BY <1>1, <2>2 DEF TypeOK, Exists, Row
    <2>4. /\ new \in Row /\ ~new.cancelled /\ new.stock = s /\ new.quantity = booking[b].quantity
          /\ new.quantity \in 1..2
      BY <2>2, <2>3 DEF Row
    <2>5. booking' = [booking EXCEPT ![b] = new]
      BY <1>1, <2>1, <2>2 DEF TypeOK
    <2>. HIDE DEF new
    <2>6. Takes(booking, booking', b) /\ booking'[b].stock = s /\ booking'[b].quantity = booking[b].quantity
      BY <1>1, <2>2, <2>4, <2>5, BookingsAssumption DEF Takes, Active, TypeOK
    <2>7. /\ stock'[s].quantity = stock[s].quantity
          /\ stock'[s].dn = stock[s].dn + booking'[b].quantity
          /\ \A t \in Stocks \ {s} : stock'[t] = stock[t]
      BY <1>1, <2>1, <2>3, <2>6 DEF TypeOK, StockRow
    <2>8. RowsKept /\ DeletedSame
      <3>1. ~BookCommit(p)
        BY <2>1 DEF BookCommit, At
      <3>. QED
        BY <1>1, <1>4, <3>1, StepKeeps DEF TakeLock
    <2>9. stock[s].quantity # Unlimited => Booked(booking', s) <= stock[s].quantity
      BY <1>1, <2>3, <2>7 DEF NoOverbooking
    <2>10. Office!Hold(s, b)
      BY <2>3, <2>6, <2>7, <2>8, <2>9, OfficeHold
    <2>11. Office!SellAgain(s, b)
      BY <2>2, <2>8, <2>10, OfficeSame DEF Office!SellAgain, issued
    <2>. QED
      BY <2>2, <2>3, <2>11 DEF Office!Next
  <1>5. ASSUME NEW p \in Requests, EditWrite(p), ~GiveUp(p) PROVE Office!Next
    <2>0. PICK s : s = job[p].stock
      OBVIOUS
    <2>. DEFINE e == job[p].edit
                q == Written(e.quantity, stock[s].quantity)
                phase == IF e.move = "same" THEN stock[s].phase ELSE "upcoming"
                price == Written(e.price, stock[s].price)
    <2>1. /\ job[p].step = "edit:write" /\ JobHolds(p) /\ FitsIn(booking, s, q) /\ UNCHANGED booking
          /\ stock' = [stock EXCEPT ![s].quantity = q, ![s].price = price, ![s].phase = phase]
      BY <1>1, <1>5, <2>0 DEF EditWrite, At, JobsHold
    <2>2. s \in Stocks
      BY <2>0, <2>1 DEF JobHolds
    <2>. HIDE DEF q, phase, price
    <2>3. /\ stock'[s].quantity = q /\ stock'[s].dn = stock[s].dn
          /\ \A t \in Stocks \ {s} : stock'[t] = stock[t]
      BY <1>1, <2>1, <2>2 DEF TypeOK, StockRow
    <2>4. RowsKept /\ DeletedSame
      <3>1. ~BookCommit(p)
        BY <2>1 DEF BookCommit, At
      <3>. QED
        BY <1>1, <1>5, <3>1, StepKeeps DEF TakeLock
    <2>5. sold' = sold /\ counter' = counter /\ issued' = issued /\ deleted' = deleted
      BY <2>1, <2>2, <2>3, <2>4, OfficeSame
    <2>6. capacity' = [capacity EXCEPT ![s] = q] /\ capacity'[s] = q
      BY <2>2, <2>3 DEF capacity
    <2>7. q # Unlimited => Cardinality(sold[s]) <= q
      BY <2>1, <2>2 DEF FitsIn, sold, Booked
    <2>8. Office!Resize(s)
      BY <2>5, <2>6, <2>7, OfficeCardinality DEF Office!Resize, capacity, sold, counter, issued, deleted
    <2>. QED
      BY <2>2, <2>8 DEF Office!Next
  <1>6. ASSUME NEW p \in Requests, NEW s \in Stocks, DeleteStock(p, s) PROVE Office!Next
    <2>1. UNCHANGED booking /\ stock' = [stock EXCEPT ![s].deleted = TRUE]
      BY <1>6 DEF DeleteStock
    <2>2. /\ \A t \in Stocks : stock'[t].quantity = stock[t].quantity /\ stock'[t].dn = stock[t].dn
          /\ stock'[s].deleted = TRUE /\ \A t \in Stocks \ {s} : stock'[t] = stock[t]
      BY <1>1, <2>1 DEF TypeOK, StockRow
    <2>3. sold' = sold /\ counter' = counter /\ issued' = issued /\ capacity' = capacity
      BY <2>1, <2>2, OfficeSame, UnchangedKept
    <2>4. deleted' = deleted \union {s}
      BY <2>2 DEF deleted
    <2>5. Office!Delete(s)
      BY <2>3, <2>4 DEF Office!Delete, capacity, sold, counter, issued, deleted
    <2>. QED
      BY <2>5 DEF Office!Next
  <1>7. ASSUME SalesSame, RowsKept, DeletedSame PROVE UNCHANGED Office!vars
    <2>1. \A s \in Stocks : Places(booking', s) = Places(booking, s)
      BY <1>7, PlacesSame DEF SalesSame
    <2>2. sold' = sold /\ counter' = counter /\ issued' = issued /\ capacity' = capacity /\ deleted' = deleted
      BY <1>7, <2>1, OfficeSame DEF SalesSame
    <2>. QED
      BY <2>2 DEF Office!vars, capacity, sold, counter, issued, deleted
  <1>8. CASE \E p \in Requests : Selling(p)
    BY <1>2, <1>3, <1>4, <1>5, <1>8 DEF Selling
  <1>9. CASE SalesSame /\ ~\E p \in Requests : Selling(p)
    <2>1. RowsKept
      BY <1>1, <1>9, Keeps DEF Selling
    <2>. QED
      BY <1>1, <1>6, <1>7, <1>9, <2>1, Keeps
  <1>. QED
    BY <1>1, <1>8, <1>9, Effects

\* When the back office serves one request at a time, the tables change as if
\* each request were one step of a box office: every step of the requests is
\* one of its sales, returns, editions and deletions, or none that it can see.
THEOREM RefinesBoxOffice ==
  ASSUME \A p, q \in Admins : p = q
  PROVE  Spec => ImplementsBoxOffice
  <1>. DEFINE IInv == Capacity /\ Promised /\ JobsOK
  <1>1. IInv /\ [Next]_vars => IInv' /\ [Office!Next]_Office!vars
    BY CapacityNext, PromisedNext, NextOK, OfficeNext DEF Capacity
  <1>2. Init => IInv /\ Office!Init
    BY InitOK, CapacityInit, PromisedInit, OfficeInit
  <1>. HIDE DEF IInv
  <1>. QED
    BY <1>1, <1>2, PTL DEF Spec, ImplementsBoxOffice, Office!Spec

-----------------------------------------------------------------------------
(* Withdrawn stocks.                                                        *)

\* The conditions under which a withdrawal is certain to cancel the bookings:
\* the back office serves one request at a time, no worker is killed, no
\* statement times out, and no booking is marked as unused.
Undisturbable ==
  /\ \A p, q \in Admins : p = q
  /\ Crashing = {} /\ ~LockTimeouts
  /\ "unuse" \notin Endpoints /\ "move" \notin Endpoints

Withdrawn(s) == stock[s].deleted \/ stock[s].offer = "rejected"
Queued(s) == \E q \in Requests : s \in job[q].queue
Unused(b) == Active(booking, b) /\ ~booking[b].used

\* Only a withdrawal has a queue, its targets are all the bookings that it has
\* to cancel, and no request unmarks a booking.
Orderly(p) == LET j == job[p] IN
  /\ j.queue # {} => j.step \in {"purge:lock", "purge:write"}
  /\ j.step \notin {"unuse:write", "edit:redate", "edit:unuse", "edit:commit"}
  /\ j.step = "edit:write" => j.edit.move = "same"
  /\ j.step = "purge:write" =>
       \A b \in BookingIds : Unused(b) /\ booking[b].stock = j.stock => b \in j.targets
  /\ j.step \in Granted /\ Withdrawn(j.stock) => Queued(j.stock)

Emptied == \A s \in Stocks : Withdrawn(s) /\ ~Queued(s) =>
  \A b \in BookingIds : Unused(b) => booking[b].stock # s

Withdrawals == (\A p \in Requests : Orderly(p)) /\ Emptied

\* A step that adds no unused booking, nor withdraws a stock that it does not
\* put in a queue, and ends no queue.
LEMMA NothingToEmpty ==
  ASSUME TypeOK, JobsHold, Withdrawals,
         \A q \in Requests : job'[q] = job[q] \/ Orderly(q)',
         \A b \in BookingIds : Unused(b)' => Unused(b) /\ booking'[b].stock = booking[b].stock,
         \A s \in Stocks : Queued(s) => Queued(s)',
         \A s \in Stocks : Withdrawn(s)' => Withdrawn(s) \/ Queued(s)'
  PROVE  Withdrawals'
  <1>1. ASSUME NEW q \in Requests, job'[q] = job[q] PROVE Orderly(q)'
    <2>1. job'[q] = job[q] /\ Orderly(q)
      BY <1>1 DEF Withdrawals
    <2>2. job'[q].step \in Granted => job'[q].stock \in Stocks
      BY <2>1 DEF JobsHold, JobHolds, Granted, LockSteps, BookSteps
    <2>. QED
      BY <2>1, <2>2 DEF Orderly
  <1>2. Emptied'
    BY DEF Withdrawals, Emptied
  <1>. QED
    BY <1>1, <1>2 DEF Withdrawals

LEMMA SameUnused ==
  UNCHANGED booking =>
    \A b \in BookingIds : Unused(b)' => Unused(b) /\ booking'[b].stock = booking[b].stock
  BY DEF Unused, Active

LEMMA SameWithdrawn ==
  UNCHANGED stock => \A s \in Stocks : Withdrawn(s)' => Withdrawn(s)
  BY DEF Withdrawn

\* A request with no queue goes on with a job that is in order.
LEMMA NewJob ==
  ASSUME TypeOK, Withdrawals, NEW p \in Requests, NEW new, job' = [job EXCEPT ![p] = new],
         job[p].queue = {} \/ job[p].queue \subseteq new.queue
  PROVE  /\ job'[p] = new
         /\ \A q \in Requests \ {p} : job'[q] = job[q]
         /\ \A s : Queued(s) => Queued(s)'
         /\ \A s \in new.queue : Queued(s)'
  <1>1. job'[p] = new /\ \A q \in Requests \ {p} : job'[q] = job[q]
    BY DEF TypeOK
  <1>2. ASSUME NEW s, Queued(s) PROVE Queued(s)'
    <2>1. PICK q \in Requests : s \in job[q].queue
      BY <1>2 DEF Queued
    <2>2. s \in job'[q].queue
      BY <1>1, <2>1
    <2>. QED
      BY <2>2 DEF Queued
  <1>3. ASSUME NEW s \in new.queue PROVE Queued(s)'
    BY <1>1, <1>3 DEF Queued
  <1>. QED
    BY <1>1, <1>2, <1>3

LEMMA EndsOrderly ==
  ASSUME TypeOK, JobsHold, Withdrawals, NEW p \in Requests, Become(p, Idle),
         job[p].step \notin {"purge:lock", "purge:write"},
         \A b \in BookingIds : Unused(b)' => Unused(b) /\ booking'[b].stock = booking[b].stock,
         \A s \in Stocks : Withdrawn(s)' => Withdrawn(s)
  PROVE  Withdrawals'
  <1>1. job[p].queue = {} /\ job' = [job EXCEPT ![p] = Idle]
    BY DEF Withdrawals, Orderly, Become
  <1>2. job'[p] = Idle /\ (\A q \in Requests \ {p} : job'[q] = job[q]) /\ \A s : Queued(s) => Queued(s)'
    BY <1>1, NewJob
  <1>3. Idle.step = "idle" /\ Idle.queue = {}
    BY DEF Idle, Doing
  <1>4. Orderly(p)'
    BY <1>2, <1>3 DEF Orderly, Granted
  <1>. QED
    BY <1>2, <1>4, NothingToEmpty

LEMMA OrderlyGiveUp ==
  ASSUME TypeOK, JobsHold, Withdrawals, NEW p \in Requests, GiveUp(p),
         job[p].step \notin {"purge:lock", "purge:write"}
  PROVE  Withdrawals'
  BY EndsOrderly, SameUnused, SameWithdrawn DEF GiveUp

LEMMA OrderlyArrival ==
  ASSUME TypeOK, JobsHold, Withdrawals, Undisturbable, NEW p \in Requests, Arrival(p)
  PROVE  Withdrawals'
  <1>1. /\ UNCHANGED booking
        /\ UNCHANGED stock \/ \E s \in Stocks : DeleteStock(p, s) \/ RejectOffer(p, s)
    BY DEF Arrival, BookLock, CancelRequest, UseLoad, UncancelLoad, UnuseLoad, DeleteStock, RejectOffer, EditLoad
  <1>2. ASSUME NEW new, Begin(p, new), new.step \notin Granted \union {"purge:write"},
               new.queue # {} => new.step = "purge:lock",
               new.step \notin {"unuse:write", "edit:redate", "edit:unuse", "edit:commit"},
               new.step = "edit:write" => new.edit.move = "same",
               \A s \in Stocks : Withdrawn(s)' => Withdrawn(s) \/ s \in new.queue
        PROVE  Withdrawals'
    <2>1. job[p].queue = {} /\ job' = [job EXCEPT ![p] = new]
      BY <1>2 DEF Begin, At, Withdrawals, Orderly
    <2>2. /\ job'[p] = new /\ \A q \in Requests \ {p} : job'[q] = job[q]
          /\ \A s : Queued(s) => Queued(s)'
          /\ \A s \in new.queue : Queued(s)'
      BY <2>1, NewJob
    <2>3. Orderly(p)'
      BY <1>2, <2>2 DEF Orderly, Granted
    <2>. QED
      BY <1>1, <1>2, <2>2, <2>3, NothingToEmpty, SameUnused
  <1>3. \A step, s, b, row : Doing(step, s, b, row).step = step /\ Doing(step, s, b, row).queue = {}
    BY DEF Doing
  <1>4. \A S : Withdrawing(S).step = "purge:lock" /\ Withdrawing(S).queue = S
    BY DEF Doing, Withdrawing
  <1>5. ASSUME NEW step, NEW s, NEW b, NEW row, Begin(p, Doing(step, s, b, row)),
               step \in {"book:check", "cancel:lock", "use:write", "uncancel:flush"}, UNCHANGED stock
        PROVE  Withdrawals'
    BY <1>2, <1>3, <1>5, SameWithdrawn DEF Granted
  <1>6. ASSUME NEW u \in Users, NEW s \in Stocks, NEW q \in 1..2, BookLock(p, u, s, q)
        PROVE  Withdrawals'
    BY <1>5, <1>6 DEF BookLock
  <1>7. ASSUME NEW b \in BookingIds, CancelRequest(p, b) \/ UseLoad(p, b) \/ UncancelLoad(p, b)
        PROVE  Withdrawals'
    BY <1>5, <1>7 DEF CancelRequest, UseLoad, UncancelLoad
  <1>8. ASSUME NEW s \in Stocks, DeleteStock(p, s) PROVE Withdrawals'
    <2>1. Begin(p, Withdrawing({s})) /\ stock' = [stock EXCEPT ![s].deleted = TRUE]
      BY <1>8 DEF DeleteStock
    <2>2. \A t \in Stocks : Withdrawn(t)' => Withdrawn(t) \/ t \in {s}
      BY <2>1 DEF Withdrawn, TypeOK
    <2>. QED
      BY <1>2, <1>4, <2>1, <2>2 DEF Granted
  <1>9. ASSUME NEW s \in Stocks, RejectOffer(p, s) PROVE Withdrawals'
    <2>1. Begin(p, Withdrawing(SameOffer(s))) /\ OfferBecomes(s, "rejected")
      BY <1>9 DEF RejectOffer
    <2>2. \A t \in Stocks : Withdrawn(t)' => Withdrawn(t) \/ t \in SameOffer(s)
      BY <2>1 DEF Withdrawn, OfferBecomes
    <2>. QED
      BY <1>2, <1>4, <2>1, <2>2 DEF Granted
  <1>10. ASSUME NEW s \in Stocks, NEW q \in Quantities \union {Unlimited}, NEW price \in Prices,
                NEW move \in {"same", "near", "far"}, EditLoad(p, s, q, price, move)
         PROVE  Withdrawals'
    <2>. DEFINE e == [quantity |-> Changed(q, stock[s].quantity),
                      price |-> Changed(price, stock[s].price), move |-> move]
                new == [Doing("edit:write", s, None, None) EXCEPT !.edit = e]
    <2>1. Begin(p, new) /\ UNCHANGED stock /\ move = "same"
      BY <1>10 DEF EditLoad, Undisturbable
    <2>2. e.move = "same"
      BY <2>1
    <2>. HIDE DEF e
    <2>3. new.step = "edit:write" /\ new.queue = {} /\ new.edit = e
      BY DEF Doing
    <2>. HIDE DEF new
    <2>. QED
      BY <1>2, <2>1, <2>2, <2>3, SameWithdrawn DEF Granted
  <1>11. \A b \in BookingIds : ~UnuseLoad(p, b)
    BY DEF UnuseLoad, Undisturbable
  <1>. QED
    BY <1>6, <1>7, <1>8, <1>9, <1>10, <1>11 DEF Arrival

LEMMA OrderlyStep ==
  ASSUME TypeOK, JobsHold, Withdrawals, Undisturbable, NEW p \in Requests,
         Proceed(p) \/ TakeLock(p), ~PurgeWrite(p), ~BookCommit(p)
  PROVE  Withdrawals'
  <1>. DEFINE j == job[p]
  <1>1. j \in Job /\ JobHolds(p) /\ Orderly(p)
    BY DEF TypeOK, JobsHold, Withdrawals
  <1>2. CASE GiveUp(p)
    <2>1. ASSUME NEW s \in Stocks, PurgeLock(p, s) PROVE FALSE
      <3>1. job'[p].step = "idle"
        BY <1>2, IdleOK DEF GiveUp, Become, TypeOK
      <3>2. \E T : job'[p] = [j EXCEPT !.step = "purge:write", !.stock = s, !.targets = T]
        BY <2>1 DEF PurgeLock, Become, TypeOK
      <3>. QED
        BY <1>1, <3>1, <3>2 DEF Job
    <2>2. j.step \notin {"purge:lock", "purge:write"}
      BY <1>2, <2>1 DEF Proceed, TakeLock, BookCheck, BookFlush, EditRedate, EditUnuse, EditCommit, CancelWrite,
           UseWrite, UncancelFlush, UnuseWrite, CancelLock, UncancelCommit, EditWrite, At
    <2>. QED
      BY <1>2, <2>2, OrderlyGiveUp
  <1>3. ASSUME ~GiveUp(p), BookCheck(p) \/ BookFlush(p) \/ CancelLock(p) \/ UncancelFlush(p)
        PROVE  Withdrawals'
    <2>1. UNCHANGED <<booking, stock>>
      BY <1>3 DEF BookCheck, BookFlush, CancelLock, UncancelFlush
    <2>2. PICK new :
             /\ job' = [job EXCEPT ![p] = new]
             /\ new.queue = j.queue /\ new.stock = j.stock
             /\ new.step \in {"cancel:write", "uncancel:lock"} \union Granted
             /\ new.step \in Granted => BookCheck(p) \/ j.step \in Granted
      <3>1. CASE BookCheck(p)
        <4>1. PICK row : job' = [job EXCEPT ![p] = [j EXCEPT !.step = "book:flush", !.row = row]]
          BY <1>3, <3>1 DEF BookCheck, Become
        <4>. DEFINE new == [j EXCEPT !.step = "book:flush", !.row = row]
        <4>2. new.queue = j.queue /\ new.stock = j.stock /\ new.step = "book:flush"
          BY <1>1 DEF Job
        <4>. HIDE DEF new
        <4>3. job' = [job EXCEPT ![p] = new]
          BY <4>1 DEF new
        <4>. QED
          BY <3>1, <4>2, <4>3 DEF Granted
      <3>2. CASE ~BookCheck(p)
        <4>1. PICK step \in {"cancel:write", "uncancel:lock", "book:commit"} :
                /\ job' = [job EXCEPT ![p] = [j EXCEPT !.step = step]]
                /\ step = "book:commit" => j.step = "book:flush"
          BY <1>3, <3>2 DEF BookFlush, CancelLock, UncancelFlush, Become, At
        <4>. DEFINE new == [j EXCEPT !.step = step]
        <4>2. new.queue = j.queue /\ new.stock = j.stock /\ new.step = step
          BY <1>1 DEF Job
        <4>. HIDE DEF new
        <4>3. job' = [job EXCEPT ![p] = new]
          BY <4>1 DEF new
        <4>. QED
          BY <4>1, <4>2, <4>3 DEF Granted
      <3>. QED
        BY <3>1, <3>2
    <2>3. j.queue = {}
      BY <1>1, <1>3 DEF Orderly, BookCheck, BookFlush, CancelLock, UncancelFlush, At
    <2>4. /\ job'[p] = new /\ \A q \in Requests \ {p} : job'[q] = job[q]
          /\ \A s : Queued(s) => Queued(s)'
      BY <2>2, <2>3, NewJob
    <2>5. BookCheck(p) => ~Withdrawn(j.stock)
      <3>. SUFFICES ASSUME BookCheck(p) PROVE ~Withdrawn(j.stock)
        OBVIOUS
      <3>1. j.row.stock = j.stock /\ MayBook(j.row)
        BY <1>1, <1>3 DEF BookCheck, At, JobHolds, BookSteps
      <3>. QED
        BY <3>1 DEF MayBook, IsBookable, IsSoldOut, Withdrawn
    <2>6. new.step \in Granted => j.stock \in Stocks /\ (Withdrawn(j.stock) => Queued(j.stock))
      BY <1>1, <2>2, <2>5 DEF Orderly, JobHolds, LockSteps, BookSteps, Granted, BookCheck, At
    <2>7. Orderly(p)'
      BY <2>1, <2>2, <2>3, <2>4, <2>6, SameWithdrawn DEF Orderly, Granted
    <2>. QED
      BY <2>1, <2>4, <2>7, NothingToEmpty, SameUnused, SameWithdrawn
  <1>4. ASSUME NEW s \in Stocks, PurgeLock(p, s) PROVE Withdrawals'
    <2>. DEFINE T == {b \in BookingIds : Active(booking, b) /\ booking[b].stock = s /\ ~booking[b].used}
                new == [j EXCEPT !.step = "purge:write", !.stock = s, !.targets = T]
    <2>1. job' = [job EXCEPT ![p] = new] /\ UNCHANGED <<booking, stock>>
      BY <1>4 DEF PurgeLock, Become
    <2>2. \A b \in BookingIds : Unused(b)' /\ booking'[b].stock = s => b \in T
      BY <2>1 DEF Unused, Active
    <2>. HIDE DEF T
    <2>3. new.step = "purge:write" /\ new.stock = s /\ new.targets = T /\ new.queue = j.queue
      BY <1>1 DEF Job
    <2>. HIDE DEF new
    <2>4. /\ job'[p] = new /\ \A q \in Requests \ {p} : job'[q] = job[q]
          /\ \A t : Queued(t) => Queued(t)'
      BY <2>1, <2>3, NewJob
    <2>5. Orderly(p)'
      BY <2>2, <2>3, <2>4 DEF Orderly, Granted
    <2>. QED
      BY <2>1, <2>4, <2>5, NothingToEmpty, SameUnused, SameWithdrawn
  <1>5. ASSUME CancelWrite(p) PROVE Withdrawals'
    <2>. DEFINE row == [booking[j.booking] EXCEPT !.cancelled = TRUE]
    <2>1. /\ j.step = "cancel:write" /\ booking' = [booking EXCEPT ![j.booking] = row]
          /\ stock' = [stock EXCEPT ![j.stock].dn = @ - booking[j.booking].quantity]
          /\ Become(p, Idle)
      BY <1>5 DEF CancelWrite, At
    <2>2. /\ j.booking \in BookingIds /\ booking[j.booking] \in Row /\ j.stock \in Stocks
      BY <1>1, <2>1 DEF JobHolds, RowSteps, LockSteps, TypeOK, Exists
    <2>3. row.cancelled
      BY <2>2 DEF Row
    <2>. HIDE DEF row
    <2>4. \A b \in BookingIds : Unused(b)' => Unused(b) /\ booking'[b].stock = booking[b].stock
      BY <2>1, <2>2, <2>3 DEF Unused, Active, TypeOK
    <2>5. \A s \in Stocks : Withdrawn(s)' => Withdrawn(s)
      BY <2>1, <2>2 DEF Withdrawn, TypeOK, StockRow
    <2>. QED
      BY <2>1, <2>4, <2>5, EndsOrderly
  <1>6. ASSUME UseWrite(p) PROVE Withdrawals'
    <2>. DEFINE row == [booking[j.booking] EXCEPT !.used = TRUE]
    <2>1. /\ j.step = "use:write" /\ UNCHANGED stock /\ Become(p, Idle)
          /\ UNCHANGED booking \/ booking' = [booking EXCEPT ![j.booking] = row]
      BY <1>6 DEF UseWrite, At
    <2>2. /\ j.booking \in BookingIds /\ booking[j.booking] \in Row
      BY <1>1, <2>1 DEF JobHolds, TypeOK, Exists
    <2>3. row.used
      BY <2>2 DEF Row
    <2>. HIDE DEF row
    <2>4. \A b \in BookingIds : Unused(b)' => Unused(b) /\ booking'[b].stock = booking[b].stock
      BY <2>1, <2>2, <2>3 DEF Unused, Active, TypeOK
    <2>. QED
      BY <2>1, <2>4, EndsOrderly, SameWithdrawn
  <1>7. ASSUME UncancelCommit(p), ~GiveUp(p) PROVE Withdrawals'
    <2>. DEFINE b == j.booking
                row == [booking[b] EXCEPT !.cancelled = FALSE, !.used = TRUE]
    <2>1. /\ j.step = "uncancel:lock" /\ Become(p, Idle)
          /\ booking' = [booking EXCEPT ![b].cancelled = FALSE, ![b].used = TRUE]
          /\ stock' = [stock EXCEPT ![j.stock].dn = @ + booking[b].quantity]
      BY <1>7 DEF UncancelCommit, At
    <2>2. /\ b \in BookingIds /\ booking[b] \in Row /\ j.stock = booking[b].stock
      BY <1>1, <2>1 DEF JobHolds, RowSteps, TypeOK, Exists
    <2>3. row.used /\ j.stock \in Stocks
      BY <2>2 DEF Row
    <2>4. booking' = [booking EXCEPT ![b] = row]
      BY <2>1, <2>2 DEF TypeOK
    <2>. HIDE DEF row
    <2>5. \A c \in BookingIds : Unused(c)' => Unused(c) /\ booking'[c].stock = booking[c].stock
      BY <2>2, <2>3, <2>4 DEF Unused, Active, TypeOK
    <2>6. \A s \in Stocks : Withdrawn(s)' => Withdrawn(s)
      BY <2>1, <2>3 DEF Withdrawn, TypeOK, StockRow
    <2>. QED
      BY <2>1, <2>5, <2>6, EndsOrderly
  <1>8. ASSUME EditWrite(p), ~GiveUp(p) PROVE Withdrawals'
    <2>. DEFINE s == j.stock
                e == j.edit
                q == Written(e.quantity, stock[s].quantity)
                phase == IF e.move = "same" THEN stock[s].phase ELSE "upcoming"
                price == Written(e.price, stock[s].price)
    <2>1. /\ j.step = "edit:write" /\ UNCHANGED booking
          /\ stock' = [stock EXCEPT ![s].quantity = q, ![s].price = price, ![s].phase = phase]
          /\ e.move = "same" => Become(p, Idle)
      BY <1>8 DEF EditWrite, At
    <2>2. s \in Stocks /\ Become(p, Idle)
      BY <1>1, <2>1 DEF JobHolds, Orderly
    <2>. HIDE DEF q, phase, price
    <2>3. \A t \in Stocks : Withdrawn(t)' => Withdrawn(t)
      BY <2>1, <2>2 DEF Withdrawn, TypeOK, StockRow
    <2>. QED
      BY <2>1, <2>2, <2>3, EndsOrderly, SameUnused
  <1>9. ~UnuseWrite(p) /\ ~EditRedate(p) /\ ~EditCommit(p) /\ \A b \in BookingIds : ~EditUnuse(p, b)
    BY <1>1 DEF Orderly, UnuseWrite, EditRedate, EditUnuse, EditCommit, At
  <1>. QED
    BY <1>2, <1>3, <1>4, <1>5, <1>6, <1>7, <1>8, <1>9 DEF Proceed, TakeLock

\* A booking is committed on a withdrawn stock only while its withdrawal waits.
LEMMA OrderlyCommit ==
  ASSUME TypeOK, JobsHold, Withdrawals, NEW p \in Requests, BookCommit(p)
  PROVE  Withdrawals'
  <1>. DEFINE j == job[p]
              s == job[p].stock
  <1>1. /\ j.step = "book:commit" /\ j.queue = {} /\ job' = [job EXCEPT ![p] = Idle]
        /\ Withdrawn(s) => Queued(s)
    BY DEF BookCommit, At, Become, Withdrawals, Orderly, Granted
  <1>2. /\ s \in Stocks /\ lock[s] = p /\ j.booking \in BookingIds
        /\ booking'[j.booking].stock = s
        /\ \A c \in BookingIds \ {j.booking} : booking'[c] = booking[c]
    BY CommitAdds
  <1>3. /\ job'[p] = Idle /\ \A q \in Requests \ {p} : job'[q] = job[q]
        /\ \A t : Queued(t) => Queued(t)'
    BY <1>1, NewJob
  <1>4. \A t \in Stocks : Withdrawn(t)' <=> Withdrawn(t)
    BY <1>2 DEF BookCommit, Withdrawn, TypeOK, StockRow
  <1>5. \A b \in BookingIds : Unused(b)' =>
          \/ Unused(b) /\ booking'[b].stock = booking[b].stock
          \/ booking'[b].stock = s
    BY <1>2 DEF Unused, Active
  <1>6. ASSUME NEW q \in Requests PROVE Orderly(q)'
    <2>1. CASE q = p
      <3>1. Idle.step = "idle" /\ Idle.queue = {}
        BY DEF Idle, Doing
      <3>. QED
        BY <1>3, <2>1, <3>1 DEF Orderly, Granted
    <2>2. CASE q # p
      <3>1. job'[q] = job[q] /\ Orderly(q) /\ JobHolds(q)
        BY <1>3, <2>2 DEF Withdrawals, JobsHold
      <3>2. job[q].step \in Granted => job[q].stock \in Stocks
        BY <3>1 DEF JobHolds, Granted, LockSteps, BookSteps
      <3>3. job[q].step = "purge:write" => job[q].stock # s
        BY <1>2, <2>2, <3>1 DEF JobHolds, LockSteps
      <3>. QED
        BY <1>3, <1>4, <1>5, <3>1, <3>2, <3>3 DEF Orderly
    <2>. QED
      BY <2>1, <2>2
  <1>7. Emptied'
    BY <1>1, <1>3, <1>4, <1>5 DEF Withdrawals, Emptied
  <1>. QED
    BY <1>6, <1>7 DEF Withdrawals

\* The purge of a stock leaves no unused booking there.
LEMMA OrderlyPurge ==
  ASSUME TypeOK, JobsHold, Withdrawals, NEW p \in Requests, PurgeWrite(p)
  PROVE  Withdrawals'
  <1>. DEFINE j == job[p]
              s == job[p].stock
              rest == j.queue \ {s}
              new == IF rest = {} THEN Idle ELSE Withdrawing(rest)
              fewer == Cardinality(PlacesOf(booking, j.targets))
  <1>1. /\ j \in Job /\ JobHolds(p) /\ Orderly(p) /\ j.step = "purge:write"
        /\ job' = [job EXCEPT ![p] = new]
        /\ booking' = [b \in BookingIds |->
             IF b \in j.targets THEN [booking[b] EXCEPT !.cancelled = TRUE] ELSE booking[b]]
        /\ stock' = [stock EXCEPT ![s].dn = @ - fewer]
    BY DEF TypeOK, JobsHold, Withdrawals, PurgeWrite, At, Become
  <1>2. s \in Stocks /\ lock[s] = p
    BY <1>1 DEF JobHolds, LockSteps
  <1>3. new.step \in {"idle", "purge:lock"} /\ new.queue = rest /\ (rest # {} => new.step = "purge:lock")
    BY DEF Idle, Withdrawing, Doing
  <1>. HIDE DEF new, rest, fewer
  <1>4. job'[p] = new /\ \A q \in Requests \ {p} : job'[q] = job[q]
    BY <1>1 DEF TypeOK
  <1>5. \A t : Queued(t) /\ t # s => Queued(t)'
    <2>1. ASSUME NEW t, NEW q \in Requests, t \in job[q].queue, t # s PROVE t \in job'[q].queue
      BY <1>3, <1>4, <2>1 DEF rest
    <2>. QED
      BY <2>1 DEF Queued
  <1>6. \A t \in Stocks : Withdrawn(t)' <=> Withdrawn(t)
    BY <1>1, <1>2 DEF Withdrawn, TypeOK, StockRow
  <1>7. ASSUME NEW b \in BookingIds, Unused(b)'
        PROVE  Unused(b) /\ booking'[b] = booking[b] /\ booking[b].stock # s
    <2>1. b \notin j.targets
      <3>. SUFFICES ASSUME b \in j.targets PROVE FALSE
        OBVIOUS
      <3>1. booking[b] \in Row
        BY <1>1 DEF JobHolds, TypeOK, Exists
      <3>2. booking'[b] = [booking[b] EXCEPT !.cancelled = TRUE]
        BY <1>1
      <3>3. booking'[b].cancelled
        BY <3>1, <3>2 DEF Row
      <3>. QED
        BY <1>7, <3>3 DEF Unused, Active
    <2>2. booking'[b] = booking[b]
      BY <1>1, <2>1
    <2>. QED
      BY <1>1, <1>7, <2>1, <2>2 DEF Unused, Active, Orderly
  <1>8. ASSUME NEW q \in Requests PROVE Orderly(q)'
    <2>1. CASE q = p
      BY <1>3, <1>4, <2>1 DEF Orderly, Granted
    <2>2. CASE q # p
      <3>1. job'[q] = job[q] /\ Orderly(q) /\ JobHolds(q)
        BY <1>4, <2>2 DEF Withdrawals, JobsHold
      <3>2. job[q].step \in Granted => job[q].stock \in Stocks /\ job[q].stock # s
        BY <1>2, <2>2, <3>1 DEF JobHolds, Granted, LockSteps, BookSteps
      <3>. QED
        BY <1>5, <1>6, <1>7, <3>1, <3>2 DEF Orderly
    <2>. QED
      BY <2>1, <2>2
  <1>9. Emptied'
    BY <1>5, <1>6, <1>7 DEF Withdrawals, Emptied
  <1>. QED
    BY <1>8, <1>9 DEF Withdrawals

LEMMA OrderlyAround ==
  ASSUME TypeOK, JobsHold, Withdrawals, Around
  PROVE  Withdrawals'
  <1>1. UNCHANGED job /\ \A s : Queued(s) => Queued(s)'
    BY AroundKeeps DEF Queued
  <1>2. ASSUME NEW b \in BookingIds, ConfirmationDatePasses(b) PROVE Withdrawals'
    <2>. DEFINE row == [booking[b] EXCEPT !.confirmed = TRUE]
    <2>1. booking[b] \in Row /\ booking' = [booking EXCEPT ![b] = row] /\ UNCHANGED stock
      BY <1>2 DEF ConfirmationDatePasses, TypeOK, Exists
    <2>2. /\ row.used = booking[b].used /\ row.cancelled = booking[b].cancelled
          /\ row.stock = booking[b].stock /\ booking[b] # Absent
      BY <2>1, BookingsAssumption DEF Row
    <2>. HIDE DEF row
    <2>3. \A c \in BookingIds : Unused(c)' => Unused(c) /\ booking'[c].stock = booking[c].stock
      BY <2>1, <2>2 DEF Unused, Active, TypeOK
    <2>. QED
      BY <1>1, <2>1, <2>3, NothingToEmpty, SameWithdrawn
  <1>3. ASSUME NEW s \in Stocks, OfferChanges(s) \/ EventProgresses(s) PROVE Withdrawals'
    <2>1. \A t \in Stocks : Withdrawn(t)' => Withdrawn(t)
      BY <1>3 DEF OfferChanges, OfferBecomes, EventProgresses, Withdrawn, TypeOK, StockRow
    <2>2. UNCHANGED booking
      BY <1>3 DEF OfferChanges, EventProgresses
    <2>. QED
      BY <1>1, <2>1, <2>2, NothingToEmpty, SameUnused
  <1>4. ASSUME Paying PROVE Withdrawals'
    BY <1>1, <1>4, NothingToEmpty, SameUnused, SameWithdrawn
    DEF Paying, FindPayable, PaymentsCreated, PaymentsLost, FoundBecome
  <1>. QED
    BY <1>2, <1>3, <1>4 DEF Around

LEMMA WithdrawalsNext ==
  ASSUME TypeOK, JobsOK, Withdrawals, Undisturbable, [Next]_vars
  PROVE  Withdrawals'
  <1>0. JobsHold
    BY JobsOKParts
  <1>1. CASE UNCHANGED vars
    <2>1. UNCHANGED <<booking, stock, job>>
      BY <1>1 DEF vars
    <2>2. \A s : Queued(s) => Queued(s)'
      BY <2>1 DEF Queued
    <2>. QED
      BY <1>0, <2>1, <2>2, NothingToEmpty, SameUnused, SameWithdrawn
  <1>2. ASSUME NEW p \in Requests, NEW q \in Requests, Deadlock(p, q) PROVE Withdrawals'
    <2>1. JobHolds(p) /\ CancelsActive(q) /\ job[p].step = "uncancel:lock"
      BY <1>2 DEF Deadlock, At, JobsOK, JobOK
    <2>2. Admins = {p} /\ ~Active(booking, job[p].booking)
      BY <2>1 DEF JobHolds, Undisturbable
    <2>3. job[q].step \in {"cancel:write", "purge:write"} /\ job[q].step # "purge:write"
      BY <1>2, <2>1, <2>2 DEF Deadlock, At, CancelsActive
    <2>. QED
      BY <1>0, <1>2, <2>1, <2>3, OrderlyGiveUp DEF Deadlock
  <1>3. \A p \in Requests : ~LockTimeout(p) /\ ~Crash(p)
    BY DEF Undisturbable, LockTimeout, Crash
  <1>. QED
    BY <1>0, <1>1, <1>2, <1>3, OrderlyArrival, OrderlyStep, OrderlyCommit, OrderlyPurge, OrderlyAround
       DEF Next

\* When the back office serves one request at a time, no worker is killed, no
\* statement times out and no booking is marked as unused, a deleted stock or
\* one of a rejected offer has no booking left to be used once no withdrawal
\* has it in its queue, although bookings are committed while it waits.
THEOREM WithdrawalsEmptyStocks ==
  ASSUME Undisturbable
  PROVE  Spec => []WithdrawnStocksEmpty
  <1>1. Init => TypeOK /\ JobsOK /\ Withdrawals
    <2>. SUFFICES ASSUME Init PROVE Withdrawals
      BY InitOK
    <2>1. \A p \in Requests : job[p].step = "idle" /\ job[p].queue = {}
      BY DEF Init, Idle, Doing
    <2>2. \A s \in Stocks : ~Withdrawn(s)
      BY DEF Init, Withdrawn
    <2>. QED
      BY <2>1, <2>2 DEF Withdrawals, Orderly, Emptied, Granted
  <1>2. TypeOK /\ JobsOK /\ Withdrawals /\ [Next]_vars => TypeOK' /\ JobsOK' /\ Withdrawals'
    BY NextOK, WithdrawalsNext
  <1>3. Withdrawals => WithdrawnStocksEmpty
    BY DEF Withdrawals, Emptied, Withdrawn, Queued, Unused, WithdrawnStocksEmpty
  <1>. QED
    BY <1>1, <1>2, <1>3, PTL DEF Spec

-----------------------------------------------------------------------------
(* The jobs of the clock.                                                   *)

\* The jobs rewrite rows in place: a booking is cancelled or marked as used, and
\* a paid one stays settled.
Marked == \A b \in BookingIds : booking'[b] = booking[b] \/
  /\ booking[b] \in Row /\ booking'[b] \in Row
  /\ booking'[b].user = booking[b].user /\ booking'[b].stock = booking[b].stock
  /\ booking'[b].quantity = booking[b].quantity /\ booking'[b].code = booking[b].code
  /\ booking[b].cancelled => booking'[b].cancelled
  /\ Kept(b) => booking'[b].used /\ ~booking'[b].cancelled

LEMMA MarkedRows ==
  ASSUME Marked, NEW b \in BookingIds
  PROVE  /\ Exists(booking', b) <=> Exists(booking, b)
         /\ Exists(booking, b) =>
              /\ booking'[b].user = booking[b].user /\ booking'[b].stock = booking[b].stock
              /\ booking'[b].quantity = booking[b].quantity /\ booking'[b].code = booking[b].code
         /\ Active(booking', b) => Active(booking, b)
  BY BookingsAssumption DEF Marked, Exists, Active

\* What a job may do to the places that are taken.
LEMMA MarkedFrees ==
  ASSUME Marked, NEW s
  PROVE  Booked(booking', s) <= Booked(booking, s)
  <1>1. Places(booking', s) \subseteq Places(booking, s)
    BY MarkedRows DEF Places, PlacesOf, Active, Exists
  <1>. QED
    BY <1>1, BookedIsNat, FS_Subset DEF Booked

\* The requests lose nothing they rely on when a job marks bookings, since none
\* relies on a booking being active but to cancel it.
LEMMA MarkedKeepsRequests ==
  ASSUME TypeOK, JobsHold, Marked, booking' \in [BookingIds -> Row \union {Absent}],
         UNCHANGED <<stock, payment, lock, job>>
  PROVE  TypeOK' /\ JobsHold'
  <1>1. TypeOK'
    BY DEF TypeOK
  <1>2. ASSUME NEW p \in Requests PROVE JobHolds(p)'
    <2>1. JobHolds(p) /\ job[p] \in Job
      BY DEF TypeOK, JobsHold
    <2>. QED
      BY <2>1, MarkedRows DEF JobHolds, Job, LockSteps, BookSteps, RowSteps
  <1>. QED
    BY <1>1, <1>2 DEF JobsHold

LEMMA MarkedKeepsCapacity ==
  ASSUME Capacity, Marked, booking' \in [BookingIds -> Row \union {Absent}],
         UNCHANGED <<stock, payment, lock, job>>
  PROVE  Capacity'
  <1>1. TypeOK' /\ JobsHold'
    BY MarkedKeepsRequests DEF Capacity
  <1>2. \A s \in Stocks : stock[s].quantity # Unlimited => stock[s].quantity \in Nat
    BY BookingsAssumption DEF Capacity, TypeOK, StockRow
  <1>3. NoOverbooking'
    <2>1. ASSUME NEW s \in Stocks, stock[s].quantity # Unlimited
          PROVE  Booked(booking', s) <= stock[s].quantity
      <3>1. Booked(booking, s) <= stock[s].quantity /\ stock[s].quantity \in Nat
        BY <1>2, <2>1 DEF Capacity, NoOverbooking
      <3>. QED
        BY <3>1, MarkedFrees, BookedIsNat
    <2>. QED
      BY <2>1 DEF NoOverbooking, Booked, Places
  <1>4. RoomHeld'
    <2>1. ASSUME NEW p \in Requests, job[p].step = "book:commit",
                 stock[job[p].stock].quantity # Unlimited
          PROVE  Booked(booking', job[p].stock) + job[p].row.quantity <= stock[job[p].stock].quantity
      <3>1. job[p].stock \in Stocks /\ job[p].row.quantity \in 1..2
        BY <2>1 DEF Capacity, JobsHold, JobHolds, LockSteps, BookSteps, Row
      <3>2. Booked(booking, job[p].stock) + job[p].row.quantity <= stock[job[p].stock].quantity
        BY <2>1 DEF Capacity, RoomHeld, At
      <3>3. stock[job[p].stock].quantity \in Nat
        BY <1>2, <2>1, <3>1
      <3>. QED
        BY <3>1, <3>2, <3>3, MarkedFrees, BookedIsNat
    <2>. QED
      BY <2>1 DEF RoomHeld, At, Booked, Places
  <1>. QED
    BY <1>1, <1>3, <1>4 DEF Capacity

LEMMA MarkedKeepsPromises ==
  ASSUME Promised, Marked, booking' \in [BookingIds -> Row \union {Absent}],
         UNCHANGED <<stock, payment, lock, job>>
  PROVE  Promised' /\ Legal
  <1>1. TypeOK' /\ JobsHold'
    BY MarkedKeepsRequests DEF Promised
  <1>2. ASSUME NEW p \in Requests PROVE Held(p)'
    <2>1. Held(p)
      BY DEF Promised
    <2>2. \A u, S : ActiveOn(booking', u, S) \subseteq ActiveOn(booking, u, S)
      BY MarkedRows DEF ActiveOn, Active, Exists
    <2>. QED
      BY <2>1, <2>2, MarkedRows DEF Held
  <1>3. CodesOwned' /\ CodesGivenOnce'
    BY MarkedRows DEF Promised, CodesOwned, CodesGivenOnce
  <1>4. Legal
    BY MarkedRows DEF Legal
  <1>. QED
    BY <1>1, <1>2, <1>3, <1>4 DEF Promised

Lasting == \A b \in BookingIds : Kept(b) => Kept(b)'

LEMMA MarkedKeepsPaid ==
  ASSUME Marked, UNCHANGED <<payment, job>>, expiry'.batch \subseteq expiry.batch
  PROVE  Lasting
  <1>. SUFFICES ASSUME NEW b \in BookingIds, Kept(b) PROVE Kept(b)'
    BY DEF Lasting
  <1>1. b \in paid' /\ ~InHand(b)' /\ b \notin expiry'.batch
    BY DEF Kept, Settled, InHand, At, paid
  <1>2. Active(booking', b) /\ booking'[b].used
    BY MarkedRows DEF Marked, Kept, Settled, Active, Exists
  <1>. QED
    BY <1>1, <1>2 DEF Kept, Settled, Active

JobsSafe == Capacity /\ Promised /\ JobsTypeOK

LEMMA JobsSafeInit == JobsInit => JobsSafe
  <1>1. JobsInit => JobsTypeOK
    BY DEF JobsInit, NotExpiring, JobsTypeOK
  <1>. QED
    BY <1>1, CapacityInit, PromisedInit DEF JobsSafe, JobsInit

\* A row stays in the table, and on its stock.
LEMMA RowsStay ==
  ASSUME TypeOK, JobsHold, [Next]_vars, NEW b \in BookingIds, Exists(booking, b)
  PROVE  Exists(booking', b) /\ booking'[b].stock = booking[b].stock
  <1>1. CASE RowsKept
    BY <1>1 DEF RowsKept
  <1>2. ASSUME NEW p \in Requests, BookCommit(p)
        PROVE  Exists(booking', b) /\ booking'[b].stock = booking[b].stock
    BY <1>2, CommitAdds DEF Exists
  <1>. QED
    BY <1>1, <1>2, Keeps

LEMMA RequestsAreSafe ==
  ASSUME JobsSafe, RequestStep
  PROVE  JobsSafe' /\ Legal /\ Lasting
  <1>1. TypeOK /\ JobsHold /\ [Next]_vars /\ UNCHANGED jobVars
    BY DEF JobsSafe, Capacity, RequestStep
  <1>2. Capacity' /\ Promised' /\ Legal /\ Lasting
    BY <1>1, CapacityNext, PromisedNext, SettledNext, LegalNext DEF JobsSafe, Lasting, Kept, jobVars
  <1>3. JobsTypeOK'
    <2>1. \A b \in old \union nightly : Exists(booking', b)
      BY <1>1, RowsStay DEF JobsSafe, JobsTypeOK
    <2>2. \A b \in expiry.batch : b \in old /\ booking'[b].stock \in Expirable
      BY <1>1, RowsStay DEF JobsSafe, JobsTypeOK
    <2>. QED
      BY <1>1, <2>1, <2>2 DEF JobsSafe, JobsTypeOK, jobVars, Exists
  <1>. QED
    BY <1>2, <1>3 DEF JobsSafe

\* The steps of the jobs that only read.
LEMMA ReadsAreSafe ==
  ASSUME JobsSafe, UNCHANGED vars, JobsTypeOK',
         \A b \in expiry'.batch : b \in expiry.batch \/ ~booking[b].used
  PROVE  JobsSafe' /\ Legal /\ Lasting
  <1>1. UNCHANGED <<booking, stock, payment, lock, job>>
    BY DEF vars
  <1>2. Capacity' /\ Promised' /\ Legal
    BY <1>1, CapacityNext, PromisedNext, LegalNext DEF JobsSafe, Capacity, vars
  <1>3. ASSUME NEW b \in BookingIds, Kept(b) PROVE Kept(b)'
    <2>1. Settled(b)'
      BY <1>1, <1>3, SettledNext DEF JobsSafe, Capacity, Kept, vars
    <2>. QED
      BY <1>3, <2>1 DEF Kept, Settled
  <1>. QED
    BY <1>2, <1>3 DEF JobsSafe, Lasting

LEMMA BatchHoldsUnused ==
  ASSUME JobsSafe
  PROVE  /\ NextBatch \subseteq old /\ NextBatch \subseteq BookingIds
         /\ \A b \in NextBatch : booking[b].stock \in Expirable /\ ~booking[b].used
  BY DEF JobsSafe, JobsTypeOK, NextBatch, Expiring, Unfinished

LEMMA ExpiryReadsAreSafe ==
  ASSUME JobsSafe, StartExpiry \/ FetchNextBatch \/ Recount \/ ExpiryFails
  PROVE  JobsSafe' /\ Legal /\ Lasting
  <1>. DEFINE Record == [step: {"idle", "update", "next", "count", "recompute"},
                         batch: SUBSET BookingIds, stocks: SUBSET Expirable, counts: {expiry.counts}]
  <1>1. UNCHANGED <<vars, old, nightly>> /\ UNCHANGED booking
    BY DEF StartExpiry, FetchNextBatch, Recount, ExpiryFails, vars
  <1>2. JobsTypeOK /\ expiry \in Record
    BY DEF JobsSafe, JobsTypeOK
  <1>3. ASSUME expiry'.batch \subseteq BookingIds, expiry'.stocks \subseteq Expirable,
               expiry' \in [step: {"idle", "update", "next", "count", "recompute"},
                            batch: SUBSET BookingIds, stocks: SUBSET Expirable, counts: {expiry'.counts}],
               expiry'.step = "recompute" => expiry'.counts \in [expiry'.stocks -> Nat],
               \A b \in expiry'.batch : b \in old /\ booking[b].stock \in Expirable
        PROVE  JobsTypeOK'
    BY <1>1, <1>2, <1>3 DEF JobsTypeOK, Exists
  <1>4. CASE StartExpiry
    <2>1. expiry' = [step |-> "update", batch |-> NextBatch, stocks |-> StocksOf(NextBatch), counts |-> <<>>]
      BY <1>4 DEF StartExpiry, NotExpiring
    <2>2. StocksOf(NextBatch) \subseteq Expirable
      BY BatchHoldsUnused DEF StocksOf
    <2>. QED
      BY <1>1, <1>3, <2>1, <2>2, BatchHoldsUnused, ReadsAreSafe
  <1>5. CASE FetchNextBatch
    <2>1. /\ expiry'.step \in {"count", "update"} /\ expiry'.batch = NextBatch
          /\ expiry'.stocks = expiry.stocks /\ expiry'.counts = expiry.counts
          /\ expiry' = [step |-> expiry'.step, batch |-> NextBatch, stocks |-> expiry.stocks, counts |-> expiry.counts]
      BY <1>2, <1>5 DEF FetchNextBatch, AfterBatch
    <2>2. expiry.stocks \subseteq Expirable
      BY <1>2
    <2>. QED
      BY <1>1, <1>3, <2>1, <2>2, BatchHoldsUnused, ReadsAreSafe
  <1>6. CASE Recount
    <2>. DEFINE counts == [s \in expiry.stocks |-> Booked(booking, s)]
    <2>1. /\ expiry'.step = "recompute" /\ expiry'.batch = expiry.batch
          /\ expiry'.stocks = expiry.stocks /\ expiry'.counts = counts
          /\ expiry' = [step |-> "recompute", batch |-> expiry.batch, stocks |-> expiry.stocks, counts |-> counts]
      BY <1>2, <1>6 DEF Recount
    <2>2. counts \in [expiry.stocks -> Nat]
      BY BookedIsNat
    <2>3. /\ expiry.stocks \subseteq Expirable /\ expiry.batch \subseteq BookingIds
          /\ \A b \in expiry.batch : b \in old /\ booking[b].stock \in Expirable
      BY <1>2 DEF JobsTypeOK
    <2>. HIDE DEF counts
    <2>. QED
      BY <1>1, <1>3, <2>1, <2>2, <2>3, ReadsAreSafe
  <1>7. CASE ExpiryFails
    <2>1. expiry' = [step |-> "idle", batch |-> {}, stocks |-> {}, counts |-> <<>>]
      BY <1>7 DEF ExpiryFails, NotExpiring
    <2>. QED
      BY <1>1, <1>3, <2>1, ReadsAreSafe
  <1>. QED
    BY <1>4, <1>5, <1>6, <1>7

LEMMA OtherReadsAreSafe ==
  ASSUME JobsSafe,
         \/ StartNightly \/ KillJobs \/ UNCHANGED allVars
         \/ \E b \in BookingIds : SkipBooking(b) \/ GetsOld(b)
  PROVE  JobsSafe' /\ Legal /\ Lasting
  <1>1. UNCHANGED vars /\ UNCHANGED booking
    BY DEF StartNightly, KillJobs, SkipBooking, GetsOld, allVars, vars
  <1>2. JobsTypeOK
    BY DEF JobsSafe
  <1>3. CASE KillJobs
    <2>1. /\ expiry' = [step |-> "idle", batch |-> {}, stocks |-> {}, counts |-> <<>>]
          /\ nightly' = {} /\ old' = old
      BY <1>3 DEF KillJobs, NotExpiring
    <2>2. JobsTypeOK'
      BY <1>1, <1>2, <2>1 DEF JobsTypeOK, Exists
    <2>3. \A b \in expiry'.batch : b \in expiry.batch \/ ~booking[b].used
      BY <2>1
    <2>. QED
      BY <1>1, <2>2, <2>3, ReadsAreSafe
  <1>4. CASE ~KillJobs
    <2>1. /\ expiry' = expiry /\ old \subseteq old' /\ old' \subseteq BookingIds
          /\ nightly' \subseteq BookingIds
          /\ \A b \in old' \union nightly' : Exists(booking, b)
      <3>1. CASE StartNightly
        BY <1>2, <3>1 DEF StartNightly, JobsTypeOK, Unfinished, Active, Exists
      <3>2. CASE \E b \in BookingIds : SkipBooking(b) \/ GetsOld(b)
        BY <1>2, <3>2 DEF SkipBooking, GetsOld, JobsTypeOK
      <3>3. CASE UNCHANGED allVars
        BY <1>2, <3>3 DEF allVars, jobVars, JobsTypeOK
      <3>. QED
        BY <1>4, <3>1, <3>2, <3>3
    <2>2. JobsTypeOK'
      BY <1>1, <1>2, <2>1 DEF JobsTypeOK, Exists
    <2>3. \A b \in expiry'.batch : b \in expiry.batch \/ ~booking[b].used
      BY <2>1
    <2>. QED
      BY <1>1, <2>2, <2>3, ReadsAreSafe
  <1>. QED
    BY <1>3, <1>4

\* A job that marks rows and stays within its own.
LEMMA MarksAreSafe ==
  ASSUME JobsSafe, Marked, booking' \in [BookingIds -> Row \union {Absent}],
         UNCHANGED <<stock, payment, lock, job, old>>, nightly' \subseteq nightly,
         \/ UNCHANGED expiry
         \/ expiry.step = "update" /\ expiry' = [expiry EXCEPT !.step = "next"]
  PROVE  JobsSafe' /\ Legal /\ Lasting
  <1>2. JobsTypeOK
    BY DEF JobsSafe
  <1>0. expiry'.batch \subseteq expiry.batch
    BY <1>2 DEF JobsTypeOK
  <1>1. Capacity' /\ Promised' /\ Legal /\ Lasting
    BY <1>0, MarkedKeepsCapacity, MarkedKeepsPromises, MarkedKeepsPaid DEF JobsSafe, Capacity
  <1>3. /\ expiry'.batch = expiry.batch /\ expiry'.stocks = expiry.stocks
        /\ expiry'.counts = expiry.counts
        /\ expiry' = expiry \/ expiry'.step = "next"
        /\ expiry' \in [step: {"idle", "update", "next", "count", "recompute"},
                        batch: SUBSET BookingIds, stocks: SUBSET Expirable, counts: {expiry'.counts}]
    BY <1>2 DEF JobsTypeOK
  <1>4. /\ \A b \in old \union nightly' : Exists(booking', b)
        /\ \A b \in expiry.batch : b \in old /\ booking'[b].stock \in Expirable
    BY <1>2, MarkedRows DEF JobsTypeOK
  <1>5. JobsTypeOK'
    BY <1>2, <1>3, <1>4 DEF JobsTypeOK, Exists
  <1>. QED
    BY <1>1, <1>5 DEF JobsSafe

\* The UPDATE cancels whatever has become of the bookings of the batch.
LEMMA ExpireBatchIsSafe ==
  ASSUME JobsSafe, ExpireBatch
  PROVE  JobsSafe' /\ Legal /\ Lasting
  <1>1. TypeOK /\ JobsTypeOK
    BY DEF JobsSafe, Capacity
  <1>2. /\ expiry.step = "update" /\ expiry' = [expiry EXCEPT !.step = "next"]
        /\ UNCHANGED <<stock, payment, lock, job, old, nightly>>
    BY DEF ExpireBatch
  <1>3. ASSUME NEW b \in BookingIds
        PROVE  \/ booking'[b] = booking[b]
               \/ /\ b \in expiry.batch /\ booking[b] \in Row
                  /\ booking'[b] = [booking[b] EXCEPT !.cancelled = TRUE]
    BY <1>1 DEF ExpireBatch, JobsTypeOK, TypeOK, Exists
  <1>4. ASSUME NEW b \in expiry.batch, booking[b] \in Row,
               booking'[b] = [booking[b] EXCEPT !.cancelled = TRUE]
        PROVE  /\ booking'[b] \in Row /\ booking'[b].cancelled
               /\ booking'[b].user = booking[b].user /\ booking'[b].stock = booking[b].stock
               /\ booking'[b].quantity = booking[b].quantity /\ booking'[b].code = booking[b].code
    BY <1>4 DEF Row
  <1>5. Marked
    BY <1>1, <1>3, <1>4 DEF Marked, Kept
  <1>6. booking' \in [BookingIds -> Row \union {Absent}]
    <2>1. \A b \in BookingIds : booking'[b] \in Row \union {Absent}
      BY <1>1, <1>3, <1>4 DEF TypeOK
    <2>2. booking' = [b \in BookingIds |-> booking'[b]]
      BY DEF ExpireBatch
    <2>. QED
      BY <2>1, <2>2
  <1>. QED
    BY <1>2, <1>5, <1>6, MarksAreSafe

LEMMA HandlingIsSafe ==
  ASSUME JobsSafe, NEW b \in BookingIds, HandleBooking(b)
  PROVE  JobsSafe' /\ Legal /\ Lasting
  <1>1. TypeOK /\ JobsTypeOK
    BY DEF JobsSafe, Capacity
  <1>2. nightly' \subseteq nightly /\ UNCHANGED <<stock, payment, lock, job, old, expiry>>
    BY DEF HandleBooking
  <1>3. CASE UNCHANGED booking
    BY <1>1, <1>2, <1>3, MarksAreSafe DEF Marked, TypeOK
  <1>4. CASE booking' = [booking EXCEPT ![b].used = TRUE]
    <2>. DEFINE row == [booking[b] EXCEPT !.used = TRUE]
    <2>1. booking[b] \in Row /\ booking' = [booking EXCEPT ![b] = row]
      BY <1>1, <1>4 DEF HandleBooking, JobsTypeOK, TypeOK, Exists
    <2>2. /\ row \in Row /\ row.user = booking[b].user /\ row.stock = booking[b].stock
          /\ row.quantity = booking[b].quantity /\ row.code = booking[b].code
          /\ row.cancelled = booking[b].cancelled /\ row.used
      BY <2>1 DEF Row
    <2>. HIDE DEF row
    <2>3. \A c \in BookingIds : Kept(c) => booking[c].used /\ ~booking[c].cancelled
      BY DEF Kept, Settled, Active
    <2>4. Marked /\ booking' \in [BookingIds -> Row \union {Absent}]
      BY <1>1, <2>1, <2>2, <2>3 DEF Marked, TypeOK
    <2>. QED
      BY <1>2, <2>4, MarksAreSafe
  <1>. QED
    BY <1>3, <1>4 DEF HandleBooking

\* The counters are written from an old snapshot, which nothing but the counter
\* of the stock depends on.
LEMMA WriteCountsIsSafe ==
  ASSUME JobsSafe, WriteCounts
  PROVE  JobsSafe' /\ Legal /\ Lasting
  <1>1. TypeOK /\ JobsHold /\ JobsTypeOK
    BY DEF JobsSafe, Capacity
  <1>2. /\ expiry' = [step |-> "idle", batch |-> {}, stocks |-> {}, counts |-> <<>>]
        /\ UNCHANGED <<booking, payment, lock, job, old, nightly>>
    BY DEF WriteCounts, NotExpiring
  <1>3. expiry.counts \in [expiry.stocks -> Nat]
    BY <1>1 DEF WriteCounts, JobsTypeOK
  <1>4. ASSUME NEW s \in Stocks
        PROVE  /\ stock'[s] \in StockRow /\ stock'[s].quantity = stock[s].quantity
               /\ stock'[s].deleted = stock[s].deleted
    <2>1. stock[s] \in StockRow
      BY <1>1 DEF TypeOK
    <2>2. CASE s \notin expiry.stocks
      BY <2>1, <2>2 DEF WriteCounts
    <2>3. CASE s \in expiry.stocks
      <3>1. stock'[s] = [stock[s] EXCEPT !.dn = expiry.counts[s]] /\ expiry.counts[s] \in Int
        BY <1>3, <2>3 DEF WriteCounts
      <3>. QED
        BY <2>1, <3>1 DEF StockRow
    <2>. QED
      BY <2>2, <2>3
  <1>5. stock' \in [Stocks -> StockRow]
    <2>1. stock' = [s \in Stocks |-> stock'[s]]
      BY DEF WriteCounts
    <2>. QED
      BY <1>4, <2>1
  <1>6. TypeOK' /\ JobsHold'
    BY <1>1, <1>2, <1>5 DEF TypeOK, JobsHold, JobHolds, Exists, Active
  <1>7. NoOverbooking'
    BY <1>2, <1>4 DEF JobsSafe, Capacity, NoOverbooking, Booked, Places
  <1>8. \A p \in Requests : job[p].step \in Granted => job[p].stock \in Stocks
    BY <1>1 DEF JobsHold, JobHolds, LockSteps, BookSteps, Granted
  <1>9. RoomHeld'
    BY <1>2, <1>4, <1>8 DEF JobsSafe, Capacity, RoomHeld, At, Granted, Booked, Places
  <1>10. Promised'
    <2>1. ASSUME NEW p \in Requests PROVE Held(p)'
      <3>1. Held(p)
        BY DEF JobsSafe, Promised
      <3>. QED
        BY <1>2, <1>4, <1>8, <3>1 DEF Held, ActiveOn, Active, Exists
    <2>2. CodesOwned' /\ CodesGivenOnce'
      BY <1>2 DEF JobsSafe, Promised, CodesOwned, CodesGivenOnce, Exists
    <2>. QED
      BY <1>6, <2>1, <2>2 DEF Promised
  <1>11. Legal /\ Lasting
    BY <1>2 DEF Kept, Settled, InHand, At, paid, Active, Exists, Legal, Lasting
  <1>12. JobsTypeOK'
    BY <1>1, <1>2 DEF JobsTypeOK, Exists
  <1>. QED
    BY <1>6, <1>7, <1>9, <1>10, <1>11, <1>12 DEF JobsSafe, Capacity

LEMMA JobsNextSafe == JobsSafe /\ [JobsNext]_allVars => JobsSafe' /\ Legal /\ Lasting
  <1>. SUFFICES ASSUME JobsSafe, [JobsNext]_allVars PROVE JobsSafe' /\ Legal /\ Lasting
    OBVIOUS
  <1>1. CASE ExpiryStep
    BY <1>1, ExpireBatchIsSafe, ExpiryReadsAreSafe, WriteCountsIsSafe DEF ExpiryStep
  <1>2. CASE HandleSome
    BY <1>2, HandlingIsSafe DEF HandleSome
  <1>. QED
    BY <1>1, <1>2, RequestsAreSafe, ExpiryReadsAreSafe, OtherReadsAreSafe DEF JobsNext

\* The requests and the jobs keep to their types while the expiry cancels
\* bookings whose stock others have locked; all that a request loses is that
\* what it is about to cancel is still active (CancelsActive).
THEOREM JobsTypeCorrect == JobsSpec => [](TypeOK /\ JobsHold /\ JobsTypeOK)
  <1>1. JobsSafe => TypeOK /\ JobsHold /\ JobsTypeOK
    BY DEF JobsSafe, Capacity
  <1>. QED
    BY <1>1, JobsSafeInit, JobsNextSafe, PTL DEF JobsSpec

\* The jobs of the clock take no lock, and yet no stock is overbooked beside
\* them: they free places only, and the recount writes no quantity.
THEOREM JobsNeverOverbook == JobsSpec => []NoOverbooking
  <1>1. JobsSafe => NoOverbooking
    BY DEF JobsSafe, Capacity
  <1>. QED
    BY <1>1, JobsSafeInit, JobsNextSafe, PTL DEF JobsSpec

\* A booking that has a payment, is used and is neither in a request's hands nor
\* in the batch of the expiry, whose UPDATE does not look at isUsed again, stays
\* so for ever beside the jobs.
THEOREM JobsRespectPayments == JobsSpec => PaidOutlastsJobs
  <1>1. JobsSafe /\ [JobsNext]_allVars => [Lasting]_allVars
    BY JobsNextSafe
  <1>. QED
    BY <1>1, JobsSafeInit, JobsNextSafe, PTL DEF JobsSpec, PaidOutlastsJobs, Lasting

\* Beside the jobs too, a new booking is its user's only one on that stock,
\* which is not deleted.
THEOREM JobsKeepBookingsLegal == JobsSpec => NewBookingsAreLegal
  <1>1. JobsSafe /\ [JobsNext]_allVars => [Legal]_vars
    BY JobsNextSafe
  <1>. QED
    BY <1>1, JobsSafeInit, JobsNextSafe, PTL DEF JobsSpec, NewBookingsAreLegal, Legal

\* And no activation code is given twice, for the code of an expired booking
\* is not free again.
THEOREM JobsReuseNoCode == JobsSpec => []CodesGivenOnce
  <1>1. JobsSafe => CodesGivenOnce
    BY DEF JobsSafe, Promised
  <1>. QED
    BY <1>1, JobsSafeInit, JobsNextSafe, PTL DEF JobsSpec
=============================================================================
