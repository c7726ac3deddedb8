---------------------------- MODULE OffersProofs ----------------------------
(* What TLAPS proves of Offers, for any number of offers and requests.      *)
EXTENDS Offers, TLAPS

Judged == {"PENDING", "APPROVED", "REJECTED"}

\* A request that has an offer in hand: which one, and what its checks have
\* established of the row it holds, which no later step changes.
Loaded(p) == LET j == job[p] IN
  /\ j.step # "idle" => j.offer \in Offers /\ (offer[j.offer] = Absent => j.offer \in old)
  /\ j.step \in {"judge", "decide"} => j.offer \in stocked
  /\ j.step = "decide" => j.seen.validation = "DRAFT"
  /\ j.step = "review" => j.seen.validation = "PENDING" /\ j.value \in {"APPROVED", "REJECTED"}
                            /\ Is(j.offer, Judged)
  /\ j.step = "switch" => j.value \in BOOLEAN /\ Is(j.offer, Judged)
  /\ j.step = "page" => j.value \in Validations
  /\ j.step = "write" => j.value \in BOOLEAN
  /\ j.step \in {"edit", "after"} => j.value \in {j.seen.validation, "APPROVED", "REJECTED"}
  /\ j.step \in Deciding \union Switching => j.seen \in Row

\* As long as nobody else decides, the validation in the table is the one the
\* request has seen, or the one it has written.
Decided(p) == LET j == job[p]
                  row == offer[j.offer] IN
  j.offer \notin disputed =>
    /\ j.step \in {"decide", "review"} => row.validation = j.seen.validation
    /\ j.step = "edit" => row = Absent \/ row.validation = j.seen.validation
    /\ j.step = "after" => row = Absent \/ row.validation = j.value

\* As long as nobody decides, what is being switched is still approved, and
\* what is being changed is not refused.
Switched(p) == LET j == job[p]
                   row == offer[j.offer] IN
  j.offer \notin switched =>
    /\ j.step = "switch" => row.validation = "APPROVED"
    /\ j.step = "write" => row = Absent \/ row.validation \in {"DRAFT", "APPROVED"}

\* An offer is not switched on while it is decided, so it was not active if
\* what was seen of it is refused, nor had bookings.
Inactive(p) == LET j == job[p]
                   row == offer[j.offer] IN
  /\ j.step \in Deciding /\ j.offer \notin disputed \union switched =>
       (row.isActive => j.seen.isActive)
  /\ j.step \in Deciding /\ j.offer \notin disputed \union switched \union cut =>
       (j.seen.validation \in {"PENDING", "REJECTED"} => ~j.seen.isActive)
  /\ j.step \in Deciding /\ j.offer \notin disputed \union cut =>
       (j.seen.validation = "REJECTED" /\ row.validation = "REJECTED" => j.offer \notin booked)

\* What disputed and switched record: who has the same offer in hand.
Alone == \A o \in Offers, p, q \in Requests : p # q /\ Holds(p, o, Deciding) =>
  /\ Holds(q, o, Deciding) => o \in disputed
  /\ Holds(q, o, Switching) => o \in switched

\* Only what has been approved is booked.
BookedApproved == \A o \in booked :
  o \in disputed \/ Is(o, {"APPROVED", "REJECTED"})

\* The fields of a job, whose values are of several types.
Shape ==
  /\ job = [p \in Requests |-> job[p]]
  /\ \A p \in Requests : job[p] = [step |-> job[p].step, offer |-> job[p].offer,
                                  seen |-> job[p].seen, value |-> job[p].value]

IInv ==
  /\ Shape
  /\ TypeOK
  /\ \A p \in Requests : Loaded(p) /\ Decided(p) /\ Switched(p) /\ Inactive(p)
  /\ Alone /\ BookedApproved
  /\ OnlyApprovedAreActive /\ RejectedKeepNoBooking
-----------------------------------------------------------------------------
LEMMA RowsArePresent == \A row \in Row : row # Absent
  BY OffersAssumption DEF Row, Absent

LEMMA TakeOK ==
  ASSUME IInv, NEW p \in Requests, NEW o \in Offers, NEW step, NEW value, Take(p, o, step, value),
         job[p].step \in {"idle", "judge", "page"},
         UNCHANGED <<offer, stocked, booked, old>>, offer[o] # Absent,
         \/ step = "stocks"
         \/ step = "page" /\ value \in Validations
         \/ step = "decide" /\ Is(o, {"DRAFT"}) /\ o \in stocked
         \/ step = "switch" /\ Is(o, {"APPROVED"}) /\ value \in BOOLEAN
         \/ step = "write" /\ Is(o, {"DRAFT", "APPROVED"}) /\ value \in BOOLEAN
         \/ step = "review" /\ Is(o, {"PENDING"}) /\ value \in {"APPROVED", "REJECTED"}
         \/ step = "edit" /\ value \in {offer[o].validation, "APPROVED", "REJECTED"}
  PROVE  IInv'
  <1>. DEFINE new == [step |-> step, offer |-> o, seen |-> offer[o], value |-> value]
  <1>1. /\ job' = [job EXCEPT ![p] = new]
        /\ job'[p] = new /\ \A q \in Requests \ {p} : job'[q] = job[q]
        /\ offer[o] \in Row
        /\ Shape'
    BY DEF IInv, Shape, TypeOK, Take
  <1>h. /\ disputed \subseteq disputed' /\ switched \subseteq switched' /\ cut' = cut
        /\ step \in Deciding /\ o \notin disputed' => \A q \in Requests \ {p} : ~Holds(q, o, Deciding)
        /\ step \in Deciding /\ o \notin switched' => \A q \in Requests \ {p} : ~Holds(q, o, Switching)
        /\ step \in Switching /\ o \notin switched' => \A q \in Requests \ {p} : ~Holds(q, o, Deciding)
    BY DEF Take
  <1>2. TypeOK'
    BY <1>1, <1>h DEF IInv, TypeOK, Take, Steps, Is
  <1>3. Loaded(p)' /\ Decided(p)' /\ Switched(p)'
    BY <1>1, <1>h DEF IInv, Loaded, Decided, Switched, Is, Deciding, Switching, Judged
  <1>4. Inactive(p)'
    BY <1>1, <1>h DEF IInv, Inactive, Is, Deciding, OnlyApprovedAreActive, RejectedKeepNoBooking, InProgress, Holds
  <1>5. ASSUME NEW q \in Requests \ {p} PROVE Loaded(q)' /\ Decided(q)' /\ Switched(q)' /\ Inactive(q)'
    BY <1>1, <1>h, <1>5 DEF IInv, Loaded, Decided, Switched, Inactive, Is
  <1>6. Alone'
    <2>. SUFFICES ASSUME NEW x \in Offers, NEW q \in Requests, NEW r \in Requests, q # r,
                         Holds(q, x, Deciding)'
                  PROVE  /\ Holds(r, x, Deciding)' => x \in disputed'
                         /\ Holds(r, x, Switching)' => x \in switched'
      BY DEF Alone, Holds
    <2>1. ASSUME NEW s \in Requests \ {p}
          PROVE  /\ Holds(s, x, Deciding)' <=> Holds(s, x, Deciding)
                 /\ Holds(s, x, Switching)' <=> Holds(s, x, Switching)
      BY <1>1 DEF Holds
    <2>2. /\ Holds(p, x, Deciding)' => x = o /\ step \in Deciding
          /\ Holds(p, x, Switching)' => x = o /\ step \in Switching
      BY <1>1 DEF Holds
    <2>3. CASE q = p
      BY <1>h, <2>1, <2>2, <2>3
    <2>4. CASE r = p
      BY <1>h, <2>1, <2>2, <2>4
    <2>5. CASE q # p /\ r # p
      BY <1>h, <2>1, <2>5 DEF IInv, Alone, Holds
    <2>. QED
      BY <2>3, <2>4, <2>5
  <1>7. BookedApproved'
    BY <1>1, <1>h DEF IInv, BookedApproved, Is
  <1>8. OnlyApprovedAreActive' /\ RejectedKeepNoBooking'
    BY <1>1, <1>h DEF IInv, OnlyApprovedAreActive, RejectedKeepNoBooking, Is, InProgress, Holds, Deciding
  <1>. QED
    BY <1>1, <1>2, <1>3, <1>4, <1>5, <1>6, <1>7, <1>8 DEF IInv

\* What a flush leaves in the row.
LEMMA Flushing ==
  ASSUME TypeOK, NEW p \in Requests, NEW new \in Row, Flush(p, new),
         job[p].offer \in Offers, offer[job[p].offer] \in Row, job[p].seen \in Row
  PROVE  LET o == job[p].offer
             seen == job[p].seen IN
         /\ offer' \in [Offers -> Row \union {Absent}] /\ offer'[o] \in Row
         /\ \A x \in Offers \ {o} : offer'[x] = offer[x]
         /\ offer'[o].validation = IF new.validation # seen.validation THEN new.validation ELSE offer[o].validation
         /\ offer'[o].isActive = IF new.isActive # seen.isActive THEN new.isActive ELSE offer[o].isActive
  <1>. DEFINE o == job[p].offer
              seen == job[p].seen
              flushed == [validation |-> IF new.validation # seen.validation THEN new.validation ELSE offer[o].validation,
                          isActive |-> IF new.isActive # seen.isActive THEN new.isActive ELSE offer[o].isActive]
  <1>1. DOMAIN offer[o] = {"validation", "isActive"}
    BY DEF Row
  <1>2. Flushed(offer[o], seen, new) = flushed
    BY <1>1 DEF Flushed
  <1>3. flushed \in Row
    BY DEF Row
  <1>4. offer' = [offer EXCEPT ![o] = flushed]
    BY <1>2 DEF Flush
  <1>. QED
    BY <1>3, <1>4 DEF TypeOK

\* Requests go on holding what they held, or less.
LEMMA AloneKept ==
  ASSUME Alone, disputed \subseteq disputed', switched \subseteq switched',
         \A q \in Requests, o \in Offers : /\ Holds(q, o, Deciding)' => Holds(q, o, Deciding)
                                           /\ Holds(q, o, Switching)' => Holds(q, o, Switching)
  PROVE  Alone'
  BY DEF Alone

\* What a request writes to the offer it holds does not matter to the others:
\* if they hold the same offer, that is recorded.
LEMMA OthersOK ==
  ASSUME IInv, NEW p \in Requests, NEW q \in Requests \ {p}, job'[q] = job[q],
         job[p].step \in Deciding \union Switching, UNCHANGED <<history, stocked, old>>,
         \A o \in Offers \ {job[p].offer} : offer'[o] = offer[o],
         booked' \subseteq booked,
         LET row == offer[job[p].offer]
             new == offer'[job[p].offer] IN
         /\ row.validation \in Judged => new.validation \in Judged
         /\ new = Absent => row = Absent
         /\ job[p].step \in Switching => new.validation = row.validation /\ (row = Absent => new = Absent)
  PROVE  Loaded(q)' /\ Decided(q)' /\ Switched(q)' /\ Inactive(q)'
  <1>. DEFINE o == job[p].offer
  <1>1. o \in Offers /\ UNCHANGED <<disputed, switched, cut>>
        /\ Loaded(q) /\ Decided(q) /\ Switched(q) /\ Inactive(q)
    BY DEF IInv, Loaded, Deciding, Switching, history
  <1>2. CASE job[q].offer # o \/ job[q].step = "idle"
    <2>1. job[q].step # "idle" => job[q].offer \in Offers /\ offer'[job[q].offer] = offer[job[q].offer]
      BY <1>1, <1>2 DEF Loaded
    <2>. QED
      BY <1>1, <2>1 DEF Loaded, Decided, Switched, Inactive, Is, Deciding
  <1>3. CASE job[q].offer = o /\ job[q].step # "idle"
    <2>1. /\ job[p].step \in Deciding /\ job[q].step \in Deciding => o \in disputed
          /\ job[p].step \in Deciding /\ job[q].step \in Switching => o \in switched
          /\ job[p].step \in Switching /\ job[q].step \in Deciding => o \in switched
      BY <1>1, <1>3 DEF IInv, Alone, Holds
    <2>2. Loaded(q)'
      BY <1>1, <1>3 DEF Loaded, Is
    <2>3. Decided(q)' /\ Switched(q)'
      BY <1>1, <1>3, <2>1 DEF Decided, Switched, Deciding, Switching
    <2>4. Inactive(q)'
      BY <1>1, <1>3, <2>1 DEF Inactive, Deciding, Switching
    <2>. QED
      BY <2>2, <2>3, <2>4
  <1>. QED
    BY <1>2, <1>3

\* A request that ends leaves the others, and the offers it did not write.
LEMMA Ending ==
  ASSUME IInv, NEW p \in Requests, End(p), UNCHANGED history
  PROVE  /\ Shape' /\ job'[p] = Idle /\ \A q \in Requests \ {p} : job'[q] = job[q]
         /\ Alone' /\ Loaded(p)' /\ Decided(p)' /\ Switched(p)' /\ Inactive(p)'
         /\ UNCHANGED <<disputed, switched, cut>>
  <1>1. job'[p] = Idle /\ (\A q \in Requests \ {p} : job'[q] = job[q]) /\ Shape'
    BY DEF IInv, Shape, End, Idle
  <1>2. disputed \subseteq disputed' /\ switched \subseteq switched' /\ UNCHANGED <<disputed, switched, cut>>
    BY DEF history
  <1>3. Alone'
    <2>1. \A q \in Requests, o \in Offers : /\ Holds(q, o, Deciding)' => Holds(q, o, Deciding)
                                            /\ Holds(q, o, Switching)' => Holds(q, o, Switching)
      BY <1>1 DEF Holds, Idle, Deciding, Switching
    <2>. QED
      BY <1>2, <2>1, AloneKept DEF IInv
  <1>4. Loaded(p)' /\ Decided(p)' /\ Switched(p)' /\ Inactive(p)'
    BY <1>1 DEF Loaded, Decided, Switched, Inactive, Idle, Deciding, Switching
  <1>. QED
    BY <1>1, <1>2, <1>3, <1>4

\* A request writes to its offer, if it still is there, and ends.
LEMMA EndingOK ==
  ASSUME IInv, NEW p \in Requests, job[p].step \in Deciding \union Switching, End(p),
         UNCHANGED <<history, stocked, old>>, booked' \subseteq booked,
         offer' \in [Offers -> Row \union {Absent}],
         \A x \in Offers \ {job[p].offer} : offer'[x] = offer[x],
         LET o == job[p].offer
             row == offer[o]
             new == offer'[o] IN
         /\ row.validation \in Judged => new.validation \in Judged
         /\ new = Absent => row = Absent
         /\ job[p].step \in Switching => new.validation = row.validation /\ (row = Absent => new = Absent)
         /\ o \in booked' => o \in disputed \/ new.validation \in {"APPROVED", "REJECTED"}
         /\ o \in booked' /\ new.validation = "REJECTED" =>
              o \in disputed \union cut \/ job[p].step \in Switching
         /\ new.validation \in {"PENDING", "REJECTED"} /\ new.isActive => o \in disputed \union switched \union cut
  PROVE  IInv'
  <1>. DEFINE o == job[p].offer
  <1>1. o \in Offers /\ UNCHANGED <<disputed, switched, cut>>
    BY DEF IInv, Loaded, Deciding, Switching, history
  <1>2. /\ Shape' /\ job'[p] = Idle /\ \A q \in Requests \ {p} : job'[q] = job[q]
        /\ Alone' /\ Loaded(p)' /\ Decided(p)' /\ Switched(p)' /\ Inactive(p)'
    BY Ending
  <1>3. TypeOK'
    BY <1>1, <1>2 DEF IInv, TypeOK, Idle, Steps
  <1>4. ASSUME NEW q \in Requests \ {p} PROVE Loaded(q)' /\ Decided(q)' /\ Switched(q)' /\ Inactive(q)'
    BY <1>2, OthersOK
  <1>5. \A x \in Offers : x # o \/ job[p].step \in Switching => (InProgress(x) => InProgress(x)')
    BY <1>2 DEF InProgress, Holds, Deciding, Switching
  <1>6. BookedApproved'
    BY <1>1 DEF IInv, TypeOK, BookedApproved, Is
  <1>7. RejectedKeepNoBooking'
    BY <1>1, <1>5 DEF IInv, RejectedKeepNoBooking, Is
  <1>8. OnlyApprovedAreActive'
    BY <1>1, <1>5 DEF IInv, OnlyApprovedAreActive, Is
  <1>. QED
    BY <1>2, <1>3, <1>4, <1>6, <1>7, <1>8 DEF IInv

LEMMA DecideOK ==
  ASSUME IInv, NEW p \in Requests, DecideOnCriteria(p)
  PROVE  IInv'
  <1>. DEFINE o == job[p].offer
  <1>1. PICK verdict \in Verdicts :
          Flush(p, [validation |-> verdict, isActive |-> job[p].seen.isActive /\ IsActiveOnce(verdict)])
    BY DEF DecideOnCriteria
  <1>2. /\ TypeOK /\ o \in Offers /\ job[p].seen \in Row /\ job[p].seen.validation = "DRAFT"
        /\ verdict \in Judged /\ verdict # "DRAFT" /\ job[p].step = "decide"
        /\ offer[o] \in Row
    BY OffersAssumption DEF IInv, TypeOK, Loaded, Deciding, DecideOnCriteria, At, Judged
  <1>3. /\ offer' \in [Offers -> Row \union {Absent}] /\ offer'[o] \in Row
        /\ \A x \in Offers \ {o} : offer'[x] = offer[x]
        /\ offer'[o].validation = verdict
        /\ verdict # "APPROVED" /\ offer'[o].isActive => offer[o].isActive /\ ~job[p].seen.isActive
    <2>1. [validation |-> verdict, isActive |-> job[p].seen.isActive /\ IsActiveOnce(verdict)] \in Row
      BY <1>2 DEF Row, Judged, Validations, IsActiveOnce
    <2>. DEFINE new == [validation |-> verdict, isActive |-> job[p].seen.isActive /\ IsActiveOnce(verdict)]
    <2>2. Flush(p, new) /\ new \in Row /\ new.validation = verdict
          /\ (verdict # "APPROVED" => new.isActive = FALSE)
      BY <1>1, <1>2, <2>1 DEF IsActiveOnce
    <2>. HIDE DEF new
    <2>. QED
      BY <1>2, <2>2, Flushing DEF Row
  <1>4. o \notin booked \/ o \in disputed
    BY <1>2 DEF IInv, Decided, BookedApproved, Is
  <1>5. offer[o].isActive => job[p].seen.isActive \/ o \in disputed \union switched
    BY <1>2 DEF IInv, Inactive, Deciding
  <1>. QED
    BY <1>2, <1>3, <1>4, <1>5, RowsArePresent, EndingOK DEF DecideOnCriteria, Deciding, Switching, Judged

LEMMA ReviewOK ==
  ASSUME IInv, NEW p \in Requests, Review(p)
  PROVE  IInv'
  <1>. DEFINE o == job[p].offer
              j == job[p]
              new == [validation |-> j.value, isActive |-> j.seen.isActive \/ j.value = "APPROVED"]
  <1>1. /\ TypeOK /\ o \in Offers /\ j.seen \in Row /\ j.seen.validation = "PENDING" /\ j.step = "review"
        /\ j.value \in {"APPROVED", "REJECTED"} /\ new \in Row
    BY DEF IInv, Loaded, Deciding, Review, At, Row, Validations
  <1>2. offer[o].validation \in Judged /\ (o \notin disputed => offer[o].validation = "PENDING")
    BY <1>1 DEF IInv, Loaded, Decided, Is
  <1>3. offer[o] \in Row
    BY <1>1, <1>2, OffersAssumption DEF TypeOK, Row, Absent, Judged, Validations
  <1>4. /\ offer' \in [Offers -> Row \union {Absent}] /\ offer'[o] \in Row
        /\ \A x \in Offers \ {o} : offer'[x] = offer[x]
        /\ offer'[o].validation = j.value
        /\ j.value = "REJECTED" => offer'[o].isActive = offer[o].isActive
    <2>1. Flush(p, new)
      BY DEF Review
    <2>2. new.validation = j.value /\ (j.value = "REJECTED" => new.isActive = j.seen.isActive)
      BY <1>1 DEF Row
    <2>. HIDE DEF new
    <2>. QED
      BY <1>1, <1>3, <2>1, <2>2, Flushing
  <1>5. o \in booked => o \in disputed
    BY <1>2 DEF IInv, BookedApproved, Is
  <1>6. offer[o].isActive => o \in disputed \union switched \union cut
    BY <1>1 DEF IInv, Inactive, Deciding
  <1>. QED
    BY <1>1, <1>2, <1>3, <1>4, <1>5, <1>6, RowsArePresent, EndingOK DEF Review, Deciding, Switching, Judged

LEMMA UpdateActiveStatusOK ==
  ASSUME IInv, NEW p \in Requests, UpdateActiveStatus(p)
  PROVE  IInv'
  <1>. DEFINE o == job[p].offer
  <1>1. /\ TypeOK /\ o \in Offers /\ job[p].value \in BOOLEAN /\ job[p].step = "switch"
        /\ offer[o].validation \in Judged
        /\ o \notin switched => offer[o].validation = "APPROVED"
    BY DEF IInv, Loaded, Switched, UpdateActiveStatus, At, Is
  <1>2. offer[o] \in Row
    BY <1>1, OffersAssumption DEF TypeOK, Row, Absent, Judged, Validations
  <1>3. /\ offer' \in [Offers -> Row \union {Absent}] /\ offer'[o] \in Row
        /\ \A x \in Offers \ {o} : offer'[x] = offer[x]
        /\ offer'[o].validation = offer[o].validation
    BY <1>1, <1>2 DEF UpdateActiveStatus, TypeOK, Row
  <1>4. o \in booked => o \in disputed \/ offer[o].validation \in {"APPROVED", "REJECTED"}
    BY <1>1 DEF IInv, BookedApproved, Is
  <1>. QED
    BY <1>1, <1>2, <1>3, <1>4, RowsArePresent, EndingOK DEF UpdateActiveStatus, Deciding, Switching, Judged

LEMMA UpdateOfferOK ==
  ASSUME IInv, NEW p \in Requests, UpdateOffer(p)
  PROVE  IInv'
  <1>. DEFINE o == job[p].offer
              new == [job[p].seen EXCEPT !.isActive = job[p].value]
  <1>1. /\ TypeOK /\ o \in Offers /\ job[p].value \in BOOLEAN /\ job[p].step = "write" /\ job[p].seen \in Row
        /\ o \notin switched => offer[o] = Absent \/ offer[o].validation \in {"DRAFT", "APPROVED"}
    BY DEF IInv, Loaded, Switched, UpdateOffer, At, Switching
  <1>2. o \in booked => o \in disputed \/ offer[o].validation \in {"APPROVED", "REJECTED"}
    BY <1>1 DEF IInv, BookedApproved, Is
  <1>3. CASE offer[o] = Absent
    BY <1>1, <1>2, <1>3, EndingOK DEF UpdateOffer, Deciding, Switching, TypeOK, Absent
  <1>4. CASE offer[o] # Absent
    <2>1. offer[o] \in Row /\ new \in Row /\ new.validation = job[p].seen.validation
      BY <1>1, <1>4 DEF TypeOK, Row
    <2>2. /\ offer' \in [Offers -> Row \union {Absent}] /\ offer'[o] \in Row
          /\ \A x \in Offers \ {o} : offer'[x] = offer[x]
          /\ offer'[o].validation = offer[o].validation
      BY <1>1, <1>4, <2>1, Flushing DEF UpdateOffer
    <2>. QED
      BY <1>1, <1>2, <2>1, <2>2, RowsArePresent, EndingOK DEF UpdateOffer, Deciding, Switching
  <1>. QED
    BY <1>3, <1>4

LEMMA AfterEditOK ==
  ASSUME IInv, NEW p \in Requests, AfterEdit(p)
  PROVE  IInv'
  <1>. DEFINE o == job[p].offer
              j == job[p]
              seen == j.seen.validation
  <1>1. /\ TypeOK /\ o \in Offers /\ j.step = "after" /\ j.step \in Deciding /\ j.step \notin Switching
        /\ j.seen \in Row /\ j.value \in {seen, "APPROVED", "REJECTED"}
        /\ o \in disputed \/ offer[o] = Absent \/ offer[o].validation = j.value
    BY DEF IInv, Loaded, Decided, AfterEdit, At, Deciding, Switching
  <1>2. o \in booked => o \in disputed \/ offer[o].validation \in {"APPROVED", "REJECTED"}
    BY <1>1 DEF IInv, BookedApproved, Is
  <1>3. CASE offer[o] = Absent \/ Is(o, {seen})
    <2>1. UNCHANGED <<offer, booked>>
      BY <1>3 DEF AfterEdit
    <2>2. offer[o].validation \in {"PENDING", "REJECTED"} =>
            /\ offer[o].isActive => o \in disputed \union switched \union cut
            /\ offer[o].validation = "REJECTED" /\ o \in booked => o \in disputed \union cut
      BY <1>1, <1>3, OffersAssumption DEF IInv, Inactive, Is, Absent, Validations
    <2>. QED
      BY <1>1, <1>2, <2>1, <2>2, EndingOK DEF AfterEdit, TypeOK
  <1>4. CASE ~(offer[o] = Absent \/ Is(o, {seen}))
    <2>1. offer[o] \in Row /\ (offer[o].validation \in {"APPROVED", "REJECTED"} \/ o \in disputed)
      BY <1>1, <1>4 DEF TypeOK, Is
    <2>2. /\ offer' \in [Offers -> Row \union {Absent}] /\ offer'[o] \in Row
          /\ \A x \in Offers \ {o} : offer'[x] = offer[x]
          /\ offer'[o].validation = offer[o].validation
          /\ Is(o, {"REJECTED"}) => ~offer'[o].isActive
          /\ booked' \subseteq booked /\ (Is(o, {"REJECTED"}) => o \notin booked')
      <3>. DEFINE on == Is(o, {"APPROVED"}) \/ (offer[o].isActive /\ ~Is(o, {"REJECTED"}))
      <3>1. offer' = [offer EXCEPT ![o].isActive = on] /\ CancelBookings(o)
        BY <1>4 DEF AfterEdit
      <3>2. on \in BOOLEAN /\ (Is(o, {"REJECTED"}) => ~on)
        BY <2>1 DEF Is
      <3>3. booked' \subseteq booked /\ (Is(o, {"REJECTED"}) => o \notin booked')
        BY <3>1 DEF CancelBookings
      <3>. HIDE DEF on
      <3>. QED
        BY <1>1, <2>1, <3>1, <3>2, <3>3 DEF TypeOK, Row
    <2>. QED
      BY <1>1, <1>2, <2>1, <2>2, RowsArePresent, EndingOK DEF AfterEdit, Is
  <1>. QED
    BY <1>3, <1>4

LEMMA CommitEditOK ==
  ASSUME IInv, NEW p \in Requests, CommitEdit(p)
  PROVE  IInv'
  <1>. DEFINE o == job[p].offer
              j == job[p]
              new == [j.seen EXCEPT !.validation = j.value]
  <1>1. /\ TypeOK /\ o \in Offers /\ j.step = "edit" /\ j.step \in Deciding /\ j.step \notin Switching
        /\ j.seen \in Row /\ j.value \in {j.seen.validation, "APPROVED", "REJECTED"} /\ new \in Row
        /\ o \in disputed \/ offer[o] = Absent \/ offer[o].validation = j.seen.validation
        /\ UNCHANGED <<stocked, booked, old, disputed, switched, cut>>
    BY DEF IInv, Loaded, Decided, CommitEdit, At, Deciding, Switching, Row, Validations, history
  <1>2. o \in booked => o \in disputed \/ offer[o].validation \in {"APPROVED", "REJECTED"}
    BY <1>1 DEF IInv, BookedApproved, Is
  <1>3. CASE offer[o] = Absent
    BY <1>1, <1>2, <1>3, OffersAssumption, EndingOK DEF CommitEdit, TypeOK, Absent, Validations
  <1>4. CASE offer[o] # Absent
    <2>1. /\ offer[o] \in Row
          /\ offer' \in [Offers -> Row \union {Absent}] /\ offer'[o] \in Row /\ offer'[o] # Absent
          /\ \A x \in Offers \ {o} : offer'[x] = offer[x]
          /\ offer'[o].isActive = offer[o].isActive
          /\ offer'[o].validation = IF j.value # j.seen.validation THEN j.value ELSE offer[o].validation
      BY <1>1, <1>4, Flushing, RowsArePresent DEF TypeOK, CommitEdit, Row
    <2>2. /\ job' = [job EXCEPT ![p].step = "after"] /\ job'[p] = [j EXCEPT !.step = "after"]
          /\ job'[p].offer = o /\ job'[p].step = "after" /\ job'[p].seen = j.seen /\ job'[p].value = j.value
          /\ \A q \in Requests \ {p} : job'[q] = job[q]
          /\ Shape'
      BY <1>4 DEF CommitEdit, IInv, Shape
    <2>3. TypeOK'
      BY <1>1, <2>1, <2>2 DEF TypeOK, Steps
    <2>4. Loaded(p)'
      BY <1>1, <2>1, <2>2 DEF Loaded, Switching
    <2>5. Decided(p)' /\ Switched(p)'
      BY <1>1, <1>4, <2>1, <2>2 DEF Decided, Switched
    <2>6. Inactive(p)'
      BY <1>1, <2>1, <2>2 DEF IInv, Inactive, Deciding
    <2>7. ASSUME NEW q \in Requests \ {p} PROVE Loaded(q)' /\ Decided(q)' /\ Switched(q)' /\ Inactive(q)'
      <3>1. UNCHANGED <<history, stocked, old>> /\ booked' \subseteq booked
        BY <1>1 DEF history
      <3>. QED
        BY <1>1, <2>1, <2>2, <3>1, OthersOK DEF Judged
    <2>8. Alone'
      <3>1. \A q \in Requests, x \in Offers : /\ Holds(q, x, Deciding)' => Holds(q, x, Deciding)
                                              /\ Holds(q, x, Switching)' => Holds(q, x, Switching)
        BY <1>1, <2>2 DEF Holds, Deciding, Switching
      <3>. QED
        BY <1>1, <3>1, AloneKept DEF IInv
    <2>9. \A x \in Offers : InProgress(x) => InProgress(x)'
      BY <1>1, <2>2 DEF InProgress, Holds, Deciding
    <2>10. \A x \in Offers : x = o => InProgress(x)'
      BY <2>2 DEF InProgress, Holds, Deciding
    <2>11. BookedApproved'
      BY <1>1, <1>2, <2>1 DEF IInv, TypeOK, BookedApproved, Is
    <2>12. OnlyApprovedAreActive' /\ RejectedKeepNoBooking'
      BY <1>1, <2>1, <2>9, <2>10 DEF IInv, OnlyApprovedAreActive, RejectedKeepNoBooking, Is
    <2>. QED
      BY <2>2, <2>3, <2>4, <2>5, <2>6, <2>7, <2>8, <2>11, <2>12 DEF IInv
  <1>. QED
    BY <1>3, <1>4

\* What changes no offer, and no decision or switch in progress.
LEMMA AsideOK ==
  ASSUME IInv, NEW p \in Requests, Shape', UNCHANGED <<offer, booked, old, disputed, switched>>,
         stocked \subseteq stocked', stocked' \subseteq {o \in Offers : offer[o] # Absent}, cut \subseteq cut', cut' \subseteq Offers,
         \A q \in Requests \ {p} : job'[q] = job[q],
         \/ job'[p] = Idle /\ (job[p].step \in Deciding => job[p].offer \in cut')
         \/ /\ job'[p].step = "judge" /\ job[p].step = "stocks"
            /\ job'[p].offer = job[p].offer /\ job'[p].seen = job[p].seen /\ job[p].offer \in stocked'
  PROVE  IInv'
  <1>1. TypeOK'
    BY DEF IInv, TypeOK, Idle, Steps
  <1>2. ASSUME NEW q \in Requests PROVE Loaded(q)' /\ Decided(q)' /\ Switched(q)' /\ Inactive(q)'
    <2>1. CASE q = p
      BY <2>1 DEF IInv, Loaded, Decided, Switched, Inactive, Idle, Deciding, Switching
    <2>2. CASE q # p
      BY <2>2 DEF IInv, Loaded, Decided, Switched, Inactive, Is
    <2>. QED
      BY <2>1, <2>2
  <1>3. Alone'
    <2>1. \A q \in Requests, o \in Offers : /\ Holds(q, o, Deciding)' => Holds(q, o, Deciding)
                                            /\ Holds(q, o, Switching)' => Holds(q, o, Switching)
      BY DEF Holds, Idle, Deciding, Switching
    <2>. QED
      BY <2>1, AloneKept DEF IInv
  <1>4. \A o \in Offers : InProgress(o) => InProgress(o)' \/ o \in cut'
    BY DEF InProgress, Holds, Deciding
  <1>5. BookedApproved' /\ OnlyApprovedAreActive' /\ RejectedKeepNoBooking'
    BY <1>4 DEF IInv, BookedApproved, OnlyApprovedAreActive, RejectedKeepNoBooking, Is
  <1>. QED
    BY <1>1, <1>2, <1>3, <1>5 DEF IInv

LEMMA SaveStocksOK ==
  ASSUME IInv, NEW p \in Requests, SaveStocks(p)
  PROVE  IInv'
  <1>. DEFINE o == job[p].offer
  <1>1. o \in Offers /\ UNCHANGED <<offer, booked, old, disputed, switched, cut>> /\ job[p].step = "stocks"
        /\ TypeOK
    BY DEF IInv, Loaded, SaveStocks, At, history
  <1>2. CASE offer[o] = Absent
    <2>1. Shape' /\ job'[p] = Idle /\ \A q \in Requests \ {p} : job'[q] = job[q]
      BY <1>2, Ending DEF SaveStocks
    <2>. QED
      BY <1>1, <1>2, <2>1, AsideOK DEF SaveStocks, Deciding, TypeOK
  <1>3. CASE offer[o] # Absent
    <2>1. /\ Shape' /\ job'[p].step = "judge" /\ job'[p].offer = o /\ job'[p].seen = job[p].seen
          /\ \A q \in Requests \ {p} : job'[q] = job[q]
          /\ stocked' = stocked \union {o}
      BY <1>3 DEF SaveStocks, IInv, Shape
    <2>. QED
      BY <1>1, <1>3, <2>1, AsideOK DEF TypeOK
  <1>. QED
    BY <1>2, <1>3

LEMMA KillOK ==
  ASSUME IInv, NEW p \in Requests, Kill(p)
  PROVE  IInv'
  <1>1. /\ Shape' /\ job'[p] = Idle /\ \A q \in Requests \ {p} : job'[q] = job[q]
    BY DEF IInv, Shape, Kill, End, Idle
  <1>2. job[p].offer \in Offers /\ cut' = cut \union {job[p].offer} /\ TypeOK
    BY DEF Kill, IInv, Loaded
  <1>. QED
    BY <1>1, <1>2, AsideOK DEF Kill, TypeOK

LEMMA CreateOfferOK ==
  ASSUME IInv, NEW o \in Offers, CreateOffer(o)
  PROVE  IInv'
  <1>1. /\ offer' = [offer EXCEPT ![o] = [validation |-> "DRAFT", isActive |-> TRUE]]
        /\ UNCHANGED <<stocked, booked, old, job, disputed, switched, cut>> /\ TypeOK
        /\ o \notin old /\ offer[o] = Absent
    BY DEF CreateOffer, history, IInv
  <1>2. offer'[o] = [validation |-> "DRAFT", isActive |-> TRUE] /\ offer'[o] \in Row
        /\ (\A x \in Offers \ {o} : offer'[x] = offer[x]) /\ o \notin stocked /\ o \notin booked
        /\ offer' \in [Offers -> Row \union {Absent}] /\ offer'[o] # Absent
    BY <1>1, RowsArePresent DEF TypeOK, Row, Validations
  <1>3. TypeOK'
    BY <1>1, <1>2 DEF TypeOK
  <1>4. ASSUME NEW q \in Requests PROVE Loaded(q)' /\ Decided(q)' /\ Switched(q)' /\ Inactive(q)'
    <2>1. job[q].step = "idle" \/ (job[q].offer \in Offers /\ job[q].offer # o)
      BY <1>1 DEF IInv, Loaded
    <2>. QED
      BY <1>1, <1>2, <2>1 DEF IInv, Loaded, Decided, Switched, Inactive, Is, Deciding, Switching
  <1>5. Alone' /\ Shape'
    BY <1>1 DEF IInv, Alone, Holds, Shape
  <1>6. BookedApproved' /\ OnlyApprovedAreActive' /\ RejectedKeepNoBooking'
    BY <1>1, <1>2 DEF IInv, BookedApproved, OnlyApprovedAreActive, RejectedKeepNoBooking, Is, InProgress, Holds, TypeOK
  <1>. QED
    BY <1>3, <1>4, <1>5, <1>6 DEF IInv

LEMMA DeactivateInappropriateOK ==
  ASSUME IInv, NEW o \in Offers, DeactivateInappropriate(o)
  PROVE  IInv'
  <1>1. /\ offer' = [offer EXCEPT ![o].isActive = FALSE]
        /\ UNCHANGED <<stocked, booked, old, job, disputed, switched, cut>> /\ TypeOK
        /\ offer[o].isActive
    BY DEF DeactivateInappropriate, history, IInv
  <1>2. offer[o] \in Row
    BY <1>1 DEF TypeOK, Absent
  <1>3. offer'[o] \in Row /\ offer'[o].validation = offer[o].validation /\ ~offer'[o].isActive
        /\ (\A x \in Offers \ {o} : offer'[x] = offer[x])
        /\ offer' \in [Offers -> Row \union {Absent}] /\ offer'[o] # Absent /\ offer[o] # Absent
    BY <1>1, <1>2, RowsArePresent DEF TypeOK, Row
  <1>4. TypeOK'
    BY <1>1, <1>3 DEF TypeOK
  <1>5. ASSUME NEW q \in Requests PROVE Loaded(q)' /\ Decided(q)' /\ Switched(q)' /\ Inactive(q)'
    <2>1. job[q].step # "idle" => job[q].offer \in Offers
      BY DEF IInv, Loaded
    <2>. QED
      BY <1>1, <1>3, <2>1 DEF IInv, Loaded, Decided, Switched, Inactive, Is, Deciding, Switching
  <1>6. Alone' /\ Shape'
    BY <1>1 DEF IInv, Alone, Holds, Shape
  <1>7. BookedApproved' /\ OnlyApprovedAreActive' /\ RejectedKeepNoBooking'
    BY <1>1, <1>3 DEF IInv, BookedApproved, OnlyApprovedAreActive, RejectedKeepNoBooking, Is, InProgress, Holds, TypeOK
  <1>. QED
    BY <1>4, <1>5, <1>6, <1>7 DEF IInv

LEMMA BookOfferOK ==
  ASSUME IInv, NEW o \in Offers, BookOffer(o)
  PROVE  IInv'
  <1>1. /\ UNCHANGED <<offer, stocked, old, job, disputed, switched, cut>> /\ TypeOK
        /\ o \in stocked /\ booked' = booked \union {o}
        /\ offer[o].validation = "APPROVED"
    BY DEF BookOffer, history, IInv
  <1>2. TypeOK'
    BY <1>1 DEF TypeOK
  <1>3. ASSUME NEW q \in Requests PROVE Loaded(q)' /\ Decided(q)' /\ Switched(q)' /\ Inactive(q)'
    BY <1>1 DEF IInv, Loaded, Decided, Switched, Inactive, Is
  <1>4. Alone' /\ Shape'
    BY <1>1 DEF IInv, Alone, Holds, Shape
  <1>5. BookedApproved' /\ OnlyApprovedAreActive' /\ RejectedKeepNoBooking'
    BY <1>1 DEF IInv, BookedApproved, OnlyApprovedAreActive, RejectedKeepNoBooking, Is, InProgress, Holds
  <1>. QED
    BY <1>2, <1>3, <1>4, <1>5 DEF IInv

LEMMA DayPassesOK ==
  ASSUME IInv, DayPasses
  PROVE  IInv'
  <1>1. UNCHANGED <<offer, stocked, booked, job, disputed, switched, cut>> /\ TypeOK
        /\ old \subseteq old' /\ old' \subseteq Offers
    BY DEF DayPasses, history, IInv, TypeOK
  <1>2. TypeOK'
    BY <1>1 DEF TypeOK
  <1>3. ASSUME NEW q \in Requests PROVE Loaded(q)' /\ Decided(q)' /\ Switched(q)' /\ Inactive(q)'
    BY <1>1 DEF IInv, Loaded, Decided, Switched, Inactive, Is
  <1>4. Alone' /\ Shape' /\ BookedApproved' /\ OnlyApprovedAreActive' /\ RejectedKeepNoBooking'
    BY <1>1 DEF IInv, Alone, Holds, Shape, BookedApproved, OnlyApprovedAreActive, RejectedKeepNoBooking, Is, InProgress
  <1>. QED
    BY <1>2, <1>3, <1>4 DEF IInv

\* The offer of a request is purged only as a draft without stocks, which no
\* request that decides, reviews or switches may hold.
LEMMA DeletePastDraftsOK ==
  ASSUME IInv, DeletePastDrafts
  PROVE  IInv'
  <1>1. /\ UNCHANGED <<stocked, booked, old, job, disputed, switched, cut>> /\ TypeOK
        /\ offer' = [o \in Offers |-> IF o \in PastDrafts THEN Absent ELSE offer[o]]
        /\ \A o \in PastDrafts : offer[o].validation = "DRAFT" /\ o \notin stocked /\ o \in old
    BY DEF DeletePastDrafts, PastDrafts, Deletable, Is, history, IInv
  <1>2. TypeOK'
    BY <1>1 DEF TypeOK
  <1>3. ASSUME NEW q \in Requests PROVE Loaded(q)' /\ Decided(q)' /\ Switched(q)' /\ Inactive(q)'
    <2>1. job[q].step # "idle" => job[q].offer \in Offers
      BY DEF IInv, Loaded
    <2>2. CASE job[q].step = "idle"
      BY <1>1, <2>2 DEF Loaded, Decided, Switched, Inactive, Deciding, Switching
    <2>3. CASE job[q].step # "idle" /\ job[q].offer \notin PastDrafts
      BY <1>1, <2>1, <2>3 DEF IInv, Loaded, Decided, Switched, Inactive, Is, Deciding, Switching
    <2>4. CASE job[q].step # "idle" /\ job[q].offer \in PastDrafts
      BY <1>1, <2>1, <2>4 DEF IInv, Loaded, Decided, Switched, Inactive, Is, Deciding, Switching, Judged, Absent, TypeOK
    <2>. QED
      BY <2>2, <2>3, <2>4
  <1>4. Alone' /\ Shape'
    BY <1>1 DEF IInv, Alone, Holds, Shape
  <1>5. BookedApproved'
    BY <1>1 DEF IInv, BookedApproved, Is, TypeOK
  <1>6. OnlyApprovedAreActive' /\ RejectedKeepNoBooking'
    BY <1>1 DEF IInv, OnlyApprovedAreActive, RejectedKeepNoBooking, Is, InProgress, Holds, TypeOK, Absent
  <1>. QED
    BY <1>2, <1>3, <1>4, <1>5, <1>6 DEF IInv

LEMMA InitOK == Init => IInv
  <1>. SUFFICES ASSUME Init PROVE IInv
    OBVIOUS
  <1>1. TypeOK /\ Shape
    BY DEF Init, TypeOK, Shape, Idle, Steps
  <1>2. \A p \in Requests : Loaded(p) /\ Decided(p) /\ Switched(p) /\ Inactive(p)
    BY DEF Init, Loaded, Decided, Switched, Inactive, Idle, Deciding, Switching
  <1>3. Alone /\ BookedApproved /\ OnlyApprovedAreActive /\ RejectedKeepNoBooking
    BY DEF Init, Alone, Holds, Idle, Deciding, BookedApproved, OnlyApprovedAreActive, RejectedKeepNoBooking, Absent
  <1>. QED
    BY <1>1, <1>2, <1>3 DEF IInv

LEMMA NextOK == IInv /\ [Next]_vars => IInv'
  <1>. SUFFICES ASSUME IInv, [Next]_vars PROVE IInv'
    OBVIOUS
  <1>. USE DEF Requests
  <1>1. ASSUME NEW o \in Offers,
               CreateOffer(o) \/ DeactivateInappropriate(o) \/ BookOffer(o)
        PROVE  IInv'
    BY <1>1, CreateOfferOK, DeactivateInappropriateOK, BookOfferOK
  <1>2. ASSUME NEW o \in Offers, NEW p \in Pros, UpsertStocks(p, o)
        PROVE  IInv'
    <2>1. Take(p, o, "stocks", None) /\ offer[o] # Absent
      BY <1>2, OffersAssumption DEF UpsertStocks, Modifiable, Is, Absent, Validations
    <2>. QED
      BY <1>2, <2>1, TakeOK DEF UpsertStocks, At
  <1>3. ASSUME NEW o \in Offers, NEW p \in Pros, SelectOffers(p, o)
        PROVE  IInv'
    <2>1. PICK on \in BOOLEAN : Take(p, o, "switch", on)
      BY <1>3 DEF SelectOffers
    <2>2. offer[o] # Absent /\ Is(o, {"APPROVED"})
      BY <1>3, OffersAssumption DEF SelectOffers, Switchable, Is, Absent, Validations
    <2>. QED
      BY <1>3, <2>1, <2>2, TakeOK DEF SelectOffers, At
  <1>4. ASSUME NEW o \in Offers, NEW p \in Pros, LoadOffer(p, o)
        PROVE  IInv'
    <2>1. Take(p, o, "write", ~offer[o].isActive) /\ offer[o] # Absent /\ Is(o, {"DRAFT", "APPROVED"})
      BY <1>4, OffersAssumption DEF LoadOffer, Modifiable, Is, Absent, Validations
    <2>. DEFINE off == ~offer[o].isActive
    <2>2. off \in BOOLEAN
      OBVIOUS
    <2>. HIDE DEF off
    <2>3. Take(p, o, "write", off)
      BY <2>1 DEF off
    <2>. QED
      BY <1>4, <2>1, <2>2, <2>3, TakeOK DEF LoadOffer, At
  <1>5. ASSUME NEW o \in Offers, NEW p \in Admins, LoadPending(p, o)
        PROVE  IInv'
    <2>1. PICK v \in {"APPROVED", "REJECTED"} : Take(p, o, "review", v)
      BY <1>5 DEF LoadPending
    <2>2. offer[o] # Absent /\ Is(o, {"PENDING"})
      BY <1>5, OffersAssumption DEF LoadPending, Reviewable, Is, Absent, Validations
    <2>. QED
      BY <1>5, <2>1, <2>2, TakeOK DEF LoadPending, At
  <1>6. ASSUME NEW o \in Offers, NEW p \in Admins, OpenPage(p, o)
        PROVE  IInv'
    <2>1. Take(p, o, "page", offer[o].validation) /\ offer[o] # Absent /\ offer[o].validation \in Validations
      BY <1>6 DEF OpenPage, IInv, TypeOK, Row
    <2>. QED
      BY <1>6, <2>1, TakeOK DEF OpenPage, At
  <1>7. ASSUME NEW p \in Pros, Continue(p)
        PROVE  IInv'
    <2>1. CASE ReadDraft(p)
      <3>. DEFINE o == job[p].offer
      <3>1. o \in Offers /\ o \in stocked /\ offer[o] # Absent /\ job[p].step = "judge"
            /\ UNCHANGED <<offer, stocked, booked, old>> /\ TypeOK
        BY <2>1 DEF ReadDraft, IInv, Loaded, TypeOK, At
      <3>2. CASE Is(o, {"DRAFT"})
        BY <2>1, <3>1, <3>2, TakeOK DEF ReadDraft
      <3>3. CASE ~Is(o, {"DRAFT"})
        <4>1. End(p) /\ UNCHANGED history
          BY <2>1, <3>3 DEF ReadDraft
        <4>. QED
          BY <3>1, <4>1, Ending, AsideOK DEF Deciding, TypeOK
      <3>. QED
        BY <3>2, <3>3
    <2>. QED
      BY <1>7, <2>1, SaveStocksOK, DecideOK, UpdateActiveStatusOK, UpdateOfferOK DEF Continue
  <1>8. ASSUME NEW p \in Admins, SubmitPage(p)
        PROVE  IInv'
    <2>. DEFINE o == job[p].offer
    <2>1. PICK v \in {job[p].value, "APPROVED", "REJECTED"} :
            IF offer[o] = Absent \/ (v # offer[o].validation /\ v \in {"DRAFT", "PENDING"})
            THEN End(p) /\ UNCHANGED history
            ELSE Take(p, o, "edit", v)
      BY <1>8 DEF SubmitPage
    <2>2. o \in Offers /\ job[p].step = "page" /\ UNCHANGED <<offer, stocked, booked, old>> /\ TypeOK
      BY <1>8 DEF SubmitPage, IInv, Loaded, At
    <2>3. CASE offer[o] = Absent \/ (v # offer[o].validation /\ v \in {"DRAFT", "PENDING"})
      <3>1. End(p) /\ UNCHANGED history
        BY <2>1, <2>3
      <3>. QED
        BY <2>2, <3>1, Ending, AsideOK DEF Deciding, TypeOK
    <2>4. CASE ~(offer[o] = Absent \/ (v # offer[o].validation /\ v \in {"DRAFT", "PENDING"}))
      <3>1. Take(p, o, "edit", v)
        BY <2>1, <2>4
      <3>2. v \in {offer[o].validation, "APPROVED", "REJECTED"}
        BY <2>2, <2>4 DEF IInv, Loaded, Validations
      <3>. QED
        BY <2>2, <2>4, <3>1, <3>2, TakeOK
    <2>. QED
      BY <2>3, <2>4
  <1>9. ASSUME NEW p \in Requests, Kill(p)
        PROVE  IInv'
    BY <1>9, KillOK
  <1>10. ASSUME NEW p \in Admins, Review(p) \/ CommitEdit(p) \/ AfterEdit(p)
         PROVE  IInv'
    BY <1>10, ReviewOK, CommitEditOK, AfterEditOK
  <1>11. CASE UNCHANGED vars
    <2>1. UNCHANGED <<offer, stocked, booked, old, job, edits, kills, disputed, switched, cut>>
      BY <1>11 DEF vars, history
    <2>2. Shape' /\ TypeOK'
      BY <2>1 DEF IInv, Shape, TypeOK
    <2>3. ASSUME NEW p \in Requests PROVE Loaded(p)' /\ Decided(p)' /\ Switched(p)' /\ Inactive(p)'
      <3>1. Loaded(p) /\ Decided(p) /\ Switched(p) /\ Inactive(p)
        BY DEF IInv
      <3>2. Loaded(p)' /\ Decided(p)'
        BY <2>1, <3>1 DEF Loaded, Decided, Is
      <3>3. Switched(p)' /\ Inactive(p)'
        BY <2>1, <3>1 DEF Switched, Inactive
      <3>. QED
        BY <3>2, <3>3
    <2>4. Alone' /\ BookedApproved'
      BY <2>1 DEF IInv, Alone, Holds, BookedApproved, Is
    <2>5. OnlyApprovedAreActive' /\ RejectedKeepNoBooking'
      BY <2>1 DEF IInv, OnlyApprovedAreActive, RejectedKeepNoBooking, Is, InProgress, Holds
    <2>. QED
      BY <2>2, <2>3, <2>4, <2>5 DEF IInv
  <1>. QED
    BY <1>1, <1>2, <1>3, <1>4, <1>5, <1>6, <1>7, <1>8, <1>9, <1>10, <1>11, DayPassesOK, DeletePastDraftsOK DEF Next

-----------------------------------------------------------------------------
THEOREM Inductive == Spec => []IInv
  BY InitOK, NextOK, PTL DEF Spec

\* What is refused or awaits a decision is not active, however the requests
\* of partners and administrators cross (set_offer_status_based_on_fraud_criteria,
\* update_offers_active_status, update_pending_offer_validation, OfferView).
THEOREM RefusedAreInactive == Spec => []OnlyApprovedAreActive
  <1>1. IInv => OnlyApprovedAreActive
    BY DEF IInv
  <1>. QED
    BY <1>1, Inductive, PTL

\* A rejected offer has no booking left that may be cancelled
\* (cancel_bookings_from_rejected_offer), unless two requests decided of it at
\* once, or one was killed before it cancelled them.
THEOREM RejectedAreCancelled == Spec => []RejectedKeepNoBooking
  <1>1. IInv => RejectedKeepNoBooking
    BY DEF IInv
  <1>. QED
    BY <1>1, Inductive, PTL

\* A decision is changed by the edit of an administrator only: the criteria
\* decide of drafts, a review of what is pending, and a flush of the other
\* columns leaves the validation as it is.
THEOREM OnlyEditsChangeDecisions == Spec => DecisionsStand
  <1>1. IInv /\ [Next]_vars => [\A o \in Offers :
          Is(o, {"APPROVED", "REJECTED"}) /\ offer'[o].validation # offer[o].validation =>
            o \in disputed \/ \E a \in Admins : Holds(a, o, {"edit"})]_vars
    <2>. SUFFICES ASSUME IInv, Next, NEW o \in Offers, offer[o].validation \in {"APPROVED", "REJECTED"},
                         offer'[o].validation # offer[o].validation, o \notin disputed
                  PROVE  \E a \in Admins : Holds(a, o, {"edit"})
      BY DEF Is
    <2>1. TypeOK /\ \A p \in Requests : Loaded(p) /\ Decided(p)
      BY DEF IInv
    <2>2. offer[o] \in Row /\ offer[o] # Absent
      BY <2>1, OffersAssumption DEF TypeOK, Row, Absent, Validations
    <2>3. ASSUME NEW p \in Requests, DecideOnCriteria(p) \/ Review(p)
          PROVE  FALSE
      <3>1. job[p].offer # o => offer'[o] = offer[o]
        BY <2>1, <2>3 DEF DecideOnCriteria, Review, Flush, TypeOK
      <3>. QED
        BY <2>1, <2>3, <3>1 DEF DecideOnCriteria, Review, At, Decided, Loaded
    <2>4. ASSUME NEW p \in Requests, UpdateActiveStatus(p) \/ UpdateOffer(p) \/ AfterEdit(p)
          PROVE  FALSE
      <3>1. CASE UpdateActiveStatus(p)
        BY <2>1, <2>2, <3>1 DEF UpdateActiveStatus, TypeOK, Row
      <3>2. CASE UpdateOffer(p)
        <4>. DEFINE x == job[p].offer
                    new == [job[p].seen EXCEPT !.isActive = job[p].value]
        <4>1. offer[x] # Absent /\ Flush(p, new) /\ x = o
          BY <2>1, <3>2 DEF UpdateOffer, Flush, TypeOK
        <4>2. new \in Row /\ new.validation = job[p].seen.validation /\ job[p].seen \in Row
          BY <2>1, <3>2 DEF UpdateOffer, At, Loaded, Switching, Row
        <4>. QED
          BY <2>1, <2>2, <4>1, <4>2, Flushing
      <3>3. CASE AfterEdit(p)
        BY <2>1, <2>2, <3>3 DEF AfterEdit, TypeOK, Row
      <3>. QED
        BY <2>4, <3>1, <3>2, <3>3
    <2>5. ASSUME NEW p \in Admins, CommitEdit(p)
          PROVE  Holds(p, o, {"edit"})
      BY <2>1, <2>5 DEF CommitEdit, Flush, At, Holds, TypeOK
    <2>6. ASSUME NEW x \in Offers, CreateOffer(x) \/ DeactivateInappropriate(x)
          PROVE  FALSE
      BY <2>1, <2>2, <2>6 DEF CreateOffer, DeactivateInappropriate, TypeOK, Row
    <2>7. ~DeletePastDrafts
      BY <2>1 DEF DeletePastDrafts, PastDrafts, Is, TypeOK
    <2>. QED
      BY <2>3, <2>4, <2>5, <2>6, <2>7 DEF Next, Continue, Requests, BookOffer, UpsertStocks, SelectOffers,
         LoadOffer, LoadPending, OpenPage, SaveStocks, ReadDraft, SubmitPage, Kill, DayPasses
  <1>. QED
    BY <1>1, Inductive, PTL DEF Spec, DecisionsStand
=============================================================================
