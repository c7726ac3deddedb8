--------------------------- MODULE PaymentsProofs ---------------------------
(* What TLAPS proves of Payments and of Reimbursement, for any number of    *)
(* bookings, venues and batches.  The last part is about turnovers, which   *)
(* are sums over sets of bookings.                                          *)
EXTENDS Payments, TLAPS, FiniteSetTheorems, SequenceTheorems, WellFoundedInduction

-----------------------------------------------------------------------------
(* Reimbursement                                                           *)

LEMMA Rates == /\ RateOf["digital"] = 0 /\ RateOf["physical"] = 100 /\ RateOf["first"] = 95
               /\ RateOf["second"] = 85 /\ RateOf["third"] = 70 /\ RateOf["book"] = 95
  BY DEF RateOf
LEMMA CandidatesAre ==
  ASSUME NEW kind \in Kind, NEW turnover \in Int
  PROVE  /\ "digital" \in Candidates(kind, turnover) <=> kind.isDigital /\ ~IsException(kind)
         /\ "physical" \in Candidates(kind, turnover) <=> CountsInTurnover(kind)
         /\ "first" \in Candidates(kind, turnover) <=> ~kind.productIsDigital /\ FirstCap < turnover /\ turnover <= SecondCap
         /\ "second" \in Candidates(kind, turnover) <=> ~kind.productIsDigital /\ SecondCap < turnover /\ turnover <= ThirdCap
         /\ "third" \in Candidates(kind, turnover) <=> ~kind.productIsDigital /\ ThirdCap < turnover
         /\ "book" \in Candidates(kind, turnover) <=> kind.type = "book" /\ FirstCap < turnover
         /\ Candidates(kind, turnover) \subseteq Rules
  <1>1. Candidates(kind, turnover) \subseteq Rules /\ \A r \in Rules : r \in Candidates(kind, turnover) <=> IsRelevant(r, kind, turnover)
    BY DEF Candidates
  <1>. QED
   BY <1>1 DEF Rules, IsRelevant

LEMMA BestCandidate ==
  ASSUME NEW candidates, candidates \subseteq Rules, NEW best \in candidates,
         \A other \in candidates : RateOf[best] <= RateOf[other]
  PROVE  RateOf[CHOOSE rule \in candidates : \A other \in candidates : RateOf[rule] <= RateOf[other]] = RateOf[best]
  <1>. DEFINE Least(rule) == \A other \in candidates : RateOf[rule] <= RateOf[other]
              chosen == CHOOSE rule \in candidates : Least(rule)
  <1>1. chosen \in candidates /\ Least(chosen)
    OBVIOUS
  <1>2. RateOf[chosen] <= RateOf[best] /\ RateOf[best] <= RateOf[chosen]
    BY <1>1
  <1>3. \A rule \in Rules : RateOf[rule] \in Int
    BY Rates DEF Rules
  <1>. HIDE DEF chosen
  <1>4. RateOf[chosen] = RateOf[best]
    BY <1>1, <1>2, <1>3
  <1>. QED
    BY <1>4 DEF chosen

\* The regular rules overlap, and the choice get_reimbursement_rule makes
\* among them is the one their descriptions announce, at any turnover.
THEOREM RatesAreAnnounced ==
  ASSUME NEW kind \in Kind, NEW turnover \in Int
  PROVE  RegularRate(kind, turnover) = AnnouncedRate(kind, turnover)
  <1>. DEFINE C == Candidates(kind, turnover)
  <1>1. IsException(kind) => CountsInTurnover(kind)
    BY DEF CountsInTurnover
  <1>2. ~kind.isDigital => CountsInTurnover(kind)
    BY DEF CountsInTurnover
  <1>3. kind.type = "book" => IsException(kind)
    BY DEF IsException
  <1>4. CASE "book" \in C
    BY <1>3, <1>4, Rates, CandidatesAre, CapsAssumption DEF RegularRate, RegularRule, AnnouncedRate
  <1>5. CASE "book" \notin C
    <2>1. PICK best \in C : RateOf[best] = AnnouncedRate(kind, turnover) /\ \A other \in C : RateOf[best] <= RateOf[other]
      <3>1. CASE "digital" \in C
        BY <3>1, Rates, CandidatesAre DEF AnnouncedRate, Rules
      <3>2. CASE "third" \in C /\ "digital" \notin C
        BY <1>1, <1>2, <1>3, <1>5, <3>2, Rates, CandidatesAre, CapsAssumption DEF AnnouncedRate, Rules
      <3>3. CASE "second" \in C /\ "digital" \notin C
        BY <1>1, <1>2, <1>3, <1>5, <3>3, Rates, CandidatesAre, CapsAssumption DEF AnnouncedRate, Rules
      <3>4. CASE "first" \in C /\ "digital" \notin C
        BY <1>1, <1>2, <1>3, <1>5, <3>4, Rates, CandidatesAre, CapsAssumption DEF AnnouncedRate, Rules
      <3>5. CASE C \intersect {"digital", "first", "second", "third"} = {}
        BY <1>1, <1>2, <1>3, <1>5, <3>5, Rates, CandidatesAre, CapsAssumption DEF AnnouncedRate, Rules
      <3>. QED
        BY <3>1, <3>2, <3>3, <3>4, <3>5
    <2>. QED
      BY <1>5, <2>1, BestCandidate, CandidatesAre DEF RegularRate, RegularRule
  <1>. QED
    BY <1>4, <1>5

\* Among rules there always is one that pays least.
LEMMA LeastExists ==
  ASSUME NEW candidates, candidates \subseteq Rules, candidates # {}
  PROVE  \E rule \in candidates : \A other \in candidates : RateOf[rule] <= RateOf[other]
  <1>1. CASE "digital" \in candidates
    BY <1>1, Rates DEF Rules
  <1>2. CASE "digital" \notin candidates /\ "third" \in candidates
    BY <1>2, Rates DEF Rules
  <1>3. CASE candidates \intersect {"digital", "third"} = {} /\ "second" \in candidates
    BY <1>3, Rates DEF Rules
  <1>4. CASE candidates \intersect {"digital", "third", "second"} = {}
    <2>1. candidates \subseteq {"first", "book", "physical"}
      BY <1>4 DEF Rules
    <2>2. CASE "first" \in candidates
      BY <2>1, <2>2, Rates
    <2>3. CASE "first" \notin candidates /\ "book" \in candidates
      BY <2>1, <2>3, Rates
    <2>4. CASE candidates = {"physical"}
      BY <2>4, Rates
    <2>. QED
      BY <2>1, <2>2, <2>3, <2>4
  <1>. QED
    BY <1>1, <1>2, <1>3, <1>4

LEMMA RuleForIsARule ==
  ASSUME NEW b \in Bookings, NEW before
  PROVE  RuleFor(b, before) \in Rules \union {"custom"}
  <1>. DEFINE C == Candidates(KindOf[b], Turnover(b, before))
  <1>1. C \subseteq Rules
    BY DEF Candidates
  <1>2. "digital" \in C \/ "physical" \in C
    BY DEF Candidates, Rules, IsRelevant, CountsInTurnover
  <1>. HIDE DEF C
  <1>3. PICK rule \in C : \A other \in C : RateOf[rule] <= RateOf[other]
    BY <1>1, <1>2, LeastExists
  <1>4. (CHOOSE r \in C : \A other \in C : RateOf[r] <= RateOf[other]) \in C
    BY <1>3
  <1>5. RegularRule(KindOf[b], Turnover(b, before)) \in C
    BY <1>4 DEF RegularRule, C
  <1>. QED
    BY <1>1, <1>5 DEF RuleFor

-----------------------------------------------------------------------------
(* Payments                                                                *)

Due == [booking: Bookings, rule: Rules \union {"custom"}]

\* The running command, field by field.
RunTyped == run \in [step: Steps, date: Dates \union {None}, todo: SUBSET Venues, toPay: Seq(Due),
                     created: BOOLEAN, file: SUBSET Ids, message: Messages \union {None},
                     label: Labels \union {None}, from: Nat]

\* A command of a batch has its date.
Dated == run.step \notin {"idle", "mark"} => run.date \in Dates

\* What is about to be paid for is not yet, and is there once.
ToPayOnce == run.step = "create" =>
  /\ \A k \in DOMAIN run.toPay : ~PaidFor(run.toPay[k].booking)
  /\ \A k, l \in DOMAIN run.toPay : run.toPay[k].booking = run.toPay[l].booking => k = l

\* A payment without an IBAN has never been in a file.
NoIbanNoMessage == \A i \in Ids : payment[i].iban = None =>
  payment[i].status \in {"none", "NOT_PROCESSABLE"} /\ payment[i].message = None /\ ~payment[i].reviewed

\* Between two steps of send_transactions the payments to send are those of the
\* file, each time they are looked for.
FileOK == LET S == PaymentsToSend(run.date) IN
  /\ run.step \in {"link", "mail", "review"} =>
       run.file = S /\ \A i \in S : payment[i].iban = "valid"
  /\ run.step \in {"mail", "review"} =>
       \A i \in S : payment[i].message = run.message /\ payment[i].message # None
  /\ run.step = "review" => S \subseteq mailed

IInv ==
  /\ TypeOK /\ RunTyped /\ Dated
  /\ ToPayOnce /\ PaidOnce
  /\ NoIbanNoMessage /\ FileOK /\ ReviewedWereMailed

-----------------------------------------------------------------------------
\* A table with as many rows, each of its type.
LEMMA Rewritten ==
  ASSUME payment \in Seq(Payment), payment' \in [Ids -> Payment]
  PROVE  payment' \in Seq(Payment) /\ Ids' = Ids /\ Len(payment') = Len(payment)
  <1>1. Len(payment) \in Nat /\ Ids = 1..Len(payment)
    BY DEF Ids
  <1>2. payment' \in Seq(Payment)
    BY <1>1, SeqDef
  <1>3. Ids' = Ids
    BY DEF Ids
  <1>. QED
    BY <1>1, <1>2, <1>3 DEF Ids

\* What set_status leaves in the rows.
LEMMA SettingStatus ==
  ASSUME payment \in Seq(Payment), NEW S, NEW status \in Statuses, SetStatus(S, status)
  PROVE  /\ payment' \in [Ids -> Payment]
         /\ \A i \in Ids : /\ payment'[i].booking = payment[i].booking /\ payment'[i].date = payment[i].date
                           /\ payment'[i].iban = payment[i].iban /\ payment'[i].message = payment[i].message
                           /\ payment'[i].status = IF i \in S THEN status ELSE payment[i].status
                           /\ payment'[i].reviewed = (payment[i].reviewed \/ (i \in S /\ status = "UNDER_REVIEW"))
  <1>1. \A i \in Ids : payment[i] \in Payment
    BY DEF Ids
  <1>2. ASSUME NEW i \in Ids
        PROVE  /\ payment'[i] \in Payment
               /\ payment'[i].booking = payment[i].booking /\ payment'[i].date = payment[i].date
               /\ payment'[i].iban = payment[i].iban /\ payment'[i].message = payment[i].message
               /\ payment'[i].status = IF i \in S THEN status ELSE payment[i].status
               /\ payment'[i].reviewed = (payment[i].reviewed \/ (i \in S /\ status = "UNDER_REVIEW"))
    <2>. DEFINE reviewed == payment[i].reviewed \/ status = "UNDER_REVIEW"
                new == [payment[i] EXCEPT !.status = status, !.reviewed = reviewed]
    <2>1. payment'[i] = IF i \in S THEN new ELSE payment[i]
      BY DEF SetStatus
    <2>2. reviewed \in BOOLEAN /\ payment[i].reviewed \in BOOLEAN
      BY <1>1 DEF Payment
    <2>. HIDE DEF reviewed
    <2>3. new \in Payment
      BY <1>1, <2>2 DEF Payment
    <2>4. CASE i \in S
      <3>1. payment'[i].reviewed = reviewed
        BY <1>1, <2>1, <2>4 DEF Payment
      <3>2. reviewed = (payment[i].reviewed \/ (i \in S /\ status = "UNDER_REVIEW"))
        BY <2>4 DEF reviewed
      <3>. QED
        BY <1>1, <2>1, <2>3, <2>4, <3>1, <3>2 DEF Payment
    <2>5. CASE i \notin S
      BY <1>1, <2>1, <2>2, <2>5
    <2>. QED
      BY <2>4, <2>5
  <1>3. payment' = [i \in Ids |-> payment'[i]]
    BY DEF SetStatus
  <1>. QED
    BY <1>2, <1>3

\* The steps of a command that write no payment.
LEMMA NoPaymentOK ==
  ASSUME IInv, UNCHANGED payment, RunTyped', Dated', ToPayOnce', FileOK',
         mailed \subseteq mailed', mailed' \subseteq Ids, kills' \in Nat,
         desk' \in [Bookings -> {"booked", "used", "due"}], bank' \in [Venues -> Ibans \union {None}]
  PROVE  IInv'
  <1>1. Ids' = Ids
    BY DEF Ids
  <1>2. TypeOK'
    BY <1>1 DEF IInv, TypeOK, RunTyped, RunOK
  <1>3. PaidOnce' /\ NoIbanNoMessage' /\ ReviewedWereMailed'
    BY <1>1 DEF IInv, PaidOnce, NoIbanNoMessage, ReviewedWereMailed
  <1>. QED
    BY <1>2, <1>3 DEF IInv

\* Those that change payments, and make no new one.
LEMMA RewritingOK ==
  ASSUME IInv, payment' \in [Ids -> Payment], \A i \in Ids : payment'[i].booking = payment[i].booking,
         NoIbanNoMessage', ReviewedWereMailed', FileOK', Dated',
         RunTyped', run'.step # "create", mailed' \subseteq Ids, UNCHANGED <<desk, bank, kills>>
  PROVE  IInv'
  <1>1. payment' \in Seq(Payment) /\ Ids' = Ids
    BY Rewritten DEF IInv, TypeOK
  <1>2. TypeOK'
    BY <1>1 DEF IInv, TypeOK, RunTyped, RunOK
  <1>3. PaidOnce'
    BY <1>1 DEF IInv, PaidOnce
  <1>. QED
    BY <1>2, <1>3 DEF IInv, ToPayOnce

-----------------------------------------------------------------------------
LEMMA AroundOK ==
  ASSUME IInv, (\E b \in Bookings : Use(b) \/ Unuse(b)) \/ \E v \in Venues : BankInformationAccepted(v)
  PROVE  IInv'
  <1>1. UNCHANGED <<payment, mailed, run, kills>>
    BY DEF Use, Unuse, BankInformationAccepted
  <1>2. desk' \in [Bookings -> {"booked", "used", "due"}] /\ bank' \in [Venues -> Ibans \union {None}]
    BY DEF IInv, TypeOK, Use, Unuse, BankInformationAccepted
  <1>3. RunTyped' /\ Dated' /\ ToPayOnce' /\ FileOK' /\ mailed' \subseteq Ids /\ kills' \in Nat
    BY <1>1 DEF IInv, TypeOK, RunTyped, Dated, ToPayOnce, FileOK, Ids, PaidFor, PaymentsToSend, OfBatch
  <1>. QED
    BY <1>1, <1>2, <1>3, NoPaymentOK

\* What takes the place of an induction on numbers.
LEMMA LeastNat ==
  ASSUME NEW S \in SUBSET Nat, S # {}
  PROVE  \E n \in S : \A m \in S : n <= m
  <1>1. PICK n \in S : \A m \in S : ~(<<m, n>> \in OpToRel(<, Nat))
    BY NatLessThanWellFounded, WFMin
  <1>2. \A m \in S : ~(m < n)
    BY <1>1 DEF OpToRel
  <1>. QED
    BY <1>2

\* The payments of a label have a first one.
LEMMA LeastLabelled ==
  ASSUME payment \in Seq(Payment), NEW l, Labelled(l) # {}
  PROVE  Min(Labelled(l)) \in Nat
  <1>1. Labelled(l) \subseteq Nat
    BY DEF Labelled, Ids
  <1>2. PICK x \in Labelled(l) : \A y \in Labelled(l) : x =< y
    BY <1>1, LeastNat
  <1>. QED
    BY <1>1, <1>2 DEF Min

\* A command starts, or one is killed.
LEMMA StartOK ==
  ASSUME IInv, StartBatch \/ (\E d \in Dates : RunAgain(d)) \/ (\E l \in Labels : StartMarking(l)) \/ Kill
  PROVE  IInv'
  <1>1. UNCHANGED <<bank, payment, mailed>> /\ kills' \in Nat /\ Ids' = Ids
    <2>1. UNCHANGED <<bank, payment, mailed>>
      BY DEF StartBatch, RunAgain, StartMarking, Kill
    <2>2. kills' \in Nat
      <3>1. kills' = kills \/ kills' = kills + 1
        BY DEF StartBatch, RunAgain, StartMarking, Kill
      <3>. QED
        BY <3>1 DEF IInv, TypeOK
    <2>. QED
      BY <2>1, <2>2 DEF Ids
  <1>2. desk' \in [Bookings -> {"booked", "used", "due"}]
    BY DEF IInv, TypeOK, StartBatch, RunAgain, StartMarking, Kill
  <1>3. RunTyped' /\ run'.step \in {"idle", "load", "file", "mark"} /\ Dated'
    <2>1. Idle \in [step: Steps, date: Dates \union {None}, todo: SUBSET Venues, toPay: Seq(Due),
                    created: BOOLEAN, file: SUBSET Ids', message: Messages \union {None},
                    label: Labels \union {None}, from: Nat]
      BY EmptySeq DEF Idle, Steps
    <2>2. CASE StartBatch
      <3>. DEFINE d == CHOOSE new \in NewDates : TRUE
                  todo == {VenueOf[b] : b \in {c \in Bookings : desk'[c] = "due" /\ ~PaidFor(c)}}
      <3>1. d \in Dates /\ todo \subseteq Venues
        BY <2>2, PaymentsAssumption DEF StartBatch, NewDates
      <3>2. run' = [Idle EXCEPT !.step = "load", !.date = d, !.todo = todo]
        BY <2>2 DEF StartBatch
      <3>. HIDE DEF d, todo
      <3>. QED
        BY <2>1, <3>1, <3>2 DEF RunTyped, Dated, Steps
    <2>3. ASSUME NEW d \in Dates, RunAgain(d) PROVE RunTyped' /\ run'.step = "file" /\ Dated'
      BY <2>1, <2>3 DEF RunTyped, Dated, Steps, RunAgain
    <2>4. ASSUME NEW l \in Labels, StartMarking(l) PROVE RunTyped' /\ run'.step = "mark" /\ Dated'
      <3>. DEFINE from == Min(Labelled(l))
      <3>1. from \in Nat
        BY <2>4, LeastLabelled DEF StartMarking, IInv, TypeOK
      <3>2. run' = [Idle EXCEPT !.step = "mark", !.label = l, !.from = from]
        BY <2>4 DEF StartMarking
      <3>. HIDE DEF from
      <3>. QED
        BY <2>1, <3>1, <3>2 DEF RunTyped, Dated, Steps
    <2>5. CASE Kill
      BY <2>1, <2>5 DEF RunTyped, Dated, Steps, Kill, Idle
    <2>. QED
      BY <2>2, <2>3, <2>4, <2>5
  <1>4. ToPayOnce' /\ FileOK'
    BY <1>3 DEF ToPayOnce, FileOK
  <1>. QED
    BY <1>1, <1>2, <1>3, <1>4, NoPaymentOK DEF IInv, TypeOK

\* The sequence to pay has each booking once, whatever find_all_booking_reimbursements left.
LEMMA InOrderOnce ==
  ASSUME NEW S \in SUBSET Due, IsFiniteSet(S), NEW s \in InOrder(S)
  PROVE  /\ s \in Seq(Due) /\ \A k \in DOMAIN s : s[k] \in S
         /\ \A k, l \in DOMAIN s : s[k].booking = s[l].booking => k = l
  <1>1. Cardinality(S) \in Nat
    BY FS_CardinalityType
  <1>2. s \in [1..Cardinality(S) -> S] /\ \A i, j \in DOMAIN s : i < j => s[i].booking < s[j].booking
    BY DEF InOrder
  <1>3. s \in Seq(S)
    BY <1>1, <1>2, SeqDef
  <1>4. s \in Seq(Due)
    BY <1>3, SeqMonotonic
  <1>5. ASSUME NEW k \in DOMAIN s, NEW l \in DOMAIN s, s[k].booking = s[l].booking, k # l
        PROVE  FALSE
    <2>1. k \in Int /\ l \in Int /\ s[k].booking \in Nat /\ s[l].booking \in Nat
      <3>1. k \in Int /\ l \in Int /\ s[k] \in Due /\ s[l] \in Due
        BY <1>1, <1>2
      <3>. QED
        BY <3>1, PaymentsAssumption DEF Due
    <2>2. k < l \/ l < k
      BY <1>5, <2>1
    <2>. QED
      BY <1>2, <1>5, <2>1, <2>2
  <1>. QED
    BY <1>2, <1>4, <1>5

LEMMA ToPayTyped ==
  ASSUME NEW v
  PROVE  /\ ToPay(v) \subseteq Due /\ IsFiniteSet(ToPay(v))
         /\ \A due \in ToPay(v) : ~PaidFor(due.booking)
  <1>. DEFINE eligible == Eligible(v)
              Rule(b) == RuleFor(b, {a \in eligible : Precedes(a, b)})
              chosen == {c \in eligible : HasCost(c, Rule(c)) /\ ~AlreadyPaid(c)}
              f == [b \in chosen |-> [booking |-> b, rule |-> Rule(b)]]
  <1>1. chosen \subseteq Bookings /\ IsFiniteSet(chosen)
    BY FS_Subset, PaymentsAssumption DEF Eligible
  <1>2. \A b \in chosen : Rule(b) \in Rules \union {"custom"}
    BY <1>1, RuleForIsARule
  <1>3. \A b \in chosen : ~PaidFor(b)
    BY DEF AlreadyPaid
  <1>4. ToPay(v) = {f[b] : b \in chosen}
    BY DEF ToPay
  <1>5. IsFiniteSet({f[b] : b \in chosen})
    <2>1. f \in Surjection(chosen, {f[b] : b \in chosen})
      BY DEF Surjection
    <2>. QED
      BY <1>1, <2>1, FS_Surjection
  <1>6. \A b \in chosen : f[b] \in Due /\ f[b].booking = b
    <2>. HIDE DEF Rule, chosen
    <2>. QED
      BY <1>1, <1>2 DEF Due
  <1>. HIDE DEF f, chosen
  <1>. QED
    BY <1>3, <1>4, <1>5, <1>6

LEMMA LoadVenueOK ==
  ASSUME IInv, NEW v \in Venues, LoadVenue(v)
  PROVE  IInv'
  <1>1. PICK s \in InOrder(ToPay(v)) : run' = [run EXCEPT !.step = "create", !.todo = @ \ {v}, !.toPay = s]
    BY DEF LoadVenue
  <1>2. /\ s \in Seq(Due) /\ \A k \in DOMAIN s : s[k] \in ToPay(v)
        /\ \A k, l \in DOMAIN s : s[k].booking = s[l].booking => k = l
    BY InOrderOnce, ToPayTyped
  <1>3. UNCHANGED <<desk, bank, payment, mailed, kills>> /\ Ids' = Ids /\ run.step = "load"
    BY DEF LoadVenue, Ids
  <1>4. RunTyped' /\ Dated'
    BY <1>1, <1>2, <1>3 DEF IInv, RunTyped, Dated, Steps
  <1>5. run'.step = "create" /\ run'.toPay = s
    BY <1>1 DEF IInv, RunTyped
  <1>6. ToPayOnce' /\ FileOK'
    BY <1>2, <1>3, <1>5, ToPayTyped DEF ToPayOnce, FileOK, PaidFor
  <1>. QED
    BY <1>3, <1>4, <1>6, NoPaymentOK DEF IInv, TypeOK

\* bulk_save_objects: the payments of a venue follow those already there.
LEMMA CreatedRows ==
  ASSUME IInv, CreatePayments
  PROVE  /\ payment' \in Seq(Payment) /\ Ids' = 1..(Len(payment) + Len(run.toPay)) /\ Ids \subseteq Ids'
         /\ \A i \in Ids : payment'[i] = payment[i]
         /\ \A i \in Ids' \ Ids : LET k == i - Len(payment) IN
              /\ k \in DOMAIN run.toPay
              /\ payment'[i].booking = run.toPay[k].booking /\ payment'[i].rule = run.toPay[k].rule
              /\ payment'[i].status = "none" /\ payment'[i].message = None /\ payment'[i].reviewed = FALSE
  <1>0. PICK label \in [DOMAIN run.toPay -> Labels] :
          payment' = payment \o [k \in DOMAIN run.toPay |-> NewPayment(run.toPay[k], label[k])]
    BY DEF CreatePayments
  <1>. DEFINE new == [k \in DOMAIN run.toPay |-> NewPayment(run.toPay[k], label[k])]
  <1>1. run.step = "create" /\ run.date \in Dates /\ run.toPay \in Seq(Due) /\ payment \in Seq(Payment)
    BY DEF CreatePayments, IInv, Dated, RunTyped, TypeOK
  <1>2. /\ Len(payment) \in Nat /\ Ids = 1..Len(payment)
        /\ Len(run.toPay) \in Nat /\ DOMAIN run.toPay = 1..Len(run.toPay)
    BY <1>1 DEF Ids
  <1>3. ASSUME NEW k \in DOMAIN run.toPay
        PROVE  /\ new[k] \in Payment /\ new[k].booking = run.toPay[k].booking /\ new[k].rule = run.toPay[k].rule
               /\ new[k].status = "none" /\ new[k].message = None /\ new[k].reviewed = FALSE
    <2>. DEFINE due == run.toPay[k]
    <2>1. due \in Due
      BY <1>1, <1>2
    <2>. HIDE DEF due
    <2>2. bank[VenueOf[due.booking]] \in Ibans \union {None}
      <3>1. due.booking \in Bookings
        BY <2>1 DEF Due
      <3>. QED
        BY <3>1, PaymentsAssumption DEF IInv, TypeOK
    <2>3. label[k] \in Labels
      BY <1>0
    <2>. DEFINE row == NewPayment(due, label[k])
    <2>4. row \in Payment /\ row.booking = due.booking /\ row.rule = due.rule
          /\ row.status = "none" /\ row.message = None /\ row.reviewed = FALSE
      BY <1>1, <2>1, <2>2, <2>3 DEF NewPayment, Payment, Due, Statuses
    <2>. QED
      BY <2>4 DEF due
  <1>4. new \in Seq(Payment) /\ Len(new) = Len(run.toPay)
    <2>. HIDE DEF new
    <2>1. new \in [1..Len(run.toPay) -> Payment]
      BY <1>2, <1>3 DEF new
    <2>2. new \in Seq(Payment)
      BY <1>2, <2>1, SeqDef
    <2>. QED
      BY <1>2, <2>1, <2>2
  <1>5. payment' = payment \o new
    BY <1>0
  <1>. HIDE DEF new
  <1>6. /\ payment' \in Seq(Payment) /\ Ids' = 1..(Len(payment) + Len(run.toPay)) /\ Ids \subseteq Ids'
        /\ \A i \in Ids : payment'[i] = payment[i]
        /\ \A i \in Ids' \ Ids : i - Len(payment) \in DOMAIN run.toPay /\ payment'[i] = new[i - Len(payment)]
    <2>1. /\ payment' \in Seq(Payment) /\ Len(payment') = Len(payment) + Len(run.toPay)
          /\ \A i \in 1..(Len(payment) + Len(run.toPay)) :
               payment'[i] = IF i <= Len(payment) THEN payment[i] ELSE new[i - Len(payment)]
      <3>. DEFINE all == payment \o new
      <3>1. /\ all \in Seq(Payment) /\ Len(all) = Len(payment) + Len(new)
            /\ \A i \in 1..(Len(payment) + Len(new)) :
                 all[i] = IF i <= Len(payment) THEN payment[i] ELSE new[i - Len(payment)]
        BY <1>1, <1>4, ConcatProperties, ZenonT(40)
      <3>. HIDE DEF all
      <3>2. payment' = all
        BY <1>5 DEF all
      <3>. QED
        BY <1>4, <3>1, <3>2
    <2>2. Ids' = 1..(Len(payment) + Len(run.toPay))
      BY <2>1 DEF Ids
    <2>. QED
      BY <1>2, <2>1, <2>2
  <1>7. ASSUME NEW i \in Ids' \ Ids, NEW k, k = i - Len(payment)
        PROVE  /\ k \in DOMAIN run.toPay
               /\ payment'[i].booking = run.toPay[k].booking /\ payment'[i].rule = run.toPay[k].rule
               /\ payment'[i].status = "none" /\ payment'[i].message = None /\ payment'[i].reviewed = FALSE
    <2>1. k \in DOMAIN run.toPay /\ payment'[i] = new[k]
      BY <1>6, <1>7
    <2>. QED
      BY <1>3, <2>1
  <1>. QED
    BY <1>6, <1>7

LEMMA CreatePaymentsOK ==
  ASSUME IInv, CreatePayments
  PROVE  IInv'
  <1>1. run.step = "create" /\ run.date \in Dates /\ run.toPay \in Seq(Due) /\ payment \in Seq(Payment)
    BY DEF CreatePayments, IInv, Dated, RunTyped, TypeOK
  <1>2. /\ Len(payment) \in Nat /\ Ids = 1..Len(payment)
        /\ Len(run.toPay) \in Nat /\ DOMAIN run.toPay = 1..Len(run.toPay)
    BY <1>1 DEF Ids
  <1>6. /\ payment' \in Seq(Payment) /\ Ids' = 1..(Len(payment) + Len(run.toPay)) /\ Ids \subseteq Ids'
        /\ \A i \in Ids : payment'[i] = payment[i]
    BY CreatedRows
  <1>7. ASSUME NEW i \in Ids' \ Ids
        PROVE  /\ i - Len(payment) \in DOMAIN run.toPay
               /\ payment'[i].booking = run.toPay[i - Len(payment)].booking
               /\ ~PaidFor(payment'[i].booking)
               /\ payment'[i].status = "none" /\ payment'[i].message = None /\ payment'[i].reviewed = FALSE
    <2>1. /\ i - Len(payment) \in DOMAIN run.toPay
          /\ payment'[i].booking = run.toPay[i - Len(payment)].booking
          /\ payment'[i].status = "none" /\ payment'[i].message = None /\ payment'[i].reviewed = FALSE
      BY CreatedRows
    <2>2. ~PaidFor(run.toPay[i - Len(payment)].booking)
      BY <1>1, <2>1 DEF IInv, ToPayOnce
    <2>. QED
      BY <2>1, <2>2
  <1>8. /\ RunTyped' /\ Dated' /\ run'.step = "load" /\ UNCHANGED <<desk, bank, mailed, kills>>
    <2>. DEFINE created == run.created \/ run.toPay # <<>>
    <2>1. created \in BOOLEAN
      BY DEF IInv, RunTyped
    <2>2. run' = [run EXCEPT !.step = "load", !.toPay = <<>>, !.created = created]
      BY DEF CreatePayments
    <2>. HIDE DEF created
    <2>3. run'.step = "load" /\ Dated' /\ UNCHANGED <<desk, bank, mailed, kills>>
      BY <1>1, <2>2 DEF CreatePayments, IInv, RunTyped, Dated
    <2>4. run.file \subseteq Ids' /\ <<>> \in Seq(Due)
      BY <1>6, EmptySeq DEF IInv, RunTyped
    <2>5. RunTyped'
      BY <2>1, <2>2, <2>4 DEF IInv, RunTyped, Steps
    <2>. QED
      BY <2>3, <2>5
  <1>9. TypeOK'
    BY <1>6, <1>8 DEF IInv, TypeOK, RunTyped, RunOK
  <1>10. PaidOnce'
    <2>. SUFFICES ASSUME NEW i \in Ids', NEW j \in Ids', payment'[i].booking = payment'[j].booking
                  PROVE  i = j
      BY DEF PaidOnce
    <2>1. CASE i \in Ids /\ j \in Ids
      BY <1>6, <2>1 DEF IInv, PaidOnce
    <2>2. CASE i \in Ids /\ j \notin Ids
      <3>1. ~PaidFor(payment'[j].booking)
        BY <1>7, <2>2
      <3>. QED
        BY <1>6, <2>2, <3>1 DEF PaidFor
    <2>3. CASE i \notin Ids /\ j \in Ids
      <3>1. ~PaidFor(payment'[i].booking)
        BY <1>7, <2>3
      <3>. QED
        BY <1>6, <2>3, <3>1 DEF PaidFor
    <2>4. CASE i \notin Ids /\ j \notin Ids
      <3>. DEFINE k == i - Len(payment)
                  l == j - Len(payment)
      <3>1. k \in DOMAIN run.toPay /\ l \in DOMAIN run.toPay /\ run.toPay[k].booking = run.toPay[l].booking
        BY <1>7, <2>4
      <3>. HIDE DEF k, l
      <3>2. k = l
        BY <1>1, <3>1 DEF IInv, ToPayOnce
      <3>3. i - Len(payment) = j - Len(payment)
        BY <3>2 DEF k, l
      <3>. QED
        BY <1>2, <1>6, <3>3
    <2>. QED
      BY <2>1, <2>2, <2>3, <2>4
  <1>11. NoIbanNoMessage' /\ ReviewedWereMailed'
    <2>1. \A i \in Ids' : i \in Ids \/ (payment'[i].status = "none" /\ payment'[i].message = None /\ payment'[i].reviewed = FALSE)
      BY <1>7
    <2>. QED
      BY <1>6, <1>8, <2>1 DEF IInv, NoIbanNoMessage, ReviewedWereMailed
  <1>. QED
    BY <1>8, <1>9, <1>10, <1>11 DEF IInv, ToPayOnce, FileOK

LEMMA VenuesDoneOK ==
  ASSUME IInv, VenuesDone
  PROVE  IInv'
  <1>1. UNCHANGED <<desk, bank, payment, mailed, kills>> /\ run'.step \in {"pending", "retry"} /\ Ids' = Ids
        /\ RunTyped' /\ Dated'
    BY DEF VenuesDone, Proceed, IInv, RunTyped, Dated, Steps, Ids
  <1>. QED
    BY <1>1, NoPaymentOK DEF IInv, TypeOK, ToPayOnce, FileOK

LEMMA MarkNewOK ==
  ASSUME IInv, MarkPending \/ MarkUnpayable
  PROVE  IInv'
  <1>1. PICK S \in SUBSET Ids, status \in {"PENDING", "NOT_PROCESSABLE"} :
          SetStatus(S, status) /\ (status = "PENDING" => \A i \in S : payment[i].iban # None)
    <2>1. CASE MarkPending
      BY <2>1 DEF MarkPending, OfBatch
    <2>2. CASE MarkUnpayable
      BY <2>2 DEF MarkUnpayable, OfBatch
    <2>. QED
      BY <2>1, <2>2
  <1>2. /\ payment' \in [Ids -> Payment]
        /\ \A i \in Ids : /\ payment'[i].booking = payment[i].booking /\ payment'[i].date = payment[i].date
                          /\ payment'[i].iban = payment[i].iban /\ payment'[i].message = payment[i].message
                          /\ payment'[i].status = IF i \in S THEN status ELSE payment[i].status
                          /\ payment'[i].reviewed = (payment[i].reviewed \/ (i \in S /\ status = "UNDER_REVIEW"))
    BY <1>1, SettingStatus DEF IInv, TypeOK, Statuses
  <1>3. UNCHANGED <<desk, bank, mailed, kills>> /\ run'.step \in {"unpayable", "retry"} /\ Ids' = Ids
        /\ RunTyped' /\ Dated'
    <2>1. Ids' = Ids
      BY <1>2, Rewritten DEF IInv, TypeOK
    <2>. QED
      BY <2>1 DEF MarkPending, MarkUnpayable, Proceed, IInv, RunTyped, Dated, Steps
  <1>4. NoIbanNoMessage'
    BY <1>1, <1>2, <1>3, ZenonT(40) DEF IInv, NoIbanNoMessage
  <1>5. ReviewedWereMailed'
    BY <1>1, <1>2, <1>3, SMTT(30) DEF IInv, ReviewedWereMailed
  <1>. QED
    BY <1>2, <1>3, <1>4, <1>5, RewritingOK DEF IInv, TypeOK, FileOK

LEMMA RetriesOK ==
  ASSUME IInv, RetryWithBank \/ IncludeRetries
  PROVE  IInv'
  <1>1. run.date \in Dates
    BY DEF RetryWithBank, IncludeRetries, IInv, Dated
  <1>2. \A i \in Ids : payment[i] \in Payment
    BY DEF IInv, TypeOK, Ids
  <1>3. ASSUME NEW i \in Ids
        PROVE  /\ payment'[i] \in Payment
               /\ payment'[i].booking = payment[i].booking
               /\ payment'[i].message = payment[i].message
               /\ payment'[i].reviewed = payment[i].reviewed
               /\ \/ payment'[i].iban = payment[i].iban /\ payment'[i].status = payment[i].status
                  \/ payment'[i].iban # None /\ payment'[i].status = "RETRY"
    <2>1. CASE RetryWithBank
      <3>1. payment'[i] = IF payment[i].status = "NOT_PROCESSABLE" /\ HasBankInformation(i)
                          THEN [payment[i] EXCEPT !.iban = IbanOf(i), !.date = run.date, !.status = "RETRY"]
                          ELSE payment[i]
        BY <2>1 DEF RetryWithBank
      <3>2. payment[i].booking \in Bookings
        BY <1>2 DEF Payment
      <3>3. IbanOf(i) \in Ibans \union {None} /\ (HasBankInformation(i) => IbanOf(i) # None)
        BY <3>2, PaymentsAssumption DEF IInv, TypeOK, IbanOf, HasBankInformation
      <3>. QED
        BY <1>1, <1>2, <3>1, <3>3 DEF Payment, Statuses, Rules, Ibans
    <2>2. CASE IncludeRetries
      <3>1. payment'[i] = IF payment[i].status \in ToInclude THEN [payment[i] EXCEPT !.date = run.date] ELSE payment[i]
        BY <2>2 DEF IncludeRetries
      <3>. QED
        BY <1>1, <1>2, <3>1 DEF Payment
    <2>. QED
      BY <2>1, <2>2
  <1>4. payment' \in [Ids -> Payment]
    <2>1. payment' = [i \in Ids |-> payment'[i]]
      BY DEF RetryWithBank, IncludeRetries
    <2>. QED
      BY <1>3, <2>1
  <1>5. UNCHANGED <<desk, bank, mailed, kills>> /\ run'.step \in {"include", "file"} /\ Ids' = Ids
        /\ RunTyped' /\ Dated'
    <2>1. Ids' = Ids
      BY <1>4, Rewritten DEF IInv, TypeOK
    <2>. QED
      BY <2>1 DEF RetryWithBank, IncludeRetries, Proceed, IInv, RunTyped, Dated, Steps
  <1>6. NoIbanNoMessage' /\ ReviewedWereMailed'
    BY <1>3, <1>5 DEF IInv, NoIbanNoMessage, ReviewedWereMailed
  <1>. QED
    BY <1>3, <1>4, <1>5, <1>6, RewritingOK DEF IInv, TypeOK, FileOK

-----------------------------------------------------------------------------
(* send_transactions                                                       *)

\* While there are payments to send, there is a message for them: as many
\* messages as bookings, and each booking has one payment at most.
LEMMA MessageIsFree ==
  ASSUME IInv, NEW S \in SUBSET Ids, S # {}
  PROVE  NewMessage(S) \in Messages
  <1>1. payment \in Seq(Payment) /\ Len(payment) \in Nat /\ Ids = 1..Len(payment) /\ IsFiniteSet(Ids)
    <2>1. payment \in Seq(Payment)
      BY DEF IInv, TypeOK
    <2>2. Len(payment) \in Nat /\ Ids = 1..Len(payment)
      BY <2>1 DEF Ids
    <2>. QED
      BY <2>1, <2>2, FS_Interval
  <1>2. Cardinality(Ids) <= Cardinality(Bookings)
    <2>. DEFINE f == [i \in Ids |-> payment[i].booking]
    <2>1. \A i \in Ids : payment[i].booking \in Bookings
      <3>1. \A i \in Ids : payment[i] \in Payment
        BY <1>1
      <3>. QED
        BY <3>1 DEF Payment
    <2>2. f \in Injection(Ids, Bookings)
      BY <2>1 DEF IInv, PaidOnce, Injection, IsInjective
    <2>. QED
      BY <2>2, FS_Injection, PaymentsAssumption
  <1>3. IsFiniteSet(Ids \ S) /\ Cardinality(Ids \ S) < Cardinality(Ids)
    <2>1. IsFiniteSet(Ids \ S) /\ Cardinality(Ids \ S) <= Cardinality(Ids)
          /\ (Cardinality(Ids \ S) = Cardinality(Ids) => Ids = Ids \ S)
      BY <1>1, FS_Subset
    <2>2. Cardinality(Ids) \in Nat /\ Cardinality(Ids \ S) \in Nat
      BY <1>1, <2>1, FS_CardinalityType
    <2>. QED
      BY <2>1, <2>2
  <1>4. \E m \in Messages : \A i \in Ids \ S : payment[i].message # m
    <2>. SUFFICES ASSUME \A m \in Messages : \E i \in Ids \ S : payment[i].message = m
                  PROVE  FALSE
      OBVIOUS
    <2>. DEFINE g == [m \in Messages |-> CHOOSE i \in Ids \ S : payment[i].message = m]
    <2>1. \A m \in Messages : g[m] \in Ids \ S /\ payment[g[m]].message = m
      OBVIOUS
    <2>. HIDE DEF g
    <2>2. g \in [Messages -> Ids \ S]
      BY <2>1 DEF g
    <2>3. g \in Injection(Messages, Ids \ S)
      BY <2>1, <2>2 DEF Injection, IsInjective
    <2>4. Cardinality(Messages) <= Cardinality(Ids \ S)
      BY <1>3, <2>3, FS_Injection
    <2>5. Cardinality(Messages) \in Nat /\ Cardinality(Ids \ S) \in Nat /\ Cardinality(Ids) \in Nat /\ Cardinality(Bookings) \in Nat
      BY <1>1, <1>3, FS_CardinalityType, PaymentsAssumption
    <2>. QED
      BY <1>2, <1>3, <2>4, <2>5, PaymentsAssumption
  <1>. QED
    BY <1>4 DEF NewMessage

\* SetStatus on payments that have an IBAN, at the end of a command.
LEMMA ClosingOK ==
  ASSUME IInv, NEW S \in SUBSET Ids, NEW status \in Statuses, SetStatus(S, status),
         status = "NOT_PROCESSABLE" \/ \A i \in S : payment[i].iban # None,
         status = "UNDER_REVIEW" => \A i \in S : payment[i].iban = "valid" /\ payment[i].message # None /\ i \in mailed,
         run' = Idle \/ (run'.step = "mark" /\ RunTyped'), UNCHANGED <<desk, bank, mailed, kills>>
  PROVE  IInv'
  <1>1. /\ payment' \in [Ids -> Payment]
        /\ \A i \in Ids : /\ payment'[i].booking = payment[i].booking /\ payment'[i].date = payment[i].date
                          /\ payment'[i].iban = payment[i].iban /\ payment'[i].message = payment[i].message
                          /\ payment'[i].status = IF i \in S THEN status ELSE payment[i].status
                          /\ payment'[i].reviewed = (payment[i].reviewed \/ (i \in S /\ status = "UNDER_REVIEW"))
    BY SettingStatus DEF IInv, TypeOK
  <1>2. Ids' = Ids /\ mailed' \subseteq Ids
    BY <1>1, Rewritten DEF IInv, TypeOK
  <1>3. RunTyped' /\ run'.step \in {"idle", "mark"}
    <2>1. CASE run' = Idle
      <3>1. <<>> \in Seq(Due)
        BY EmptySeq
      <3>. QED
        BY <2>1, <3>1 DEF RunTyped, Idle, Steps
    <2>2. CASE run' # Idle
      BY <2>2
    <2>. QED
      BY <2>1, <2>2
  <1>4. NoIbanNoMessage'
    BY <1>1, <1>2, ZenonT(40) DEF IInv, NoIbanNoMessage
  <1>5. ReviewedWereMailed'
    BY <1>1, <1>2, SMTT(30) DEF IInv, ReviewedWereMailed
  <1>. QED
    BY <1>1, <1>2, <1>3, <1>4, <1>5, RewritingOK DEF FileOK, Dated

LEMMA SentHaveIban ==
  ASSUME IInv, NEW d
  PROVE  /\ PaymentsToSend(d) \subseteq Ids
         /\ \A i \in PaymentsToSend(d) : payment[i].iban # None
  BY DEF PaymentsToSend, OfBatch, IInv, NoIbanNoMessage

LEMMA MakeFileOK ==
  ASSUME IInv, MakeFile
  PROVE  IInv'
  <1>. DEFINE S == PaymentsToSend(run.date)
  <1>1. CASE \E i \in S : payment[i].iban = "malformed"
    <2>1. SetStatus(S, "NOT_PROCESSABLE") /\ run' = Idle /\ UNCHANGED <<desk, bank, mailed, kills>>
      BY <1>1 DEF MakeFile
    <2>. QED
      BY <2>1, SentHaveIban, ClosingOK DEF Statuses
  <1>2. CASE ~\E i \in S : payment[i].iban = "malformed"
    <2>1. UNCHANGED <<desk, bank, payment, mailed, kills>> /\ run' = [run EXCEPT !.step = "link", !.file = S]
          /\ run.step = "file" /\ Ids' = Ids
      BY <1>2 DEF MakeFile, Ids
    <2>2. RunTyped' /\ Dated' /\ run'.step = "link" /\ run'.file = S /\ run'.date = run.date
      BY <2>1, SentHaveIban DEF IInv, RunTyped, Dated, Steps
    <2>3. \A i \in S : payment[i].iban = "valid"
      <3>1. \A i \in Ids : payment[i] \in Payment
        BY DEF IInv, TypeOK, Ids
      <3>. QED
        BY <1>2, <3>1, SentHaveIban DEF Payment, Ibans
    <2>4. PaymentsToSend(run.date)' = S
      BY <2>1, <2>2 DEF PaymentsToSend, OfBatch, Ids
    <2>5. FileOK'
      BY <2>1, <2>2, <2>3, <2>4 DEF FileOK
    <2>. QED
      BY <2>1, <2>2, <2>5, NoPaymentOK DEF IInv, TypeOK, ToPayOnce
  <1>. QED
    BY <1>1, <1>2

LEMMA LinkMessageOK ==
  ASSUME IInv, LinkMessage
  PROVE  IInv'
  <1>. DEFINE S == PaymentsToSend(run.date)
              m == NewMessage(S)
  <1>1. /\ run.step = "link" /\ run.file = S /\ \A i \in S : payment[i].iban = "valid"
        /\ S \subseteq Ids /\ run.date \in Dates
        /\ \A i \in S : payment[i].status # "UNDER_REVIEW"
    BY SentHaveIban DEF LinkMessage, IInv, FileOK, Dated, PaymentsToSend
  <1>2. m \in Messages \union {None} /\ (S # {} => m \in Messages /\ m # None)
    BY <1>1, MessageIsFree, PaymentsAssumption DEF NewMessage
  <1>3. /\ payment' = [i \in Ids |-> IF i \in S THEN [payment[i] EXCEPT !.message = m] ELSE payment[i]]
        /\ mailed' = mailed \ S /\ run' = [run EXCEPT !.step = "mail", !.message = m]
        /\ UNCHANGED <<desk, bank, kills>>
    BY DEF LinkMessage
  <1>. HIDE DEF m
  <1>4. ASSUME NEW i \in Ids
        PROVE  /\ payment'[i] \in Payment
               /\ payment'[i].booking = payment[i].booking /\ payment'[i].date = payment[i].date
               /\ payment'[i].iban = payment[i].iban /\ payment'[i].reviewed = payment[i].reviewed
               /\ payment'[i].status = payment[i].status
               /\ payment'[i].message = IF i \in S THEN m ELSE payment[i].message
    <2>1. payment[i] \in Payment
      BY DEF IInv, TypeOK, Ids
    <2>. QED
      BY <1>2, <1>3, <2>1 DEF Payment
  <1>5. payment' \in [Ids -> Payment]
    BY <1>3, <1>4
  <1>6. Ids' = Ids
    BY <1>5, Rewritten DEF IInv, TypeOK
  <1>7. RunTyped' /\ Dated' /\ run'.step = "mail" /\ run'.file = S /\ run'.date = run.date /\ run'.message = m
    BY <1>1, <1>2, <1>3, <1>6 DEF IInv, RunTyped, Dated, Steps
  <1>8. PaymentsToSend(run.date)' = S
    BY <1>4, <1>6, <1>7 DEF PaymentsToSend, OfBatch
  <1>9. FileOK'
    BY <1>1, <1>2, <1>4, <1>7, <1>8 DEF FileOK
  <1>10. NoIbanNoMessage' /\ ReviewedWereMailed'
    <2>1. NoIbanNoMessage'
      BY <1>1, <1>4, <1>6, SentHaveIban DEF IInv, NoIbanNoMessage
    <2>2. ReviewedWereMailed'
      BY <1>1, <1>3, <1>4, <1>6 DEF IInv, ReviewedWereMailed
    <2>. QED
      BY <2>1, <2>2
  <1>. QED
    BY <1>3, <1>4, <1>5, <1>6, <1>7, <1>9, <1>10, RewritingOK DEF IInv, TypeOK

LEMMA MailOK ==
  ASSUME IInv, Mail
  PROVE  IInv'
  <1>. DEFINE S == PaymentsToSend(run.date)
  <1>1. /\ run.step = "mail" /\ UNCHANGED <<desk, bank, payment, kills>> /\ Ids' = Ids
        /\ run'.step \in {"review", "error"} /\ run' = [run EXCEPT !.step = run'.step]
        /\ mailed \subseteq mailed' /\ mailed' \subseteq Ids
    BY DEF Mail, MailSent, MailFailed, Proceed, Ids, IInv, RunTyped, TypeOK
  <1>2. RunTyped' /\ Dated' /\ run'.file = run.file /\ run'.date = run.date /\ run'.message = run.message
    BY <1>1 DEF IInv, RunTyped, Dated, Steps
  <1>3. PaymentsToSend(run.date)' = S
    BY <1>1, <1>2 DEF PaymentsToSend, OfBatch
  <1>4. /\ run.file = S
        /\ \A i \in S : payment[i].iban = "valid" /\ payment[i].message = run.message /\ payment[i].message # None
    BY <1>1 DEF IInv, FileOK
  <1>5. run'.step = "review" => S \subseteq mailed'
    BY <1>1, <1>4 DEF Mail, MailSent, MailFailed, Proceed, IInv, RunTyped
  <1>6. FileOK'
    BY <1>1, <1>2, <1>3, <1>4, <1>5 DEF FileOK
  <1>. QED
    BY <1>1, <1>2, <1>6, NoPaymentOK DEF IInv, TypeOK, ToPayOnce

LEMMA SetFinalStatusOK ==
  ASSUME IInv, SetFinalStatus
  PROVE  IInv'
  <1>1. CASE run.step = "review"
    <2>1. SetStatus(PaymentsToSend(run.date), "UNDER_REVIEW") /\ run' = Idle /\ UNCHANGED <<desk, bank, mailed, kills>>
      BY <1>1 DEF SetFinalStatus
    <2>2. \A i \in PaymentsToSend(run.date) :
            payment[i].iban = "valid" /\ payment[i].message # None /\ i \in mailed
      BY <1>1 DEF IInv, FileOK
    <2>. QED
      BY <2>1, <2>2, SentHaveIban, ClosingOK DEF Statuses
  <1>2. CASE run.step # "review"
    <2>1. SetStatus(PaymentsToSend(run.date), "ERROR") /\ run' = Idle /\ UNCHANGED <<desk, bank, mailed, kills>>
      BY <1>2 DEF SetFinalStatus
    <2>. QED
      BY <2>1, SentHaveIban, ClosingOK DEF Statuses
  <1>. QED
    BY <1>1, <1>2

LEMMA MarkAsSentOK ==
  ASSUME IInv, MarkAsSent
  PROVE  IInv'
  <1>. DEFINE S == {i \in Labelled(run.label) \intersect IdRange(run.from) : payment[i].reviewed}
  <1>1. SetStatus(S, "SENT") /\ UNCHANGED <<desk, bank, mailed, kills>> /\ run.step = "mark"
    BY DEF MarkAsSent
  <1>2. \A i \in S : payment[i].iban # None
    BY DEF IInv, NoIbanNoMessage, Labelled
  <1>3. Ids' = Ids
    BY <1>1, SettingStatus, Rewritten DEF IInv, TypeOK, Statuses
  <1>4. run' = Idle \/ (run'.step = "mark" /\ RunTyped')
    <2>1. run' = Idle \/ run' = [run EXCEPT !.from = @ + BatchSize]
      BY DEF MarkAsSent
    <2>. QED
      <3>1. CASE run' # Idle
        <4>1. run.from + BatchSize \in Nat
          BY PaymentsAssumption DEF IInv, RunTyped
        <4>2. run'.step = "mark"
          BY <1>1, <2>1, <3>1 DEF IInv, RunTyped
        <4>. QED
          BY <1>3, <2>1, <3>1, <4>1, <4>2 DEF IInv, RunTyped
      <3>. QED
        BY <3>1
  <1>5. S \in SUBSET Ids /\ "SENT" \in Statuses
    BY DEF Labelled, Statuses
  <1>. HIDE DEF S
  <1>. QED
    BY <1>1, <1>2, <1>4, <1>5, ClosingOK

LEMMA BanPaymentsOK ==
  ASSUME IInv, NEW m \in Messages, NEW banned \in SUBSET Ids, BanPayments(m, banned)
  PROVE  IInv'
  <1>. DEFINE S == {i \in Ids : payment[i].message = m}
  <1>1. /\ run.step = "idle" /\ UNCHANGED <<desk, bank, mailed, run, kills>>
        /\ payment' = [i \in Ids |-> IF i \in S
             THEN [payment[i] EXCEPT !.status = IF i \in banned THEN "BANNED" ELSE "RETRY"] ELSE payment[i]]
    BY DEF BanPayments
  <1>2. ASSUME NEW i \in Ids
        PROVE  /\ payment'[i] \in Payment
               /\ payment'[i].booking = payment[i].booking /\ payment'[i].message = payment[i].message
               /\ payment'[i].iban = payment[i].iban /\ payment'[i].reviewed = payment[i].reviewed
               /\ payment'[i].status # payment[i].status =>
                    payment[i].message # None /\ payment'[i].status # "UNDER_REVIEW"
    <2>1. payment[i] \in Payment
      BY DEF IInv, TypeOK, Ids
    <2>2. m # None
      BY PaymentsAssumption
    <2>. QED
      BY <1>1, <2>1, <2>2 DEF Payment, Statuses
  <1>3. payment' \in [Ids -> Payment]
    BY <1>1, <1>2
  <1>4. Ids' = Ids
    BY <1>3, Rewritten DEF IInv, TypeOK
  <1>5. NoIbanNoMessage' /\ ReviewedWereMailed'
    BY <1>1, <1>2, <1>4 DEF IInv, NoIbanNoMessage, ReviewedWereMailed
  <1>6. RunTyped' /\ Dated' /\ FileOK' /\ run'.step # "create" /\ mailed' \subseteq Ids
    BY <1>1, <1>4 DEF IInv, RunTyped, Dated, FileOK, TypeOK
  <1>. QED
    BY <1>1, <1>2, <1>3, <1>5, <1>6, RewritingOK

LEMMA InitOK == Init => IInv
  <1>. SUFFICES ASSUME Init PROVE IInv
    OBVIOUS
  <1>1. Ids = {} /\ payment \in Seq(Payment)
    BY EmptySeq DEF Init, Ids
  <1>2. RunTyped /\ run.step = "idle"
    BY EmptySeq DEF Init, RunTyped, Idle, Steps
  <1>3. TypeOK
    BY <1>1, <1>2 DEF Init, TypeOK, RunOK, RunTyped
  <1>. QED
    BY <1>1, <1>2, <1>3 DEF Init, IInv, Dated, ToPayOnce, PaidOnce, NoIbanNoMessage, FileOK, ReviewedWereMailed

LEMMA NextOK == IInv /\ [Next]_vars => IInv'
  <1>. SUFFICES ASSUME IInv, [Next]_vars PROVE IInv'
    OBVIOUS
  <1>1. CASE Generate
    BY <1>1, LoadVenueOK, CreatePaymentsOK, VenuesDoneOK, MarkNewOK, RetriesOK DEF Generate
  <1>2. CASE Send
    BY <1>2, MakeFileOK, LinkMessageOK, MailOK, SetFinalStatusOK DEF Send
  <1>3. CASE UNCHANGED vars
    BY <1>3 DEF vars, IInv, TypeOK, RunOK, RunTyped, Dated, ToPayOnce, PaidOnce, NoIbanNoMessage, FileOK,
                ReviewedWereMailed, Ids, PaidFor, PaymentsToSend, OfBatch
  <1>. QED
    BY <1>1, <1>2, <1>3, AroundOK, StartOK, BanPaymentsOK, MarkAsSentOK DEF Next

-----------------------------------------------------------------------------
THEOREM Inductive == Spec => []IInv
  BY InitOK, NextOK, PTL DEF Spec

\* Every payment has its types, and while payments are to be sent a message
\* can be made for them.
THEOREM TypeCorrect == Spec => []TypeOK
  <1>1. IInv => TypeOK
    BY DEF IInv
  <1>. QED
    BY <1>1, Inductive, PTL

\* Nobody is paid twice for a booking, whichever of the commands of any number
\* of batches are killed, and whatever is used, unused or retried meanwhile.
THEOREM NobodyIsPaidTwice == Spec => []PaidOnce
  <1>1. IInv => PaidOnce
    BY DEF IInv
  <1>. QED
    BY <1>1, Inductive, PTL

\* A payment is under review only when the bank has received the file that
\* holds it, with its IBAN (send_transactions).
THEOREM ReviewedPaymentsWereMailed == Spec => []ReviewedWereMailed
  <1>1. IInv => ReviewedWereMailed
    BY DEF IInv
  <1>. QED
    BY <1>1, Inductive, PTL

-----------------------------------------------------------------------------
(* Sums                                                                    *)

\* A sum of values is a number of units.
UnitsOf(x) == {x} \X (0..Value[x] - 1)
Units(S) == {u \in S \X Nat : u[2] < Value[u[1]]}

LEMMA UnitsOfOne ==
  ASSUME NEW x \in Bookings
  PROVE  IsFiniteSet(UnitsOf(x)) /\ Cardinality(UnitsOf(x)) = Value[x]
  <1>1. Value[x] \in Nat
    BY PaymentsAssumption
  <1>. DEFINE upTo == 0..Value[x] - 1
  <1>2. IsFiniteSet(upTo) /\ Cardinality(upTo) = Value[x]
    <2>1. 0 \in Int /\ Value[x] - 1 \in Int
      BY <1>1
    <2>2. IsFiniteSet(upTo) /\ Cardinality(upTo) = IF 0 > Value[x] - 1 THEN 0 ELSE Value[x] - 1 - 0 + 1
      BY <2>1, FS_Interval
    <2>. HIDE DEF upTo
    <2>. QED
      BY <1>1, <2>2
  <1>3. IsFiniteSet({x}) /\ Cardinality({x}) = 1
    BY FS_Singleton
  <1>4. UnitsOf(x) = {x} \X upTo
    BY DEF UnitsOf
  <1>. HIDE DEF upTo
  <1>5. IsFiniteSet(UnitsOf(x)) /\ Cardinality(UnitsOf(x)) = 1 * Value[x]
    BY <1>2, <1>3, <1>4, FS_Product
  <1>. QED
    BY <1>1, <1>5

LEMMA UnitsApart ==
  ASSUME NEW S \in SUBSET Bookings, NEW x \in S
  PROVE  /\ Units(S) = Units(S \ {x}) \union UnitsOf(x)
         /\ Units(S \ {x}) \intersect UnitsOf(x) = {}
  <1>1. Value[x] \in Nat
    BY PaymentsAssumption
  <1>2. UnitsOf(x) = {u \in {x} \X Nat : u[2] < Value[x]}
    BY <1>1 DEF UnitsOf
  <1>3. \A u \in S \X Nat : u[1] \in S /\ u[2] \in Nat /\ u = <<u[1], u[2]>>
    OBVIOUS
  <1>4. ASSUME NEW u PROVE u \in Units(S) <=> u \in Units(S \ {x}) \union UnitsOf(x)
    BY <1>2, <1>3 DEF Units
  <1>5. Units(S \ {x}) \intersect UnitsOf(x) = {}
    BY <1>2 DEF Units
  <1>. QED
    BY <1>4, <1>5

LEMMA UnitsFinite ==
  ASSUME NEW S \in SUBSET Bookings, IsFiniteSet(S)
  PROVE  IsFiniteSet(Units(S))
  <1>. DEFINE all == {UnitsOf(x) : x \in S}
              f == [x \in S |-> UnitsOf(x)]
  <1>1. \A T \in all : IsFiniteSet(T)
    BY UnitsOfOne
  <1>2. IsFiniteSet(all)
    <2>1. f \in Surjection(S, all)
      BY DEF Surjection
    <2>. QED
      BY <2>1, FS_Surjection
  <1>3. IsFiniteSet(UNION all)
    <2>. HIDE DEF all
    <2>. QED
      BY <1>1, <1>2, FS_UNION
  <1>4. Units(S) \subseteq UNION all
    <2>1. \A x \in S : Value[x] \in Nat
      BY PaymentsAssumption
    <2>2. \A u \in Units(S) : u[1] \in S /\ u \in UnitsOf(u[1])
      BY <2>1 DEF Units, UnitsOf
    <2>. QED
      BY <2>2
  <1>. QED
    BY <1>3, <1>4, FS_Subset

LEMMA UnitsAdd ==
  ASSUME NEW S \in SUBSET Bookings, IsFiniteSet(S), NEW x \in S
  PROVE  Cardinality(Units(S)) = Value[x] + Cardinality(Units(S \ {x}))
  <1>. DEFINE A == Units(S \ {x})
              B == UnitsOf(x)
  <1>1. IsFiniteSet(S \ {x}) /\ S \ {x} \in SUBSET Bookings
    BY FS_RemoveElement
  <1>2. IsFiniteSet(A) /\ Cardinality(A) \in Nat
    BY <1>1, UnitsFinite, FS_CardinalityType
  <1>3. IsFiniteSet(B) /\ Cardinality(B) = Value[x] /\ Value[x] \in Nat
    BY UnitsOfOne, PaymentsAssumption
  <1>4. Units(S) = A \union B /\ A \intersect B = {}
    BY UnitsApart
  <1>5. Cardinality({}) = 0
    BY FS_EmptySet
  <1>. HIDE DEF A, B
  <1>6. Cardinality(A \union B) = Cardinality(A) + Cardinality(B) - Cardinality(A \intersect B)
    BY <1>2, <1>3, FS_Union
  <1>7. Cardinality(Units(S)) = Cardinality(A) + Value[x] - 0
    BY <1>3, <1>4, <1>5, <1>6, Zenon
  <1>8. Cardinality(Units(S)) = Value[x] + Cardinality(A)
    BY <1>2, <1>3, <1>7
  <1>. QED
    BY <1>8 DEF A

\* The sum does not depend on the order in which the fold takes the bookings.
LEMMA SumIsUnits ==
  ASSUME NEW S \in SUBSET Bookings, IsFiniteSet(S)
  PROVE  MapThenSumSet(LAMBDA a : Value[a], S) = Cardinality(Units(S))
  <1>. DEFINE Step(f, s) == IF s = {} THEN 0
                            ELSE LET x == CHOOSE x \in s : TRUE IN Value[x] + f[s \ {x}]
              iter == CHOOSE f : f = [s \in SUBSET S |-> Step(f, s)]
              count == [s \in SUBSET S |-> Cardinality(Units(s))]
  <1>1. MapThenSumSet(LAMBDA a : Value[a], S) = iter[S]
    BY Zenon DEF MapThenSumSet, MapThenFoldSet
  <1>2. ASSUME NEW s \in SUBSET S, s # {}
        PROVE  LET x == CHOOSE x \in s : TRUE
               IN  x \in s /\ s \ {x} \in SUBSET S /\ IsFiniteSet(s) /\ s \in SUBSET Bookings
                   /\ IsFiniteSet(s \ {x}) /\ Cardinality(s \ {x}) = Cardinality(s) - 1 /\ Cardinality(s) \in Nat
    <2>. DEFINE x == CHOOSE x \in s : TRUE
    <2>1. x \in s /\ s \ {x} \in SUBSET S
      BY <1>2
    <2>2. IsFiniteSet(s) /\ s \in SUBSET Bookings /\ Cardinality(s) \in Nat
      BY FS_Subset, FS_CardinalityType
    <2>. HIDE DEF x
    <2>3. IsFiniteSet(s \ {x}) /\ Cardinality(s \ {x}) = Cardinality(s) - 1
      BY <2>1, <2>2, FS_RemoveElement
    <2>. QED
      BY <2>1, <2>2, <2>3 DEF x
  <1>3. \A s \in SUBSET S : count[s] = Step(count, s)
    <2>. SUFFICES ASSUME NEW s \in SUBSET S PROVE count[s] = Step(count, s)
      OBVIOUS
    <2>1. CASE s = {}
      <3>1. Units({}) = {}
        BY DEF Units
      <3>2. Cardinality({}) = 0
        BY FS_EmptySet
      <3>. QED
        BY <2>1, <3>1, <3>2
    <2>2. CASE s # {}
      <3>. DEFINE x == CHOOSE x \in s : TRUE
      <3>1. x \in s /\ s \ {x} \in SUBSET S /\ IsFiniteSet(s) /\ s \in SUBSET Bookings
        BY <1>2, <2>2
      <3>2. Cardinality(Units(s)) = Value[x] + Cardinality(Units(s \ {x}))
        BY <3>1, UnitsAdd
      <3>. QED
        BY <2>2, <3>1, <3>2
    <2>. QED
      BY <2>1, <2>2
  <1>4. iter = [s \in SUBSET S |-> Step(iter, s)]
    <2>1. count = [s \in SUBSET S |-> Step(count, s)]
      <3>. DEFINE stepped == [s \in SUBSET S |-> Step(count, s)]
      <3>1. \A s \in SUBSET S : stepped[s] = count[s]
        <4>. HIDE DEF count
        <4>1. \A s \in SUBSET S : stepped[s] = Step(count, s)
          OBVIOUS
        <4>. HIDE DEF Step, stepped
        <4>. QED
          BY <1>3, <4>1
      <3>. HIDE DEF Step
      <3>. QED
        BY <3>1, Zenon
    <2>. HIDE DEF count, Step
    <2>. QED
      BY <2>1, Zenon
  <1>. HIDE DEF iter
  <1>5. \A s \in SUBSET S : iter[s] = count[s]
    <2>. DEFINE bad == {n \in Nat : \E s \in SUBSET S : Cardinality(s) = n /\ iter[s] # count[s]}
    <2>. SUFFICES ASSUME bad # {} PROVE FALSE
      <3>1. \A s \in SUBSET S : Cardinality(s) \in Nat
        BY FS_Subset, FS_CardinalityType
      <3>. QED
        BY <3>1
    <2>1. PICK n \in bad : \A m \in bad : n <= m
      BY LeastNat
    <2>2. PICK s \in SUBSET S : Cardinality(s) = n /\ iter[s] # count[s]
      OBVIOUS
    <2>3. iter[s] = Step(iter, s) /\ count[s] = Step(count, s)
      <3>. HIDE DEF Step, count
      <3>. QED
        BY <1>3, <1>4
    <2>4. s # {}
      BY <2>2, <2>3
    <2>. DEFINE x == CHOOSE x \in s : TRUE
    <2>5. s \ {x} \in SUBSET S /\ Cardinality(s \ {x}) = n - 1 /\ n \in Nat /\ Cardinality(s \ {x}) \in Nat
      BY <1>2, <2>2, <2>4, FS_CardinalityType
    <2>6. iter[s \ {x}] = count[s \ {x}]
      <3>. HIDE DEF count, x
      <3>1. n - 1 \notin bad
        BY <2>1, <2>5
      <3>. QED
        BY <2>5, <3>1
    <2>7. iter[s] = Value[x] + iter[s \ {x}] /\ count[s] = Value[x] + count[s \ {x}]
      <3>. HIDE DEF count
      <3>. QED
        BY <2>3, <2>4
    <2>. HIDE DEF count
    <2>. QED
      BY <2>2, <2>6, <2>7
  <1>. QED
    BY <1>1, <1>5

\* Bookings of no value leave a turnover as it is.
Weighs(a) == CountsInTurnover(KindOf[a]) /\ Value[a] > 0

LEMMA SameRule ==
  ASSUME NEW b \in Bookings, NEW B1 \in SUBSET Bookings, NEW B2 \in SUBSET Bookings,
         \A a \in Bookings : Weighs(a) => (a \in B1 <=> a \in B2)
  PROVE  RuleFor(b, B1) = RuleFor(b, B2)
  <1>. DEFINE counted(B) == {a \in B \union {b} : YearOf[a] = YearOf[b] /\ CountsInTurnover(KindOf[a])}
  <1>1. ASSUME NEW B \in SUBSET Bookings
        PROVE  counted(B) \in SUBSET Bookings /\ IsFiniteSet(counted(B))
    <2>1. counted(B) \in SUBSET Bookings
      OBVIOUS
    <2>. HIDE DEF counted
    <2>. QED
      BY <2>1, FS_Subset, PaymentsAssumption
  <1>2. ASSUME NEW B \in SUBSET Bookings
        PROVE  Turnover(b, B) = Cardinality(Units(counted(B)))
    <2>1. MapThenSumSet(LAMBDA a : Value[a], counted(B)) = Cardinality(Units(counted(B)))
      <3>. HIDE DEF counted
      <3>. QED
        BY <1>1, SumIsUnits
    <2>. QED
      BY <2>1 DEF Turnover
  <1>3. Units(counted(B1)) = Units(counted(B2))
    <2>1. \A a \in Bookings : Value[a] \in Nat
      BY PaymentsAssumption
    <2>2. \A a \in Bookings, n \in Nat : n < Value[a] => Value[a] > 0
      BY <2>1
    <2>3. \A a \in Bookings : Value[a] > 0 => (a \in counted(B1) <=> a \in counted(B2))
      BY DEF Weighs
    <2>. HIDE DEF counted
    <2>. QED
      BY <1>1, <2>2, <2>3 DEF Units
  <1>4. Turnover(b, B1) = Turnover(b, B2)
    BY <1>2, <1>3
  <1>. QED
    BY <1>4 DEF RuleFor

-----------------------------------------------------------------------------
(* The rates of the payments                                               *)

\* A custom rule that pays nothing is on bookings that no turnover counts.
CustomRulesPay == \A b \in Bookings :
  CustomAmount[b] = 0 => Value[b] = 0 \/ ~CountsInTurnover(KindOf[b])

\* What counts in a turnover is paid for.
LEMMA WeighsHasCost ==
  ASSUME CustomRulesPay, NEW b \in Bookings, NEW before, Weighs(b)
  PROVE  HasCost(b, RuleFor(b, before))
  <1>1. Value[b] \in Nat /\ Value[b] > 0 /\ CustomAmount[b] \in Nat \union {None} /\ None \notin Nat
    BY PaymentsAssumption DEF Weighs
  <1>2. CASE CustomAmount[b] # None
    <2>1. CustomAmount[b] > 0
      BY <1>1, <1>2 DEF CustomRulesPay, Weighs
    <2>2. RuleFor(b, before) = "custom"
      BY <1>2 DEF RuleFor
    <2>. QED
      BY <2>1, <2>2 DEF HasCost
  <1>3. CASE CustomAmount[b] = None
    <2>. DEFINE C == Candidates(KindOf[b], Turnover(b, before))
    <2>1. C \subseteq Rules /\ "physical" \in C /\ "digital" \notin C
      BY DEF Candidates, Rules, IsRelevant, CountsInTurnover, Weighs
    <2>. HIDE DEF C
    <2>2. PICK rule \in C : \A other \in C : RateOf[rule] <= RateOf[other]
      BY <2>1, LeastExists
    <2>3. (CHOOSE r \in C : \A other \in C : RateOf[r] <= RateOf[other]) \in C
      BY <2>2
    <2>4. RegularRule(KindOf[b], Turnover(b, before)) \in C
      BY <2>3 DEF RegularRule, C
    <2>5. RuleFor(b, before) \in Rules \ {"digital"}
      BY <1>3, <2>1, <2>4 DEF RuleFor
    <2>6. RuleFor(b, before) # "custom" /\ RateOf[RuleFor(b, before)] \in {100, 95, 85, 70}
      BY <2>5, Rates DEF Rules
    <2>7. Value[b] * RateOf[RuleFor(b, before)] > 0
      BY <1>1, <2>6
    <2>. QED
      BY <2>6, <2>7 DEF HasCost
  <1>. QED
    BY <1>2, <1>3

BookingOf(i) == payment[i].booking
PaidOf(v) == {BookingOf(i) : i \in {k \in Ids : VenueOf[BookingOf(k)] = v}}
PaidBefore(i) == {BookingOf(j) : j \in {k \in Ids : k < i /\ VenueOf[BookingOf(k)] = VenueOf[BookingOf(i)]}}

\* The bookings of a list before the k-th.
FirstOf(s, k) == {s[l].booking : l \in 1..k - 1}

\* Nobody has returned a booking while its payment was made.
NoneReturned == \A i \in Ids : desk[BookingOf(i)] # "booked"

RatesOK == NoneReturned => \A i \in Ids : payment[i].rule = RuleFor(BookingOf(i), PaidBefore(i))

\* What a venue to come has been paid for was due before this batch.
Settled == run.step \in {"load", "create"} =>
  \A i \in Ids : VenueOf[BookingOf(i)] \in run.todo => desk[BookingOf(i)] # "used"

\* The payments about to be created are those of a venue, at rates that follow
\* one another.
Announced == run.step = "create" =>
  /\ \A k, l \in DOMAIN run.toPay : VenueOf[run.toPay[k].booking] = VenueOf[run.toPay[l].booking]
  /\ \A k \in DOMAIN run.toPay : VenueOf[run.toPay[k].booking] \notin run.todo
  /\ NoneReturned => \A k \in DOMAIN run.toPay : LET b == run.toPay[k].booking IN
       run.toPay[k].rule = RuleFor(b, PaidOf(VenueOf[b]) \union FirstOf(run.toPay, k))

RatesInv == RatesOK /\ Settled /\ Announced

-----------------------------------------------------------------------------
LEMMA PaidTyped ==
  ASSUME TypeOK
  PROVE  /\ \A i \in Ids : payment[i] \in Payment /\ BookingOf(i) \in Bookings
         /\ Len(payment) \in Nat /\ Ids = 1..Len(payment)
  <1>1. payment \in Seq(Payment)
    BY DEF TypeOK
  <1>2. Len(payment) \in Nat /\ Ids = 1..Len(payment) /\ \A i \in Ids : payment[i] \in Payment
    BY <1>1 DEF Ids
  <1>. QED
    BY <1>2 DEF Payment, BookingOf

\* What is announced after a step, with the list as a value of its own.
LEMMA AnnouncedNext ==
  ASSUME NEW s, run'.toPay = s,
         \A k, l \in DOMAIN s : VenueOf[s[k].booking] = VenueOf[s[l].booking],
         \A k \in DOMAIN s : VenueOf[s[k].booking] \notin run'.todo,
         NoneReturned' => \A k \in DOMAIN s : \A v : v = VenueOf[s[k].booking] =>
           s[k].rule = RuleFor(s[k].booking, PaidOf(v)' \union FirstOf(s, k))
  PROVE  Announced'
  BY DEF Announced, RuleFor

\* The steps that create no payment and load no venue.
LEMMA RatesUntouched ==
  ASSUME IInv, RatesInv, Ids' = Ids, NoneReturned' => NoneReturned,
         \A i \in Ids : payment'[i].booking = payment[i].booking /\ payment'[i].rule = payment[i].rule,
         run'.step \in {"load", "create"} =>
           /\ run'.step = run.step /\ run'.todo = run.todo /\ run'.toPay = run.toPay
           /\ \A i \in Ids : desk'[BookingOf(i)] = desk[BookingOf(i)]
  PROVE  RatesInv'
  <1>1. \A i \in Ids : BookingOf(i)' = BookingOf(i)
    BY DEF BookingOf
  <1>2. ASSUME NEW i \in Ids PROVE PaidBefore(i)' = PaidBefore(i)
    <2>1. {k \in Ids' : k < i /\ VenueOf[BookingOf(k)'] = VenueOf[BookingOf(i)']} =
          {k \in Ids : k < i /\ VenueOf[BookingOf(k)] = VenueOf[BookingOf(i)]}
      BY <1>1
    <2>. QED
      BY <1>1, <2>1 DEF PaidBefore
  <1>3. ASSUME NEW v PROVE PaidOf(v)' = PaidOf(v)
    <2>1. {k \in Ids' : VenueOf[BookingOf(k)'] = v} = {k \in Ids : VenueOf[BookingOf(k)] = v}
      BY <1>1
    <2>. QED
      BY <1>1, <2>1 DEF PaidOf
  <1>4. \A b, B : RuleFor(b, B)' = RuleFor(b, B)
    BY DEF RuleFor
  <1>5. RatesOK'
    BY <1>1, <1>2, <1>4 DEF RatesInv, RatesOK
  <1>6. Settled'
    BY <1>1 DEF RatesInv, Settled
  <1>7. Announced'
    <2>. SUFFICES ASSUME run'.step = "create" PROVE Announced'
      BY DEF Announced
    <2>1. PICK s : s = run.toPay
      OBVIOUS
    <2>2. run.step = "create" /\ run'.todo = run.todo /\ run'.toPay = s
      BY <2>1
    <2>3. /\ \A k, l \in DOMAIN s : VenueOf[s[k].booking] = VenueOf[s[l].booking]
          /\ \A k \in DOMAIN s : VenueOf[s[k].booking] \notin run.todo
      BY <2>1, <2>2 DEF RatesInv, Announced
    <2>4. NoneReturned => \A k \in DOMAIN s :
            s[k].rule = RuleFor(s[k].booking, PaidOf(VenueOf[s[k].booking]) \union FirstOf(s, k))
      <3>. SUFFICES ASSUME NoneReturned, NEW k \in DOMAIN run.toPay
           PROVE  run.toPay[k].rule = RuleFor(run.toPay[k].booking,
                    PaidOf(VenueOf[run.toPay[k].booking]) \union FirstOf(run.toPay, k))
        BY <2>1
      <3>1. run.step = "create" /\ Announced
        BY <2>2 DEF RatesInv
      <3>. QED
        BY <3>1 DEF Announced
    <2>5. NoneReturned' => \A k \in DOMAIN s : \A v : v = VenueOf[s[k].booking] =>
            s[k].rule = RuleFor(s[k].booking, PaidOf(v)' \union FirstOf(s, k))
      BY <1>3, <2>4
    <2>. QED
      BY <2>2, <2>3, <2>5, AnnouncedNext
  <1>. QED
    BY <1>5, <1>6, <1>7 DEF RatesInv

LEMMA AroundRates ==
  ASSUME IInv, RatesInv, (\E b \in Bookings : Use(b) \/ Unuse(b)) \/ \E v \in Venues : BankInformationAccepted(v)
  PROVE  RatesInv'
  <1>1. UNCHANGED <<payment, run>> /\ Ids' = Ids
    BY DEF Use, Unuse, BankInformationAccepted, Ids
  <1>2. \A i \in Ids : desk'[BookingOf(i)] = desk[BookingOf(i)]
    BY PaidTyped DEF IInv, TypeOK, Use, Unuse, BankInformationAccepted, PaidFor, BookingOf
  <1>3. NoneReturned' => NoneReturned
    BY <1>1, <1>2 DEF NoneReturned, BookingOf
  <1>. QED
    BY <1>1, <1>2, <1>3, RatesUntouched

\* A new batch finds no venue whose payments are of bookings used since.
LEMMA StartRates ==
  ASSUME IInv, RatesInv, StartBatch
  PROVE  RatesInv'
  <1>1. /\ payment' = payment /\ Ids' = Ids /\ run'.step = "load"
        /\ desk' = [b \in Bookings |-> IF desk[b] = "used" THEN "due" ELSE desk[b]]
    BY DEF StartBatch, Ids, Idle
  <1>2. NoneReturned' => NoneReturned
    BY <1>1, PaidTyped DEF IInv, NoneReturned, BookingOf
  <1>3. \A i \in Ids : PaidBefore(i)' = PaidBefore(i) /\ BookingOf(i)' = BookingOf(i)
    BY <1>1 DEF PaidBefore, BookingOf
  <1>4. RatesOK'
    BY <1>1, <1>2, <1>3 DEF RatesInv, RatesOK, RuleFor
  <1>5. Settled' /\ Announced'
    BY <1>1, <1>3, PaidTyped DEF IInv, Settled, Announced
  <1>. QED
    BY <1>4, <1>5 DEF RatesInv

\* Statuses, messages and dates change, rules do not.
LEMMA RowsKeepTheirRule ==
  ASSUME IInv, (\E d \in Dates : RunAgain(d)) \/ (\E l \in Labels : StartMarking(l)) \/ Kill \/ VenuesDone \/ MarkPending \/ MarkUnpayable \/ RetryWithBank
               \/ IncludeRetries \/ Send \/ MarkAsSent \/ \E m \in Messages, banned \in SUBSET Ids : BanPayments(m, banned)
  PROVE  /\ Ids' = Ids /\ desk' = desk /\ run'.step \notin {"load", "create"}
         /\ \A i \in Ids : payment'[i].booking = payment[i].booking /\ payment'[i].rule = payment[i].rule
  <1>1. \A i \in Ids : payment[i] \in Payment
    BY PaidTyped DEF IInv
  <1>2. ASSUME NEW S, NEW status, SetStatus(S, status)
        PROVE  /\ Ids' = Ids
               /\ \A i \in Ids : payment'[i].booking = payment[i].booking /\ payment'[i].rule = payment[i].rule
    BY <1>1, <1>2 DEF SetStatus, Ids, Payment
  <1>3. CASE (\E d \in Dates : RunAgain(d)) \/ (\E l \in Labels : StartMarking(l)) \/ Kill \/ VenuesDone
    <2>1. UNCHANGED <<payment, desk>>
      BY <1>3 DEF RunAgain, StartMarking, Kill, VenuesDone
    <2>2. run'.step \notin {"load", "create"}
      <3>1. ASSUME NEW l \in Labels, StartMarking(l) PROVE run'.step = "mark"
        BY <3>1 DEF StartMarking, Idle
      <3>3. CASE Kill
        BY <3>3 DEF Kill, Idle
      <3>4. ASSUME NEW d \in Dates, RunAgain(d) PROVE run'.step = "file"
        BY <3>4 DEF RunAgain, Idle
      <3>2. CASE VenuesDone
        <4>1. \E step \in {"pending", "retry"} : run' = [run EXCEPT !.step = step]
          BY <3>2 DEF VenuesDone, Proceed
        <4>. QED
          BY <4>1 DEF IInv, RunTyped
      <3>. QED
        BY <1>3, <3>1, <3>2, <3>3, <3>4
    <2>. QED
      BY <2>1, <2>2 DEF Ids
  <1>4. CASE MarkPending \/ MarkUnpayable
    <2>1. desk' = desk /\ \E step \in {"unpayable", "retry"} : run' = [run EXCEPT !.step = step]
      BY <1>4 DEF MarkPending, MarkUnpayable, Proceed
    <2>2. run'.step \in {"unpayable", "retry"}
      BY <2>1 DEF IInv, RunTyped
    <2>3. \E S, status : SetStatus(S, status)
      BY <1>4 DEF MarkPending, MarkUnpayable
    <2>. QED
      BY <1>2, <2>1, <2>2, <2>3
  <1>5. CASE RetryWithBank \/ IncludeRetries
    <2>1. Ids' = Ids /\ \A i \in Ids : payment'[i].booking = payment[i].booking /\ payment'[i].rule = payment[i].rule
      <3>1. CASE RetryWithBank
        BY <1>1, <3>1 DEF RetryWithBank, Ids, Payment
      <3>2. CASE IncludeRetries
        BY <1>1, <3>2 DEF IncludeRetries, Ids, Payment
      <3>. QED
        BY <1>5, <3>1, <3>2
    <2>. QED
      BY <1>5, <2>1 DEF RetryWithBank, IncludeRetries, Proceed, IInv, RunTyped
  <1>6. CASE MakeFile
    <2>1. desk' = desk /\ run'.step \notin {"load", "create"}
      <3>1. desk' = desk /\ (run' = Idle \/ \E S : run' = [run EXCEPT !.step = "link", !.file = S])
        BY <1>6 DEF MakeFile
      <3>2. CASE run' = Idle
        BY <3>1, <3>2 DEF Idle
      <3>3. ASSUME NEW S, run' = [run EXCEPT !.step = "link", !.file = S] PROVE run'.step = "link"
        BY <3>3 DEF IInv, RunTyped
      <3>. QED
        BY <3>1, <3>2, <3>3
    <2>2. CASE payment' = payment
      BY <2>1, <2>2 DEF Ids
    <2>3. CASE SetStatus(PaymentsToSend(run.date), "NOT_PROCESSABLE")
      BY <1>2, <2>1, <2>3
    <2>. QED
      BY <1>6, <2>2, <2>3 DEF MakeFile
  <1>7. CASE LinkMessage
    <2>1. Ids' = Ids /\ \A i \in Ids : payment'[i].booking = payment[i].booking /\ payment'[i].rule = payment[i].rule
      BY <1>1, <1>7 DEF LinkMessage, Ids, Payment
    <2>. QED
      BY <1>7, <2>1 DEF LinkMessage, IInv, RunTyped
  <1>8. CASE Mail
    BY <1>8 DEF Mail, MailSent, MailFailed, Proceed, Ids, IInv, RunTyped
  <1>9. CASE SetFinalStatus
    BY <1>2, <1>9 DEF SetFinalStatus, Idle
  <1>10. CASE MarkAsSent
    <2>1. run'.step \in {"idle", "mark"}
      BY <1>10 DEF MarkAsSent, Idle, IInv, RunTyped
    <2>. QED
      BY <1>2, <1>10, <2>1 DEF MarkAsSent
  <1>11. CASE \E m \in Messages, banned \in SUBSET Ids : BanPayments(m, banned)
    <2>1. Ids' = Ids /\ \A i \in Ids : payment'[i].booking = payment[i].booking /\ payment'[i].rule = payment[i].rule
      BY <1>1, <1>11 DEF BanPayments, Ids, Payment
    <2>. QED
      BY <1>11, <2>1 DEF BanPayments
  <1>. QED
    BY <1>3, <1>4, <1>5, <1>6, <1>7, <1>8, <1>9, <1>10, <1>11 DEF Send

LEMMA OtherRates ==
  ASSUME IInv, RatesInv, (\E d \in Dates : RunAgain(d)) \/ (\E l \in Labels : StartMarking(l)) \/ Kill \/ VenuesDone \/ MarkPending
           \/ MarkUnpayable \/ RetryWithBank \/ IncludeRetries \/ Send \/ MarkAsSent
           \/ \E m \in Messages, banned \in SUBSET Ids : BanPayments(m, banned)
  PROVE  RatesInv'
  <1>2. /\ Ids' = Ids /\ desk' = desk /\ run'.step \notin {"load", "create"}
        /\ \A i \in Ids : payment'[i].booking = payment[i].booking /\ payment'[i].rule = payment[i].rule
    BY RowsKeepTheirRule
  <1>3. NoneReturned' => NoneReturned
    BY <1>2 DEF NoneReturned, BookingOf
  <1>. QED
    BY <1>2, <1>3, RatesUntouched

\* What InOrder lists: each booking to pay for once, the older first.
LEMMA InOrderLists ==
  ASSUME NEW S \in SUBSET Due, IsFiniteSet(S), NEW s \in InOrder(S)
  PROVE  /\ \A due \in S : \E l \in DOMAIN s : s[l] = due
         /\ \A k \in DOMAIN s : \A a : a \in FirstOf(s, k) <=>
              \E due \in S : due.booking = a /\ a < s[k].booking
  <1>1. Cardinality(S) \in Nat
    BY FS_CardinalityType
  <1>2. /\ s \in [1..Cardinality(S) -> S] /\ \A i, j \in DOMAIN s : i < j => s[i].booking < s[j].booking
        /\ \A k, l \in DOMAIN s : s[k].booking = s[l].booking => k = l
    BY InOrderOnce DEF InOrder
  <1>3. s \in Injection(1..Cardinality(S), S)
    BY <1>2 DEF Injection, IsInjective
  <1>4. s \in Surjection(1..Cardinality(S), S)
    <2>1. Cardinality(1..Cardinality(S)) = Cardinality(S)
      BY <1>1, FS_Interval
    <2>. QED
      BY <1>3, <2>1, FS_Injection
  <1>5. \A due \in S : \E l \in DOMAIN s : s[l] = due
    BY <1>2, <1>4 DEF Surjection
  <1>6. ASSUME NEW k \in DOMAIN s, NEW a
        PROVE  a \in FirstOf(s, k) <=> \E due \in S : due.booking = a /\ a < s[k].booking
    <2>1. k \in 1..Cardinality(S) /\ \A l \in DOMAIN s : s[l] \in S /\ s[l].booking \in Nat /\ l \in Nat
      <3>1. \A l \in 1..Cardinality(S) : s[l] \in S /\ l \in Nat
        BY <1>1, <1>2
      <3>2. \A due \in S : due.booking \in Nat
        BY PaymentsAssumption DEF Due
      <3>3. DOMAIN s = 1..Cardinality(S)
        BY <1>2
      <3>. QED
        BY <3>1, <3>2, <3>3
    <2>2. ASSUME NEW l \in 1..k - 1, a = s[l].booking
          PROVE  \E due \in S : due.booking = a /\ a < s[k].booking
      <3>1. l \in DOMAIN s /\ l < k
        BY <1>1, <1>2, <2>1
      <3>. QED
        BY <1>2, <2>1, <2>2, <3>1
    <2>3. ASSUME NEW due \in S, due.booking = a, a < s[k].booking
          PROVE  \E l \in 1..k - 1 : a = s[l].booking
      <3>1. PICK l \in DOMAIN s : s[l] = due
        BY <1>5
      <3>2. l # k /\ ~(k < l)
        <4>1. ~(s[k].booking < s[l].booking) /\ s[l].booking # s[k].booking
          BY <2>1, <2>3, <3>1
        <4>. QED
          BY <1>2, <4>1
      <3>3. l \in 1..k - 1
        BY <1>1, <1>2, <2>1, <3>2
      <3>. QED
        BY <2>3, <3>1, <3>3
    <2>. QED
      BY <2>2, <2>3 DEF FirstOf
  <1>. QED
    BY <1>5, <1>6

\* A venue is loaded: the turnover of a booking is that of its predecessors in
\* the query, paid for or about to be, or of no value.
LEMMA LoadRates ==
  ASSUME CustomRulesPay, IInv, RatesInv, NEW v \in Venues, LoadVenue(v)
  PROVE  RatesInv'
  <1>1. PICK s \in InOrder(ToPay(v)) : run' = [run EXCEPT !.step = "create", !.todo = @ \ {v}, !.toPay = s]
    BY DEF LoadVenue
  <1>2. UNCHANGED <<desk, payment>> /\ Ids' = Ids /\ run.step = "load" /\ v \in run.todo
    BY DEF LoadVenue, Ids
  <1>3. run'.step = "create" /\ run'.toPay = s /\ run'.todo = run.todo \ {v}
    BY <1>1 DEF IInv, RunTyped
  <1>4. /\ ToPay(v) \subseteq Due /\ IsFiniteSet(ToPay(v))
        /\ \A due \in ToPay(v) : ~PaidFor(due.booking)
    BY ToPayTyped
  <1>5. s \in Seq(Due) /\ \A k \in DOMAIN s : s[k] \in ToPay(v) /\ s[k].booking \in Bookings
    <2>1. s \in Seq(Due) /\ \A k \in DOMAIN s : s[k] \in ToPay(v)
      BY <1>4, InOrderOnce
    <2>2. \A due \in ToPay(v) : due.booking \in Bookings
      BY <1>4 DEF Due
    <2>. QED
      BY <2>1, <2>2
  <1>. DEFINE eligible == Eligible(v)
              Before(b) == {a \in eligible : Precedes(a, b)}
              Rule(b) == RuleFor(b, Before(b))
              chosen == {c \in eligible : HasCost(c, Rule(c)) /\ ~PaidFor(c)}
  <1>0. ToPay(v) = {[booking |-> b, rule |-> Rule(b)] : b \in chosen}
    BY DEF ToPay, AlreadyPaid
  <1>6. \A due \in ToPay(v) : due.booking \in eligible /\ due.rule = Rule(due.booking)
    <2>1. chosen \subseteq eligible
      OBVIOUS
    <2>. HIDE DEF Rule, chosen, eligible
    <2>. QED
      BY <1>0, <2>1
  <1>7. \A a \in eligible : HasCost(a, Rule(a)) /\ ~PaidFor(a) => \E due \in ToPay(v) : due.booking = a
    <2>1. \A a \in eligible : HasCost(a, Rule(a)) /\ ~PaidFor(a) => a \in chosen
      OBVIOUS
    <2>2. ASSUME NEW a \in chosen PROVE \E due \in ToPay(v) : due.booking = a
      <3>. HIDE DEF Rule, chosen
      <3>1. [booking |-> a, rule |-> Rule(a)] \in ToPay(v)
        BY <1>0
      <3>. QED
        BY <3>1
    <2>. HIDE DEF Rule, chosen, eligible
    <2>. QED
      BY <2>1, <2>2
  <1>8. eligible = {b \in Bookings : VenueOf[b] = v /\ desk[b] = "due"}
    BY DEF Eligible
  <1>9. ASSUME NoneReturned, NEW k \in DOMAIN s
        PROVE  s[k].rule = RuleFor(s[k].booking, PaidOf(v) \union FirstOf(s, k))
    <2>. DEFINE b == s[k].booking
                paidFor == PaidOf(v)
                listed == FirstOf(s, k)
    <2>1. b \in Bookings /\ ~PaidFor(b)
      BY <1>4, <1>5
    <2>2. \A a : a \in listed <=> \E due \in ToPay(v) : due.booking = a /\ a < b
      BY <1>4, InOrderLists
    <2>3. \A a : a \in paidFor <=> a \in Bookings /\ PaidFor(a) /\ VenueOf[a] = v
      BY PaidTyped DEF IInv, PaidOf, PaidFor, BookingOf
    <2>4. \A a \in paidFor : a \in eligible
      <3>1. \A a \in paidFor : desk[a] = "due"
        BY <1>2, <1>9, PaidTyped DEF IInv, TypeOK, RatesInv, Settled, NoneReturned, PaidOf
      <3>. QED
        BY <1>8, <2>3, <3>1
    <2>5. \A a \in eligible : a \in Before(b) <=> PaidFor(a) \/ (~PaidFor(a) /\ a < b)
      BY <2>1 DEF Precedes
    <2>6. ASSUME NEW a \in Bookings, Weighs(a)
          PROVE  a \in Before(b) <=> a \in paidFor \union listed
      <3>1. CASE a \in eligible
        <4>1. ~PaidFor(a) => \E due \in ToPay(v) : due.booking = a
          BY <1>7, <2>6, <3>1, WeighsHasCost
        <4>2. a \in listed => ~PaidFor(a) /\ a < b
          BY <1>4, <2>2
        <4>. HIDE DEF listed, paidFor, Before, eligible, b
        <4>. QED
          BY <1>8, <2>2, <2>3, <2>5, <3>1, <4>1, <4>2
      <3>2. CASE a \notin eligible
        <4>1. a \notin paidFor /\ a \notin listed
          BY <1>6, <2>2, <2>4, <3>2
        <4>. QED
          BY <3>2, <4>1
      <3>. QED
        BY <3>1, <3>2
    <2>7. Before(b) \in SUBSET Bookings /\ paidFor \union listed \in SUBSET Bookings
      <3>1. eligible \subseteq Bookings /\ Before(b) \subseteq eligible
        BY <1>8
      <3>2. \A a : a \in listed => a \in Bookings
        BY <1>6, <2>2, <3>1
      <3>. HIDE DEF paidFor, listed, Before, eligible
      <3>. QED
        BY <2>3, <3>1, <3>2
    <2>8. s[k].rule = RuleFor(b, Before(b))
      BY <1>5, <1>6
    <2>9. RuleFor(b, Before(b)) = RuleFor(b, paidFor \union listed)
      <3>. HIDE DEF b, Before, paidFor, listed
      <3>. QED
        BY <2>1, <2>6, <2>7, SameRule
    <2>. QED
      BY <2>8, <2>9
  <1>10. \A k \in DOMAIN s : VenueOf[s[k].booking] = v
    BY <1>5, <1>6, <1>8
  <1>11. \A i \in Ids : PaidBefore(i)' = PaidBefore(i) /\ BookingOf(i)' = BookingOf(i)
    BY <1>2 DEF PaidBefore, BookingOf
  <1>12. PaidOf(v)' = PaidOf(v) /\ (NoneReturned' <=> NoneReturned)
    BY <1>2 DEF PaidOf, NoneReturned, BookingOf
  <1>13. RatesOK'
    BY <1>2, <1>11, <1>12 DEF RatesInv, RatesOK, RuleFor
  <1>14. Settled'
    BY <1>2, <1>3, <1>11 DEF RatesInv, Settled
  <1>15. Announced'
    <2>1. \A k \in DOMAIN s : VenueOf[s[k].booking] \notin run'.todo
      BY <1>3, <1>10
    <2>. HIDE DEF eligible, Before, Rule, chosen
    <2>2. NoneReturned' => \A k \in DOMAIN s : \A w : w = VenueOf[s[k].booking] =>
            s[k].rule = RuleFor(s[k].booking, PaidOf(w)' \union FirstOf(s, k))
      BY <1>9, <1>10, <1>12
    <2>. QED
      BY <1>3, <1>10, <2>1, <2>2, AnnouncedNext
  <1>. QED
    BY <1>13, <1>14, <1>15 DEF RatesInv

\* The payments of a venue are at the rates announced.
LEMMA CreateRates ==
  ASSUME IInv, RatesInv, CreatePayments
  PROVE  RatesInv'
  <1>1. run.step = "create" /\ run.toPay \in Seq(Due) /\ desk' = desk
    BY DEF CreatePayments, IInv, RunTyped, TypeOK
  <1>2. PICK n \in Nat, m \in Nat : n = Len(payment) /\ m = Len(run.toPay) /\ Ids = 1..n /\ DOMAIN run.toPay = 1..m
    BY <1>1, PaidTyped DEF IInv
  <1>3. run'.step = "load" /\ run'.todo = run.todo
    <2>1. \E created : run' = [run EXCEPT !.step = "load", !.toPay = <<>>, !.created = created]
      BY DEF CreatePayments
    <2>. QED
      BY <2>1 DEF IInv, RunTyped
  <1>4. /\ Ids' = 1..(n + m)
        /\ \A i \in Ids : payment'[i] = payment[i]
        /\ \A k \in 1..m : /\ n + k \in Ids' /\ payment'[n + k].booking = run.toPay[k].booking
                           /\ payment'[n + k].rule = run.toPay[k].rule
    <2>1. /\ Ids' = 1..(n + m) /\ \A i \in Ids : payment'[i] = payment[i]
          /\ \A i \in Ids' \ Ids : payment'[i].booking = run.toPay[i - n].booking /\ payment'[i].rule = run.toPay[i - n].rule
      BY <1>2, CreatedRows
    <2>2. \A k \in 1..m : n + k \in 1..(n + m) /\ n + k \notin 1..n /\ (n + k) - n = k
      BY <1>2
    <2>. QED
      BY <1>2, <2>1, <2>2
  <1>5. \A i \in Ids : BookingOf(i)' = BookingOf(i) /\ i \in Ids'
    BY <1>2, <1>4 DEF BookingOf
  <1>6. \A k \in 1..m : BookingOf(n + k)' = run.toPay[k].booking
    BY <1>4 DEF BookingOf
  <1>7. NoneReturned' => NoneReturned
    BY <1>1, <1>5 DEF NoneReturned
  <1>8. \A i \in Ids' : i \in Ids \/ \E k \in 1..m : i = n + k
    <2>1. ASSUME NEW i \in 1..(n + m), i \notin 1..n PROVE i - n \in 1..m /\ i = n + (i - n)
      BY <1>2, <2>1
    <2>. QED
      BY <1>2, <1>4, <2>1
  <1>9. ASSUME NEW i \in Ids PROVE PaidBefore(i)' = PaidBefore(i)
    <2>1. {k \in Ids' : k < i /\ VenueOf[BookingOf(k)'] = VenueOf[BookingOf(i)']} =
          {k \in Ids : k < i /\ VenueOf[BookingOf(k)] = VenueOf[BookingOf(i)]}
      <3>1. \A k \in Ids' : k < i => k \in Ids
        BY <1>2, <1>4
      <3>. QED
        BY <1>5, <3>1
    <2>2. \A k \in Ids : BookingOf(k)' = BookingOf(k)
      BY <1>5
    <2>. QED
      BY <2>1, <2>2 DEF PaidBefore
  <1>10. ASSUME NEW k \in 1..m
         PROVE  PaidBefore(n + k)' = PaidOf(VenueOf[run.toPay[k].booking]) \union FirstOf(run.toPay, k)
    <2>. DEFINE v == VenueOf[run.toPay[k].booking]
                earlier == {j \in Ids' : j < n + k /\ VenueOf[BookingOf(j)'] = v}
    <2>1. PaidBefore(n + k)' = {BookingOf(j)' : j \in earlier}
      BY <1>6 DEF PaidBefore
    <2>2. \A l \in 1..m : VenueOf[run.toPay[l].booking] = v
      BY <1>1, <1>2 DEF RatesInv, Announced
    <2>3. ASSUME NEW j \in earlier
          PROVE  BookingOf(j)' \in PaidOf(v) \union FirstOf(run.toPay, k)
      <3>1. CASE j \in Ids
        BY <1>5, <2>3, <3>1 DEF PaidOf
      <3>2. CASE j \notin Ids
        <4>1. PICK l \in 1..m : j = n + l
          BY <1>8, <3>2
        <4>2. l \in 1..k - 1
          <5>1. n + l < n + k
            BY <4>1
          <5>. QED
            BY <1>2, <5>1
        <4>. QED
          BY <1>6, <4>1, <4>2 DEF FirstOf
      <3>. QED
        BY <3>1, <3>2
    <2>4. ASSUME NEW j \in Ids, VenueOf[BookingOf(j)] = v
          PROVE  \E i \in earlier : BookingOf(i)' = BookingOf(j)
      <3>1. j < n + k
        BY <1>2
      <3>. QED
        BY <1>5, <2>4, <3>1
    <2>5. ASSUME NEW l \in 1..k - 1
          PROVE  \E i \in earlier : BookingOf(i)' = run.toPay[l].booking
      <3>1. l \in 1..m /\ n + l < n + k
        BY <1>2
      <3>2. n + l \in Ids'
        BY <1>4, <3>1
      <3>. QED
        BY <1>6, <2>2, <3>1, <3>2
    <2>. HIDE DEF earlier, v
    <2>6. {BookingOf(j)' : j \in earlier} = PaidOf(v) \union FirstOf(run.toPay, k)
      <3>1. \A b \in PaidOf(v) : \E i \in earlier : BookingOf(i)' = b
        BY <2>4 DEF PaidOf
      <3>. QED
        BY <2>3, <2>5, <3>1 DEF FirstOf
    <2>. QED
      BY <2>1, <2>6 DEF v
  <1>11. RatesOK'
    <2>. SUFFICES ASSUME NoneReturned', NEW i \in Ids'
                  PROVE  payment'[i].rule = RuleFor(BookingOf(i)', PaidBefore(i)')
      BY DEF RatesOK, RuleFor
    <2>1. CASE i \in Ids
      BY <1>4, <1>5, <1>7, <1>9, <2>1 DEF RatesInv, RatesOK
    <2>2. CASE i \notin Ids
      <3>1. PICK k \in 1..m : i = n + k
        BY <1>8, <2>2
      <3>2. run.toPay[k].rule = RuleFor(run.toPay[k].booking,
              PaidOf(VenueOf[run.toPay[k].booking]) \union FirstOf(run.toPay, k))
        BY <1>1, <1>2, <1>7 DEF RatesInv, Announced
      <3>3. payment'[i].rule = run.toPay[k].rule /\ BookingOf(i)' = run.toPay[k].booking
        BY <1>4, <1>6, <3>1
      <3>. QED
        BY <1>10, <3>1, <3>2, <3>3
    <2>. QED
      BY <2>1, <2>2
  <1>12. Settled'
    <2>. SUFFICES ASSUME NEW i \in Ids', VenueOf[BookingOf(i)'] \in run.todo
                  PROVE  desk[BookingOf(i)'] # "used"
      BY <1>1, <1>3 DEF Settled
    <2>1. CASE i \in Ids
      BY <1>1, <1>5, <2>1 DEF RatesInv, Settled
    <2>2. CASE i \notin Ids
      <3>1. PICK k \in 1..m : i = n + k
        BY <1>8, <2>2
      <3>. QED
        BY <1>1, <1>2, <1>6, <3>1 DEF RatesInv, Announced
    <2>. QED
      BY <2>1, <2>2
  <1>13. Announced'
    BY <1>3 DEF Announced
  <1>. QED
    BY <1>11, <1>12, <1>13 DEF RatesInv

LEMMA RatesStep ==
  ASSUME CustomRulesPay, IInv, RatesInv, [Next]_vars
  PROVE  RatesInv'
  <1>1. CASE Generate
    BY <1>1, LoadRates, CreateRates, OtherRates DEF Generate
  <1>2. CASE UNCHANGED vars
    <2>1. Ids' = Ids /\ NoneReturned' = NoneReturned /\ UNCHANGED <<payment, run, desk>>
      BY <1>2 DEF vars, Ids, NoneReturned, BookingOf
    <2>. QED
      BY <2>1, RatesUntouched
  <1>. QED
    BY <1>1, <1>2, AroundRates, StartRates, OtherRates DEF Next

\* In every state that a run reaches, a payment is at the rate of what its venue
\* had been paid for in the year (find_all_booking_reimbursements), though batches
\* are killed after some venues; free bookings count for nothing.  A custom rule
\* of amount zero would count in the turnover what is never paid.
THEOREM RatesAreThoseOfTheTurnover ==
  ASSUME CustomRulesPay
  PROVE  Spec => []RatesFollowTurnover
  <1>1. Init => RatesInv
    <2>. SUFFICES ASSUME Init PROVE RatesInv
      OBVIOUS
    <2>1. Ids = {} /\ run.step = "idle"
      BY DEF Init, Ids, Idle
    <2>. QED
      BY <2>1 DEF RatesInv, RatesOK, Settled, Announced
  <1>2. IInv /\ RatesInv /\ [Next]_vars => RatesInv'
    BY RatesStep
  <1>3. IInv /\ RatesInv => RatesFollowTurnover
    BY DEF RatesInv, RatesOK, NoneReturned, RatesFollowTurnover, PaidBefore, BookingOf
  <1>. QED
    BY <1>1, <1>2, <1>3, Inductive, PTL DEF Spec
=============================================================================
