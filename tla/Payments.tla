------------------------------ MODULE Payments ------------------------------
(***************************************************************************)
(* The fortnightly payment of offerers (src/pcapi/scripts/payment): the    *)
(* command generate_payments creates payments venue after venue, gives     *)
(* them a status, collects the ones to retry and sends one message to the  *)
(* bank; ban_payments and mark_payments_as_sent follow the bank's answer.  *)
(* An operator runs the commands one at a time; each may be killed between *)
(* two of its commits, and a batch run again from its date.                *)
(***************************************************************************)
EXTENDS Reimbursement, FiniteSets, FiniteSetsExt, Sequences

CONSTANTS
  Bookings,     \* numbered in the order of dateCreated
  Venues, VenueOf, KindOf, YearOf,
  Value,        \* [Bookings -> Nat]: total_amount
  CustomAmount, \* [Bookings -> Nat \union {None}]: what a custom rule pays
  Returned,     \* the bookings that offerers may mark as unused
  Dates,        \* batch dates
  Labels,       \* transaction labels: the fortnights of payments, numbered from 1
  Messages,     \* bound on the payment messages in use
  BatchSize,    \* of mark_payments_as_sent
  MaxKills,     \* bound on the commands that are killed
  None

\* "malformed": an IBAN that is accepted, and makes the XML file invalid.
Ibans == {"valid", "malformed"}

\* A new message is always there to be had.
ASSUME PaymentsAssumption ==
  /\ Bookings \subseteq Nat /\ IsFiniteSet(Bookings)
  /\ VenueOf \in [Bookings -> Venues] /\ KindOf \in [Bookings -> Kind]
  /\ Value \in [Bookings -> Nat] /\ CustomAmount \in [Bookings -> Nat \union {None}]
  /\ Returned \subseteq Bookings
  /\ Labels \subseteq Nat /\ Labels # {}
  /\ BatchSize \in Nat \ {0} /\ MaxKills \in Nat
  /\ None \notin Nat /\ None \notin Dates /\ None \notin Messages /\ None \notin Ibans
  /\ IsFiniteSet(Messages) /\ Cardinality(Messages) >= Cardinality(Bookings)

Statuses == {"none", "PENDING", "NOT_PROCESSABLE", "SENT", "ERROR", "RETRY", "BANNED", "UNDER_REVIEW"}

\* rule: a regular rule, or "custom".  status: the latest row of payment_status,
\* "none" without a row.  reviewed: some row is UNDER_REVIEW.  label: its
\* transactionLabel, which nothing rewrites when a payment is retried.
Payment == [booking: Bookings, rule: Rules \union {"custom"}, date: Dates, label: Labels,
            iban: Ibans \union {None}, status: Statuses, reviewed: BOOLEAN,
            message: Messages \union {None}]

Steps == {"idle", "load", "create", "pending", "unpayable", "retry", "include",
          "file", "link", "mail", "review", "error", "mark"}

VARIABLES
  desk,    \* each booking: "booked", "used", or "due" (used before the cutoff)
  bank,    \* the IBAN of each venue, its own or its offerer's
  payment, \* the payment table, by increasing identifier
  mailed,  \* the payments whose last message the bank has received
  run,     \* what the running command is doing
  kills

vars == <<desk, bank, payment, mailed, run, kills>>

Idle == [step |-> "idle", date |-> None, todo |-> {}, toPay |-> <<>>, created |-> FALSE,
         file |-> {}, message |-> None, label |-> None, from |-> 0]

Init ==
  /\ desk \in [Bookings -> {"booked", "used"}]
  /\ bank \in [Venues -> Ibans \union {None}]
  /\ payment = <<>>
  /\ mailed = {}
  /\ run = Idle
  /\ kills = 0

Ids == DOMAIN payment
Proceed(step) == run' = [run EXCEPT !.step = step]

-----------------------------------------------------------------------------
(* The desk and the bank information, at any time.                         *)

PaidFor(b) == \E i \in Ids : payment[i].booking = b

Use(b) ==
  /\ desk[b] = "booked" /\ ~PaidFor(b)
  /\ desk' = [desk EXCEPT ![b] = "used"]
  /\ UNCHANGED <<bank, payment, mailed, run, kills>>

Unuse(b) ==
  /\ b \in Returned
  /\ desk[b] # "booked" /\ ~PaidFor(b)
  /\ desk' = [desk EXCEPT ![b] = "booked"]
  /\ UNCHANGED <<bank, payment, mailed, run, kills>>

BankInformationAccepted(v) ==
  /\ bank[v] # "valid"
  /\ \E iban \in Ibans \ {bank[v]} : bank' = [bank EXCEPT ![v] = iban]
  /\ UNCHANGED <<desk, payment, mailed, run, kills>>

-----------------------------------------------------------------------------
(* generate_new_payments                                                   *)

\* batch_date is the time of the start.
NewDates == {d \in Dates : \A i \in Ids : payment[i].date # d}

\* get_venues_to_reimburse, and the cutoff date of this run.
StartBatch == LET d == CHOOSE new \in NewDates : TRUE IN
  /\ run.step = "idle" /\ NewDates # {}
  /\ desk' = [b \in Bookings |-> IF desk[b] = "used" THEN "due" ELSE desk[b]]
  /\ run' = [Idle EXCEPT !.step = "load", !.date = d,
       !.todo = {VenueOf[b] : b \in {c \in Bookings : desk'[c] = "due" /\ ~PaidFor(c)}}]
  /\ UNCHANGED <<bank, payment, mailed, kills>>

\* find_bookings_eligible_for_payment_for_venue: ORDER BY payment.id (NULLs
\* come last), then dateCreated.
Eligible(v) == {b \in Bookings : VenueOf[b] = v /\ desk[b] = "due"}
FirstPaymentOf(b) == CHOOSE i \in Ids : payment[i].booking = b /\
                       \A j \in Ids : payment[j].booking = b => i <= j
ByCreation(a, b) == a < b
Precedes(a, b) ==
  \/ PaidFor(a) /\ ~PaidFor(b)
  \/ PaidFor(a) /\ PaidFor(b) /\ FirstPaymentOf(a) < FirstPaymentOf(b)
  \/ ~PaidFor(a) /\ ~PaidFor(b) /\ a < b

\* total_per_year, once b has been added to it.
Turnover(b, before) == MapThenSumSet(LAMBDA a : Value[a],
  {a \in before \union {b} : YearOf[a] = YearOf[b] /\ CountsInTurnover(KindOf[a])})

RuleFor(b, before) ==
  IF CustomAmount[b] # None THEN "custom" ELSE RegularRule(KindOf[b], Turnover(b, before))

HasCost(b, rule) == IF rule = "custom" THEN CustomAmount[b] > 0 ELSE Value[b] * RateOf[rule] > 0

NoneAlreadyPaid(b) == FALSE
AlreadyPaid(b) == PaidFor(b)

\* What find_all_booking_reimbursements and both filters leave.
ToPay(v) ==
  LET eligible == Eligible(v)
      Rule(b) == RuleFor(b, {a \in eligible : Precedes(a, b)})
  IN {[booking |-> b, rule |-> Rule(b)] :
        b \in {c \in eligible : HasCost(c, Rule(c)) /\ ~AlreadyPaid(c)}}

InOrder(S) == {s \in [1..Cardinality(S) -> S] :
                 \A i, j \in DOMAIN s : i < j => s[i].booking < s[j].booking}

LoadVenue(v) ==
  /\ run.step = "load" /\ v \in run.todo
  /\ \E s \in InOrder(ToPay(v)) :
       run' = [run EXCEPT !.step = "create", !.todo = @ \ {v}, !.toPay = s]
  /\ UNCHANGED <<desk, bank, payment, mailed, kills>>

Undated(due, label) ==
  [booking |-> due.booking, rule |-> due.rule, date |-> None, label |-> label,
   iban |-> bank[VenueOf[due.booking]], status |-> "none", reviewed |-> FALSE, message |-> None]

NewPayment(due, label) ==
  [booking |-> due.booking, rule |-> due.rule, date |-> run.date, label |-> label,
   iban |-> bank[VenueOf[due.booking]], status |-> "none", reviewed |-> FALSE, message |-> None]

\* bulk_save_objects and the commit of one venue.  Each payment is labelled
\* with the fortnight at that moment: the last one paid in, or the next.
CreatePayments ==
  /\ run.step = "create"
  /\ \E label \in [DOMAIN run.toPay -> Labels] :
       payment' = payment \o [k \in DOMAIN run.toPay |-> NewPayment(run.toPay[k], label[k])]
  /\ \A i \in DOMAIN payment' : LET last == IF i = 1 THEN 0 ELSE payment'[i - 1].label IN
       payment'[i].label \in {last, last + 1}
  /\ run' = [run EXCEPT !.step = "load", !.toPay = <<>>, !.created = @ \/ run.toPay # <<>>]
  /\ UNCHANGED <<desk, bank, mailed, kills>>

VenuesDone ==
  /\ run.step = "load" /\ run.todo = {}
  /\ Proceed(IF run.created THEN "pending" ELSE "retry")
  /\ UNCHANGED <<desk, bank, payment, mailed, kills>>

-----------------------------------------------------------------------------
(* Statuses                                                                *)

OfBatch(d) == {i \in Ids : payment[i].date = d}
SetStatus(S, status) == payment' = [i \in Ids |->
  IF i \in S THEN [payment[i] EXCEPT !.status = status, !.reviewed = @ \/ status = "UNDER_REVIEW"]
  ELSE payment[i]]

\* Two bulk_create_payment_statuses, each with its own commit.
MarkPending ==
  /\ run.step = "pending"
  /\ SetStatus({i \in OfBatch(run.date) : payment[i].iban # None}, "PENDING")
  /\ Proceed("unpayable")
  /\ UNCHANGED <<desk, bank, mailed, kills>>

MarkUnpayable ==
  /\ run.step = "unpayable"
  /\ SetStatus({i \in OfBatch(run.date) : payment[i].iban = None}, "NOT_PROCESSABLE")
  /\ Proceed("retry")
  /\ UNCHANGED <<desk, bank, mailed, kills>>

IbanOf(i) == bank[VenueOf[payment[i].booking]]
HasBankInformation(i) == IbanOf(i) # None

\* set_not_processable_payments_with_bank_information_to_retry
RetryWithBank ==
  /\ run.step = "retry"
  /\ payment' = [i \in Ids |->
       IF payment[i].status = "NOT_PROCESSABLE" /\ HasBankInformation(i)
       THEN [payment[i] EXCEPT !.iban = IbanOf(i), !.date = run.date, !.status = "RETRY"]
       ELSE payment[i]]
  /\ Proceed("include")
  /\ UNCHANGED <<desk, bank, mailed, kills>>

ToInclude == {"RETRY", "ERROR"}

\* include_error_and_retry_payments_in_batch
IncludeRetries ==
  /\ run.step = "include"
  /\ payment' = [i \in Ids |-> IF payment[i].status \in ToInclude
                              THEN [payment[i] EXCEPT !.date = run.date] ELSE payment[i]]
  /\ Proceed("file")
  /\ UNCHANGED <<desk, bank, mailed, kills>>

\* generate_and_send_payments with the date of a batch that was not sent.
RunAgain(d) ==
  /\ run.step = "idle"
  /\ OfBatch(d) # {}
  /\ run' = [Idle EXCEPT !.step = "file", !.date = d]
  /\ UNCHANGED <<desk, bank, payment, mailed, kills>>

-----------------------------------------------------------------------------
(* send_transactions                                                       *)

\* get_payments_by_status is a query: it is evaluated each time it is used.
AnyStatus(d) == OfBatch(d)
PaymentsToSend(d) == {i \in OfBatch(d) : payment[i].status \in {"PENDING", "ERROR", "RETRY"}}

\* generate_message_file, and validate_message_file_structure on it.
MakeFile == LET S == PaymentsToSend(run.date) IN
  /\ run.step = "file"
  /\ IF \E i \in S : payment[i].iban = "malformed"
     THEN SetStatus(S, "NOT_PROCESSABLE") /\ run' = Idle
     ELSE run' = [run EXCEPT !.step = "link", !.file = S] /\ UNCHANGED payment
  /\ UNCHANGED <<desk, bank, mailed, kills>>

\* The PaymentMessage and paymentMessageId.
\* A message is known by the payments that refer to it.
NewMessage(S) == IF S = {} THEN None
  ELSE CHOOSE m \in Messages : \A i \in Ids \ S : payment[i].message # m

LinkMessage == LET S == PaymentsToSend(run.date) IN
  /\ run.step = "link"
  /\ payment' = [i \in Ids |-> IF i \in S THEN [payment[i] EXCEPT !.message = NewMessage(S)]
                              ELSE payment[i]]
  /\ mailed' = mailed \ S
  /\ run' = [run EXCEPT !.step = "mail", !.message = NewMessage(S)]
  /\ UNCHANGED <<desk, bank, kills>>

MailSent ==
  /\ run.step = "mail"
  /\ mailed' = mailed \union {i \in run.file : payment[i].message = run.message}
  /\ Proceed("review")
  /\ UNCHANGED <<desk, bank, payment, kills>>

MailFailed == run.step = "mail" /\ Proceed("error") /\ UNCHANGED <<desk, bank, payment, mailed, kills>>

SetFinalStatus ==
  /\ run.step \in {"review", "error"}
  /\ SetStatus(PaymentsToSend(run.date), IF run.step = "review" THEN "UNDER_REVIEW" ELSE "ERROR")
  /\ run' = Idle
  /\ UNCHANGED <<desk, bank, mailed, kills>>

-----------------------------------------------------------------------------
(* After the answer of the bank.                                           *)

\* apply_banishment: whatever is not banned in the message is to be retried.
BanPayments(m, banned) == LET S == {i \in Ids : payment[i].message = m} IN
  /\ run.step = "idle"
  /\ banned # {} /\ banned \subseteq S
  /\ payment' = [i \in Ids |->
       IF i \in S THEN [payment[i] EXCEPT !.status = IF i \in banned THEN "BANNED" ELSE "RETRY"]
       ELSE payment[i]]
  /\ UNCHANGED <<desk, bank, mailed, run, kills>>

Labelled(l) == {i \in Ids : payment[i].label = l}

\* mark_payments_as_sent, from the first payment that has the label.
StartMarking(l) ==
  /\ run.step = "idle" /\ Labelled(l) # {}
  /\ run' = [Idle EXCEPT !.step = "mark", !.label = l, !.from = Min(Labelled(l))]
  /\ UNCHANGED <<desk, bank, payment, mailed, kills>>

ShortRange(from) == from .. from + BatchSize - 2
IdRange(from) == from .. from + BatchSize - 1

\* A status SENT for every payment of the label that has ever been under review.
MarkAsSent ==
  /\ run.step = "mark"
  /\ SetStatus({i \in Labelled(run.label) \intersect IdRange(run.from) : payment[i].reviewed}, "SENT")
  /\ run' = IF run.from + BatchSize > Max(Labelled(run.label)) THEN Idle
            ELSE [run EXCEPT !.from = @ + BatchSize]
  /\ UNCHANGED <<desk, bank, mailed, kills>>

Kill ==
  /\ kills < MaxKills /\ run.step # "idle"
  /\ run' = Idle /\ kills' = kills + 1
  /\ UNCHANGED <<desk, bank, payment, mailed>>

-----------------------------------------------------------------------------
Generate == (\E v \in Venues : LoadVenue(v)) \/ CreatePayments \/ VenuesDone
            \/ MarkPending \/ MarkUnpayable \/ RetryWithBank \/ IncludeRetries
Mail == MailSent \/ MailFailed
Send == MakeFile \/ LinkMessage \/ Mail \/ SetFinalStatus
RunStep == Generate \/ Send \/ MarkAsSent

Next ==
  \/ \E b \in Bookings : Use(b) \/ Unuse(b)
  \/ \E v \in Venues : BankInformationAccepted(v)
  \/ StartBatch \/ \E d \in Dates : RunAgain(d)
  \/ Generate \/ Send
  \/ \E m \in Messages, banned \in SUBSET Ids : BanPayments(m, banned)
  \/ (\E l \in Labels : StartMarking(l)) \/ MarkAsSent
  \/ Kill

Spec == Init /\ [][Next]_vars

\* Every fortnight the operator starts a batch, runs again one that failed, and
\* marks what the bank has paid under each label, old ones too, since a payment
\* that is retried keeps its own; a command that runs goes on, the mail of a
\* payment does not fail for ever, and a venue gets an IBAN in the end.
Fairness ==
  /\ WF_vars(RunStep) /\ SF_vars(StartBatch)
  /\ \A l \in Labels : SF_vars(StartMarking(l))
  /\ \A i \in 1..Cardinality(Bookings) :
       /\ SF_vars(i \in Ids /\ RunAgain(payment[i].date))
       /\ SF_vars(MailSent /\ i \in run.file)
  /\ \A v \in Venues : WF_vars(bank[v] # "valid" /\ bank' = [bank EXCEPT ![v] = "valid"]
                               /\ BankInformationAccepted(v))

FairSpec == Spec /\ Fairness

-----------------------------------------------------------------------------
RunOK ==
  /\ run.step \in Steps /\ run.date \in Dates \union {None}
  /\ run.todo \subseteq Venues /\ run.file \subseteq Ids
  /\ run.message \in Messages \union {None}
  /\ run.label \in Labels \union {None}

TypeOK ==
  /\ desk \in [Bookings -> {"booked", "used", "due"}]
  /\ bank \in [Venues -> Ibans \union {None}]
  /\ payment \in Seq(Payment)
  /\ mailed \subseteq Ids
  /\ kills \in Nat
  /\ RunOK

\* No booking is paid for twice, though batches are killed between the commits
\* of two venues, started again, and find paid bookings among the eligible ones.
PaidOnce == \A i, j \in Ids : payment[i].booking = payment[j].booking => i = j

\* A payment waits for the bank's answer only if the bank has its file, with an
\* IBAN: payments_to_send is evaluated again after the file was made and sent.
ReviewedWereMailed == \A i \in Ids : payment[i].status = "UNDER_REVIEW" =>
  /\ payment[i].iban = "valid"
  /\ payment[i].message # None /\ i \in mailed

\* A payment is at the rate of the turnover of its venue at the time: the sum of
\* what was paid for until then in that year, in whichever batches.  (Bookings
\* unused while their payment was made leave the turnover of later batches, and
\* those that a custom rule pays nothing are counted in it and never paid for.)
RatesFollowTurnover ==
  (\A i \in Ids : desk[payment[i].booking] = "due") =>
    \A i \in Ids : LET b == payment[i].booking IN
      payment[i].rule = RuleFor(b, {payment[j].booking : j \in
                          {k \in Ids : k < i /\ VenueOf[payment[k].booking] = VenueOf[b]}})

\* Every payment has a status once its batch has ended, so that a later batch
\* will send it.  A batch that is killed before the statuses breaks it.
EveryPaymentHasAStatus == run.step = "idle" => \A i \in Ids : payment[i].status # "none"

\* There is always a moment to come at which every payment that has a status is
\* sent or banned, whatever is killed, refused by the mail service, retried,
\* malformed or without an IBAN on the way.
PaymentsSettle == []<>(\A i \in Ids : payment[i].status \in {"none", "SENT", "BANNED"})
=============================================================================
