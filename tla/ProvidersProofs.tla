-------------------------- MODULE ProvidersProofs --------------------------
(* What TLAPS proves of Providers, for any catalogue, any number of workers *)
(* and pages of any size.                                                   *)
EXTENDS Providers, Integers, TLAPS, FiniteSetTheorems, WellFoundedInduction

-----------------------------------------------------------------------------
(* The inductive invariant.                                                 *)

Reading == [quantity : Nat, booking_quantity : Nat, cancelled : Nat]
Readings == UNION {[refs -> Reading] : refs \in SUBSET Refs}
Job == [step : Steps, start : Nat, since : Nat, after : Nat,
        details : Details, read : Readings, reindex : SUBSET Refs]

HasStock(r) == stock[r] # NoStock
Hand(p) == DOMAIN job[p].details
Running(p) == job[p].step \notin {"idle", "over"}

World ==
  /\ now \in Nat /\ lastSyncDate \in 0..now /\ posting \in BOOLEAN
  /\ available \in [Refs -> 0..MaxQuantity \union {Invalid}] /\ modified \in [Refs -> Nat]
  /\ queue \in Seq(Details)
Office ==
  /\ stock \in [Refs -> {NoStock} \union [quantity : Nat, raw : Nat]]
  /\ booked \in [Refs -> Nat] /\ cancelled \in [Refs -> Nat] /\ base \in [Refs -> Nat]

\* A seller posts or has a provider, not both.
OneMode ==
  /\ posting => \A r \in Refs : available[r] # Invalid
  /\ ~posting => queue = <<>>
  /\ \A p \in Syncs : posting => ~Running(p)
  /\ \A w \in Workers : /\ ~posting => job[w].step = "idle"
                        /\ job[w].step \notin {"fetch", "over"}

\* What a process has in hand, and when.
JobOK(p) ==
  /\ job[p].step \notin {"read", "write"} => Hand(p) = {}
  /\ job[p].step # "write" => DOMAIN job[p].read = {}
  /\ job[p].step # "index" => job[p].reindex = {}
  /\ DOMAIN job[p].read \subseteq Hand(p)
  /\ job[p].start <= now

\* The bookings a process has counted are there still, or are cancelled since;
\* unless something crossed it, what it has read is so still.
ReadOK(p) == \A r \in DOMAIN job[p].read :
  /\ HasStock(r)
  /\ job[p].read[r].booking_quantity + job[p].read[r].cancelled <= booked[r] + cancelled[r]
  /\ job[p].read[r].cancelled <= cancelled[r]
  /\ r \notin crossed => /\ job[p].read[r].quantity = stock[r].quantity
                         /\ job[p].read[r].booking_quantity = booked[r]
NotReadOK(p) == job[p].step = "write" =>
  \A r \in Hand(p) : r \notin DOMAIN job[p].read /\ r \notin raced => stock[r] = NoStock

OneHand == \A p, q \in Processes : p # q => Hand(p) \intersect Hand(q) \subseteq raced

BookedOK(r) ==
  /\ base[r] <= cancelled[r]
  /\ HasStock(r) => /\ booked[r] <= stock[r].quantity
                    /\ stock[r].quantity + base[r] <= stock[r].raw + booked[r] + cancelled[r]
  /\ ~HasStock(r) => booked[r] = 0

ShownOK(r) ==
  HasStock(r) /\ r \notin crossed /\ (\A p \in Processes : r \notin job[p].reindex) =>
    (r \in shown <=> SoldOut(r))

\* Whoever has the book in hand will write what the provider says.
UpToDate(p, r) == r \in Hand(p) => job[p].details[r] = available[r]
Settled(r) == available[r] = Invalid \/ (Follows(r) /\ \A p \in Processes : UpToDate(p, r))

\* The synchronisation has still to meet the book, or has it.
Due(p, r) ==
  \/ r > job[p].after /\ modified[r] >= job[p].since
  \/ r \in Hand(p) /\ job[p].details[r] = available[r]
Synced(r) == Settled(r) \/
  /\ modified[r] >= lastSyncDate
  /\ \A p \in Syncs : Running(p) /\ modified[r] < job[p].start => Due(p, r)

\* What was posted last is in the queue, in the hands of a worker, or written.
InQueue(r, k) == k \in 1..Len(queue) /\ r \in DOMAIN queue[k]
Posted(r) ==
  /\ \A k \in 1..Len(queue) :
       InQueue(r, k) /\ (\A m \in 1..Len(queue) : m > k => ~InQueue(r, m)) => queue[k][r] = available[r]
  /\ \/ \E k \in 1..Len(queue) : InQueue(r, k)
     \/ /\ \A w \in Workers : UpToDate(w, r)
        /\ Follows(r) \/ \E w \in Workers : r \in Hand(w)
Pursued(r) == Spared(r) => IF posting THEN Posted(r) ELSE Synced(r)

IInv ==
  /\ World /\ Office /\ job \in [Processes -> Job]
  /\ OneMode /\ OneHand
  /\ \A p \in Processes : JobOK(p) /\ ReadOK(p) /\ NotReadOK(p)
  /\ \A r \in Refs : BookedOK(r) /\ ShownOK(r) /\ Pursued(r)

-----------------------------------------------------------------------------
(* Facts about the data.                                                    *)

LEMMA Constants ==
  /\ Refs \subseteq Nat /\ 0 \notin Refs /\ IsFiniteSet(Refs)
  /\ Cron \in Processes /\ Creation \in Processes /\ Cron # Creation
  /\ Syncs \subseteq Processes /\ Workers \subseteq Processes
  /\ \A p \in Processes : p \in Syncs <=> p \notin Workers
  /\ MaxQuantity \in Nat /\ Invalid \notin Nat /\ NoStock \notin [quantity : Nat, raw : Nat]
BY ProvidersAssumption DEF Processes, Syncs

LEMMA Nothing ==
  /\ DOMAIN <<>> = {} /\ <<>> \in Details /\ <<>> \in Readings
<1>1. <<>> = [x \in {} |-> 0] /\ DOMAIN <<>> = {}  OBVIOUS
<1>2. [x \in {} |-> 0] \in [{} -> 0..MaxQuantity] /\ [x \in {} |-> 0] \in [{} -> Reading]
  OBVIOUS
<1>3. {} \in SUBSET Refs  OBVIOUS
<1> QED BY <1>1, <1>2, <1>3 DEF Details, Readings

LEMMA DetailsOK ==
  ASSUME NEW d \in Details
  PROVE  DOMAIN d \subseteq Refs /\ \A r \in DOMAIN d : d[r] \in 0..MaxQuantity
BY DEF Details

LEMMA ReadingsOK ==
  ASSUME NEW d \in Readings
  PROVE  /\ DOMAIN d \subseteq Refs
         /\ \A r \in DOMAIN d : /\ d[r].quantity \in Nat /\ d[r].booking_quantity \in Nat
                                /\ d[r].cancelled \in Nat
BY DEF Readings, Reading

LEMMA IdleOK ==
  /\ Idle \in Job /\ Idle.step = "idle" /\ Idle.details = <<>> /\ Idle.read = <<>> /\ Idle.reindex = {}
  /\ Idle.start = 0
  /\ Over \in Job /\ Over.step = "over" /\ Over.details = <<>> /\ Over.read = <<>> /\ Over.reindex = {}
  /\ Over.start = 0
<1>1. Idle \in Job  BY Nothing DEF Idle, Job, Steps
<1>2. Over \in Job  BY <1>1 DEF Over, Job, Steps
<1> QED BY <1>1, <1>2 DEF Idle, Over

LEMMA JobTyped ==
  ASSUME IInv, NEW p \in Processes
  PROVE  /\ job[p] \in Job /\ job[p].step \in Steps /\ job[p].details \in Details /\ job[p].read \in Readings
         /\ job[p].start \in Nat /\ job[p].since \in Nat /\ job[p].after \in Nat /\ job[p].reindex \subseteq Refs
         /\ Hand(p) \subseteq Refs
<1>1. job[p] \in Job  BY DEF IInv
<1>2. job[p].details \in Details /\ job[p].read \in Readings  BY <1>1 DEF Job
<1>3. Hand(p) \subseteq Refs  BY <1>2, DetailsOK DEF Hand
<1> QED BY <1>1, <1>2, <1>3 DEF Job
-----------------------------------------------------------------------------
(* The world around the processes.                                          *)

LEMMA WorldKeeps ==
  ASSUME IInv, UNCHANGED <<stock, booked, cancelled, base, job, shown, crossed, raced>>,
         World', OneMode', now <= now', \A r \in Refs : Pursued(r)'
  PROVE  IInv'
<1>1. Office' /\ (job \in [Processes -> Job])'  BY DEF IInv, Office
<1>2. OneHand'  BY DEF IInv, OneHand, Hand
<1>3. \A p \in Processes : JobOK(p)' /\ ReadOK(p)' /\ NotReadOK(p)'
  <2> TAKE p \in Processes
  <2>1. JobOK(p)'
    <3>1. job[p].start \in Nat /\ now \in Nat /\ now' \in Nat /\ job[p].start <= now
      BY JobTyped DEF IInv, JobOK, World
    <3> QED BY <3>1 DEF IInv, JobOK, Hand
  <2>2. ReadOK(p)' /\ NotReadOK(p)'  BY DEF IInv, ReadOK, NotReadOK, HasStock, Hand
  <2> QED BY <2>1, <2>2
<1>4. \A r \in Refs : BookedOK(r)' /\ ShownOK(r)'
  BY DEF IInv, BookedOK, ShownOK, HasStock, SoldOut
<1> QED BY <1>1, <1>2, <1>3, <1>4 DEF IInv

LEMMA PursuedSame ==
  ASSUME NEW r, UNCHANGED <<posting, available, modified, stock, lastSyncDate, queue, job, skipped, raced>>
  PROVE  Pursued(r)' = Pursued(r)
BY DEF Pursued, Spared, Posted, Synced, Settled, Due, Follows, UpToDate, InQueue, Hand, Running

LEMMA TickKeeps ==
  ASSUME IInv, Tick
  PROVE  IInv'
<1>1. UNCHANGED <<posting, available, modified, stock, booked, cancelled, base, lastSyncDate, queue, job,
                  shown, skipped, raced, crossed>> /\ now' = now + 1
  BY DEF Tick, provider, office, history
<1>2. World' /\ now <= now'  BY <1>1 DEF IInv, World
<1>3. OneMode'  BY <1>1 DEF IInv, OneMode, Running
<1>4. \A r \in Refs : Pursued(r)'  BY <1>1, PursuedSame DEF IInv
<1> QED BY <1>1, <1>2, <1>3, <1>4, WorldKeeps

LEMMA AddProductKeeps ==
  ASSUME IInv, NEW r \in Refs, AddProduct(r)
  PROVE  IInv'
<1>1. UNCHANGED <<now, posting, available, modified, stock, booked, cancelled, base, lastSyncDate, queue, job,
                  shown, skipped, raced, crossed>>
  BY DEF AddProduct, provider, office, history
<1>2. World' /\ now <= now'  BY <1>1 DEF IInv, World
<1>3. OneMode'  BY <1>1 DEF IInv, OneMode, Running
<1>4. \A s \in Refs : Pursued(s)'  BY <1>1, PursuedSame DEF IInv
<1> QED BY <1>1, <1>2, <1>3, <1>4, WorldKeeps

LEMMA ProviderChangesKeeps ==
  ASSUME IInv, NEW r \in Refs, ProviderChanges(r)
  PROVE  IInv'
<1>1. UNCHANGED <<now, posting, stock, booked, cancelled, base, lastSyncDate, queue, job,
                  shown, skipped, raced, crossed>> /\ ~posting
  BY DEF ProviderChanges, office, history
<1>a. /\ available' \in [Refs -> 0..MaxQuantity \union {Invalid}]
      /\ modified' \in [Refs -> Nat] /\ modified'[r] = now
      /\ \A s \in Refs \ {r} : available'[s] = available[s] /\ modified'[s] = modified[s]
  BY DEF ProviderChanges, IInv, World
<1>2. World' /\ now <= now'  BY <1>1, <1>a DEF IInv, World
<1>3. OneMode'  BY <1>1 DEF IInv, OneMode, Running
<1>4. ASSUME NEW s \in Refs, s # r  PROVE Pursued(s)'
  <2>1. Synced(s)' = Synced(s)
    BY <1>1, <1>a, <1>4 DEF Synced, Settled, Due, Follows, UpToDate, Hand, Running
  <2> QED BY <1>1, <2>1 DEF IInv, Pursued, Spared
<1>5. Pursued(r)'
  <2>1. modified'[r] >= lastSyncDate  BY <1>a DEF IInv, World
  <2>2. \A p \in Syncs : ~(modified'[r] < job[p].start)
    <3> TAKE p \in Syncs
    <3>1. p \in Processes  BY Constants
    <3>2. job[p].start \in Nat /\ job[p].start <= now /\ now \in Nat
      BY <3>1, JobTyped DEF IInv, JobOK, World
    <3> QED BY <1>a, <3>2
  <2>3. Synced(r)'  BY <1>1, <2>1, <2>2 DEF Synced
  <2> QED BY <1>1, <2>3 DEF Pursued
<1> QED BY <1>1, <1>2, <1>3, <1>4, <1>5, WorldKeeps

LEMMA UpdateStocksKeeps ==
  ASSUME IInv, NEW r \in Refs, UpdateStocks(r)
  PROVE  IInv'
<1>1. UNCHANGED <<now, posting, modified, stock, booked, cancelled, base, lastSyncDate, job,
                  shown, skipped, raced, crossed>> /\ posting
  BY DEF UpdateStocks, office, history
<1> PICK q \in 0..MaxQuantity : /\ available' = [available EXCEPT ![r] = q]
                                /\ queue' = Append(queue, [s \in {r} |-> q])
  BY DEF UpdateStocks
<1> DEFINE new == [s \in {r} |-> q]
<1>n. new \in Details /\ DOMAIN new = {r} /\ new[r] = q
  <2>1. new \in [{r} -> 0..MaxQuantity] /\ {r} \in SUBSET Refs  OBVIOUS
  <2> QED BY <2>1 DEF Details
<1>q. queue' = Append(queue, new)  OBVIOUS
<1> HIDE DEF new
<1>a. /\ available' \in [Refs -> 0..MaxQuantity \union {Invalid}] /\ available'[r] = q
      /\ \A s \in Refs \ {r} : available'[s] = available[s]
  BY DEF IInv, World
<1> PICK n \in Nat : n = Len(queue) + 1  BY DEF IInv, World
<1>l. /\ queue' \in Seq(Details) /\ Len(queue) \in Nat /\ Len(queue') = n
      /\ queue'[n] = new
      /\ \A k \in 1..Len(queue) : queue'[k] = queue[k]
  BY <1>n, <1>q DEF IInv, World
<1>2. World' /\ now <= now'  BY <1>1, <1>a, <1>l DEF IInv, World
<1>3. OneMode'
  BY <1>1, <1>a, Constants DEF IInv, OneMode, Running
<1>4. ASSUME NEW s \in Refs, s # r  PROVE Pursued(s)'
  <2>1. \A k \in 1..Len(queue) : InQueue(s, k)' <=> InQueue(s, k)
    BY <1>l DEF InQueue
  <2>2. ~InQueue(s, n)'  BY <1>l, <1>n, <1>4 DEF InQueue
  <2>3. 1..Len(queue') = 1..Len(queue) \union {n}  BY <1>l
  <2>4. /\ UNCHANGED <<Follows(s), Spared(s)>>
        /\ \A w \in Workers : UpToDate(w, s)' = UpToDate(w, s) /\ Hand(w)' = Hand(w)
    BY <1>1, <1>a, <1>4 DEF Follows, Spared, UpToDate, Hand
  <2>5. Posted(s) => Posted(s)'
    <3> SUFFICES ASSUME Posted(s)  PROVE Posted(s)'
      OBVIOUS
    <3>1. ASSUME NEW k \in 1..Len(queue'), InQueue(s, k)',
                 \A m \in 1..Len(queue') : m > k => ~InQueue(s, m)'
          PROVE  queue'[k][s] = available'[s]
      <4>1. k \in 1..Len(queue)  BY <2>2, <2>3, <3>1
      <4>2. InQueue(s, k) /\ \A m \in 1..Len(queue) : m > k => ~InQueue(s, m)
        BY <2>1, <2>3, <3>1, <4>1
      <4> QED BY <1>a, <1>l, <1>4, <4>1, <4>2 DEF Posted
    <3>2. \/ \E k \in 1..Len(queue') : InQueue(s, k)'
          \/ /\ \A w \in Workers : UpToDate(w, s)'
             /\ Follows(s)' \/ \E w \in Workers : s \in Hand(w)'
      BY <2>1, <2>3, <2>4 DEF Posted
    <3> QED BY <3>1, <3>2 DEF Posted
  <2> QED BY <1>1, <2>4, <2>5 DEF IInv, Pursued
<1>5. Posted(r)'
  <2>1. n \in 1..Len(queue') /\ InQueue(r, n)'
    BY <1>l, <1>n DEF InQueue
  <2>2. ASSUME NEW k \in 1..Len(queue'), \A m \in 1..Len(queue') : m > k => ~InQueue(r, m)'
        PROVE  queue'[k][r] = available'[r]
    <3>1. k = n  BY <1>l, <2>1, <2>2
    <3> QED BY <3>1, <1>a, <1>l, <1>n
  <2> QED BY <2>1, <2>2 DEF Posted
<1>6. \A s \in Refs : Pursued(s)'  BY <1>1, <1>4, <1>5 DEF Pursued
<1> QED BY <1>1, <1>2, <1>3, <1>6, WorldKeeps
-----------------------------------------------------------------------------
(* Beneficiaries.                                                           *)

\* A booking or a cancellation: whoever has counted the bookings is crossed.
LEMMA BookingKeeps ==
  ASSUME IInv, NEW r \in Refs, Crossing(r), HasStock(r),
         UNCHANGED <<now, posting, available, modified, stock, base, lastSyncDate, queue, job, skipped, raced>>,
         booked' \in [Refs -> Nat], cancelled' \in [Refs -> Nat],
         \A s \in Refs \ {r} : booked'[s] = booked[s] /\ cancelled'[s] = cancelled[s],
         booked[r] + cancelled[r] <= booked'[r] + cancelled'[r], cancelled[r] <= cancelled'[r],
         booked'[r] <= stock[r].quantity,
         r \in shown' <=> stock[r].quantity <= booked'[r],
         \A s \in Refs \ {r} : s \in shown' <=> s \in shown
  PROVE  IInv'
<1>1. World' /\ Office' /\ (job \in [Processes -> Job])' /\ OneMode' /\ OneHand'
  BY DEF IInv, World, Office, OneMode, OneHand, Hand, Running
<1>2. crossed \subseteq crossed'  BY DEF Crossing
<1>3. \A p \in Processes : JobOK(p)' /\ NotReadOK(p)'
  BY DEF IInv, JobOK, NotReadOK, Hand
<1>n. \A s \in Refs : /\ booked[s] \in Nat /\ cancelled[s] \in Nat /\ booked'[s] \in Nat /\ cancelled'[s] \in Nat
                      /\ base[s] \in Nat
  BY DEF IInv, Office
<1>4. \A p \in Processes : ReadOK(p)'
  <2> SUFFICES ASSUME NEW p \in Processes, NEW s \in DOMAIN job[p].read
               PROVE  /\ HasStock(s)'
                      /\ job[p].read[s].booking_quantity + job[p].read[s].cancelled <= booked'[s] + cancelled'[s]
                      /\ job[p].read[s].cancelled <= cancelled'[s]
                      /\ s \notin crossed' => /\ job[p].read[s].quantity = stock'[s].quantity
                                              /\ job[p].read[s].booking_quantity = booked'[s]
    BY DEF ReadOK
  <2>1. /\ s \in Refs /\ job[p].read[s].booking_quantity \in Nat /\ job[p].read[s].cancelled \in Nat
    BY JobTyped, ReadingsOK
  <2>2. ReadOK(p) /\ JobOK(p)  BY DEF IInv
  <2>3. /\ HasStock(s)
        /\ job[p].read[s].booking_quantity + job[p].read[s].cancelled <= booked[s] + cancelled[s]
        /\ job[p].read[s].cancelled <= cancelled[s]
        /\ s \notin crossed => /\ job[p].read[s].quantity = stock[s].quantity
                               /\ job[p].read[s].booking_quantity = booked[s]
    BY <2>2 DEF ReadOK
  <2>4. s = r => s \in crossed'
    BY <2>2 DEF JobOK, Crossing, At
  <2>5. HasStock(s)'  BY <2>3 DEF HasStock
  <2>6. /\ booked[s] + cancelled[s] <= booked'[s] + cancelled'[s] /\ cancelled[s] <= cancelled'[s]
    BY <1>n, <2>1
  <2> QED BY <1>2, <1>n, <2>1, <2>3, <2>4, <2>5, <2>6
<1>5. \A s \in Refs : BookedOK(s)'
  <2> TAKE s \in Refs
  <2>1. BookedOK(s)  BY DEF IInv
  <2>2. CASE s # r  BY <2>1, <2>2 DEF BookedOK, HasStock
  <2>3. CASE s = r
    <3>1. stock[r] \in [quantity : Nat, raw : Nat]  BY DEF IInv, Office, HasStock
    <3> DEFINE quantity == stock[r].quantity
               raw == stock[r].raw
    <3>2. quantity \in Nat /\ raw \in Nat  BY <3>1
    <3>3. base[r] <= cancelled[r] /\ quantity + base[r] <= raw + booked[r] + cancelled[r]
      BY <2>1, <2>3 DEF BookedOK
    <3> HIDE DEF quantity, raw
    <3>4. base[r] <= cancelled'[r] /\ quantity + base[r] <= raw + booked'[r] + cancelled'[r]
      BY <1>n, <3>2, <3>3
    <3> QED BY <2>3, <3>4 DEF BookedOK, HasStock, quantity, raw
  <2> QED BY <2>2, <2>3
<1>6. \A s \in Refs : ShownOK(s)'
  BY <1>2 DEF IInv, ShownOK, HasStock, SoldOut
<1>7. \A s \in Refs : Pursued(s)'  BY PursuedSame DEF IInv
<1> QED BY <1>1, <1>3, <1>4, <1>5, <1>6, <1>7 DEF IInv

LEMMA BookKeeps ==
  ASSUME IInv, NEW r \in Refs, Book(r)
  PROVE  IInv'
<1>1. UNCHANGED <<now, posting, available, modified, stock, cancelled, base, lastSyncDate, queue, job, skipped, raced>>
      /\ Crossing(r) /\ HasStock(r) /\ ~SoldOut(r)
  BY DEF Book, provider, HasStock
<1>2. stock[r].quantity \in Nat /\ booked[r] \in Nat /\ booked[r] < stock[r].quantity
  BY <1>1 DEF IInv, Office, HasStock, SoldOut
<1>3. /\ booked' \in [Refs -> Nat] /\ booked'[r] = booked[r] + 1
      /\ \A s \in Refs \ {r} : booked'[s] = booked[s]
  BY DEF Book, IInv, Office
<1>4. /\ r \in shown' <=> stock[r].quantity <= booked'[r]
      /\ \A s \in Refs \ {r} : s \in shown' <=> s \in shown
  <2>1. Remaining(r) = 1 <=> stock[r].quantity <= booked[r] + 1  BY <1>2 DEF Remaining
  <2>2. CASE Remaining(r) = 1  BY <1>3, <2>1, <2>2 DEF Book
  <2>3. CASE Remaining(r) # 1  BY <1>3, <2>1, <2>3 DEF Book
  <2> QED BY <2>2, <2>3
<1>5. cancelled' \in [Refs -> Nat] /\ \A s \in Refs : cancelled'[s] = cancelled[s] /\ cancelled[s] \in Nat
  BY <1>1 DEF IInv, Office
<1>6. booked[r] + cancelled[r] <= booked'[r] + cancelled'[r] /\ cancelled[r] <= cancelled'[r]
  BY <1>2, <1>3, <1>5
<1>7. booked'[r] <= stock[r].quantity  BY <1>2, <1>3
<1>8. \A s \in Refs \ {r} : booked'[s] = booked[s] /\ cancelled'[s] = cancelled[s]  BY <1>3, <1>5
<1> QED BY <1>1, <1>3, <1>4, <1>5, <1>6, <1>7, <1>8, BookingKeeps

LEMMA CancelKeeps ==
  ASSUME IInv, NEW r \in Refs, Cancel(r)
  PROVE  IInv'
<1>1. UNCHANGED <<now, posting, available, modified, stock, base, lastSyncDate, queue, job, skipped, raced>>
      /\ Crossing(r) /\ booked[r] > 0
  BY DEF Cancel, provider
<1>2. booked[r] \in Nat /\ cancelled[r] \in Nat  BY DEF IInv, Office
<1>3. HasStock(r) /\ booked[r] <= stock[r].quantity /\ stock[r].quantity \in Nat
  BY <1>1, <1>2 DEF IInv, BookedOK, Office, HasStock
<1>4. /\ booked' \in [Refs -> Nat] /\ booked'[r] = booked[r] - 1
      /\ cancelled' \in [Refs -> Nat] /\ cancelled'[r] = cancelled[r] + 1
      /\ \A s \in Refs \ {r} : booked'[s] = booked[s] /\ cancelled'[s] = cancelled[s]
  BY <1>1, <1>2 DEF Cancel, IInv, Office
<1>5. booked[r] + cancelled[r] <= booked'[r] + cancelled'[r] /\ cancelled[r] <= cancelled'[r]
      /\ booked'[r] <= stock[r].quantity /\ ~(stock[r].quantity <= booked'[r])
  BY <1>1, <1>2, <1>3, <1>4
<1>6. /\ r \in shown' <=> stock[r].quantity <= booked'[r]
      /\ \A s \in Refs \ {r} : s \in shown' <=> s \in shown
  BY <1>5 DEF Cancel
<1> QED BY <1>1, <1>3, <1>4, <1>5, <1>6, BookingKeeps
LEMMA HasLeast ==
  ASSUME NEW T \in SUBSET Nat, T # {}
  PROVE  \E x \in T : \A y \in T : x <= y
<1>1. PICK x \in T : \A y \in T : ~(<<y, x>> \in OpToRel(<, Nat))
  BY NatLessThanWellFounded, WFMin
<1>2. \A y \in T : ~(y < x)  BY <1>1 DEF OpToRel
<1> QED BY <1>2

LEMMA HasMax ==
  ASSUME NEW S \in SUBSET Nat, IsFiniteSet(S), S # {}
  PROVE  Max(S) \in S /\ \A y \in S : y <= Max(S)
<1> DEFINE Above(x) == {y \in S : y > x}
           T == {Cardinality(Above(x)) : x \in S}
<1>1. \A x \in S : IsFiniteSet(Above(x)) /\ Cardinality(Above(x)) \in Nat
  <2> TAKE x \in S
  <2>1. Above(x) \subseteq S  OBVIOUS
  <2> HIDE DEF Above
  <2> QED BY <2>1, FS_Subset, FS_CardinalityType
<1>2. PICK n \in T : \A m \in T : n <= m
  <2>1. T \subseteq Nat /\ T # {}
    <3> HIDE DEF Above
    <3> QED BY <1>1
  <2> HIDE DEF T
  <2> QED BY <2>1, HasLeast
<1>3. PICK x \in S : n = Cardinality(Above(x))  OBVIOUS
<1>4. \A y \in S : y <= x
  <2> SUFFICES ASSUME NEW y \in S, y > x  PROVE FALSE
    OBVIOUS
  <2>1. Above(y) \subseteq Above(x) /\ y \in Above(x) /\ y \notin Above(y)
    <3>1. x \in Nat /\ y \in Nat /\ \A z \in S : z \in Nat  OBVIOUS
    <3>2. \A z \in S : z > y => z > x  BY <3>1
    <3>3. ~(y > y) /\ y > x  BY <3>1
    <3>4. Above(y) \subseteq Above(x)  BY <3>2
    <3>5. y \in Above(x)  BY <3>3
    <3>6. y \notin Above(y)  BY <3>3
    <3> QED BY <3>4, <3>5, <3>6
  <2>2. Cardinality(Above(y)) \in T  OBVIOUS
  <2> HIDE DEF Above, T
  <2>3. Cardinality(Above(y)) < Cardinality(Above(x))
    <3>1. Above(y) # Above(x)  BY <2>1
    <3> QED BY <1>1, <2>1, <3>1, FS_Subset
  <2> QED BY <1>1, <1>2, <1>3, <2>2, <2>3
<1> QED BY <1>4 DEF Max
-----------------------------------------------------------------------------
(* Steps of one process.                                                    *)

Moves(p, new) == new \in Job /\ job' = [job EXCEPT ![p] = new]

LEMMA Others ==
  ASSUME IInv, NEW p \in Processes, NEW new, Moves(p, new)
  PROVE  /\ job' \in [Processes -> Job] /\ job'[p] = new
         /\ \A q \in Processes \ {p} : job'[q] = job[q]
BY DEF IInv, Moves

\* What is left to show of a step that writes no stock.
LEMMA StepKeeps ==
  ASSUME IInv, NEW p \in Processes, NEW new, Moves(p, new),
         UNCHANGED <<now, posting, available, modified, stock, booked, cancelled, base>>,
         lastSyncDate' \in 0..now, queue' \in Seq(Details), ~posting => queue' = <<>>,
         p \in Syncs /\ posting => new.step \in {"idle", "over"},
         p \in Workers => new.step \notin {"fetch", "over"} /\ (~posting => new.step = "idle"),
         JobOK(p)', ReadOK(p)', NotReadOK(p)',
         crossed \subseteq crossed', raced \subseteq raced',
         \A q \in Processes \ {p} : DOMAIN new.details \intersect Hand(q) \subseteq raced',
         \A r \in Refs : ShownOK(r)', \A r \in Refs : Pursued(r)'
  PROVE  IInv'
<1>1. /\ job' \in [Processes -> Job] /\ job'[p] = new
      /\ \A q \in Processes \ {p} : job'[q] = job[q]
  BY Others
<1>2. World' /\ Office'  BY DEF IInv, World, Office
<1>3. OneMode'
  <2>1. \A q \in Syncs : posting => ~Running(q)'
    BY <1>1, Constants DEF IInv, OneMode, Running
  <2>2. \A w \in Workers : /\ ~posting => job'[w].step = "idle"
                           /\ job'[w].step \notin {"fetch", "over"}
    BY <1>1, Constants DEF IInv, OneMode
  <2> QED BY <2>1, <2>2 DEF IInv, OneMode
<1>4. OneHand'
  <2>1. \A q \in Processes \ {p} : Hand(q)' = Hand(q)  BY <1>1 DEF Hand
  <2>2. Hand(p)' = DOMAIN new.details  BY <1>1 DEF Hand
  <2>3. OneHand  BY DEF IInv
  <2> QED BY <2>1, <2>2, <2>3 DEF OneHand
<1>5. \A q \in Processes : JobOK(q)' /\ ReadOK(q)' /\ NotReadOK(q)'
  <2> TAKE q \in Processes
  <2>1. CASE q = p  BY <2>1
  <2>2. CASE q # p
    <3>1. job'[q] = job[q] /\ JobOK(q) /\ ReadOK(q) /\ NotReadOK(q)  BY <1>1, <2>2 DEF IInv
    <3>2. JobOK(q)'  BY <3>1 DEF JobOK, Hand
    <3>3. ReadOK(q)' /\ NotReadOK(q)'  BY <3>1 DEF ReadOK, NotReadOK, HasStock, Hand
    <3> QED BY <3>2, <3>3
  <2> QED BY <2>1, <2>2
<1>6. \A r \in Refs : BookedOK(r)'  BY DEF IInv, BookedOK, HasStock
<1> QED BY <1>1, <1>2, <1>3, <1>4, <1>5, <1>6 DEF IInv

LEMMA ShownKept ==
  ASSUME IInv, NEW p \in Processes, NEW new, Moves(p, new),
         UNCHANGED <<stock, booked, shown>>, crossed \subseteq crossed',
         job[p].reindex \subseteq new.reindex \union crossed'
  PROVE  \A r \in Refs : ShownOK(r)'
<1>1. job'[p] = new /\ \A q \in Processes \ {p} : job'[q] = job[q]  BY Others
<1> TAKE r \in Refs
<1>2. ShownOK(r)  BY DEF IInv
<1> QED BY <1>1, <1>2 DEF ShownOK, HasStock, SoldOut

\* A process that drops nothing, or only what is skipped, or has failed.
LEMMA PursuitKept ==
  ASSUME IInv, NEW p \in Processes, NEW new, Moves(p, new),
         UNCHANGED <<posting, available, modified, stock, lastSyncDate, queue>>,
         raced \subseteq raced', skipped \subseteq skipped',
         DOMAIN new.details \subseteq Hand(p),
         \A r \in DOMAIN new.details : new.details[r] = job[p].details[r],
         \A r \in Hand(p) : r \in DOMAIN new.details \union skipped' \/ (p \in Syncs /\ new.step \in {"idle", "over"}),
         new.step \notin {"idle", "over"} =>
           Running(p) /\ new.start = job[p].start /\ new.since = job[p].since /\ new.after = job[p].after
  PROVE  \A r \in Refs : Pursued(r)'
<1> SUFFICES ASSUME NEW r \in Refs, Spared(r)'
             PROVE  IF posting THEN Posted(r)' ELSE Synced(r)'
  BY DEF Pursued
<1>1. job'[p] = new /\ \A q \in Processes \ {p} : job'[q] = job[q]  BY Others
<1>2. Spared(r) /\ r \notin skipped'  BY DEF Spared
<1>3. \A q \in Processes : UpToDate(q, r) => UpToDate(q, r)'
  BY <1>1 DEF UpToDate, Hand
<1>4. Follows(r)' = Follows(r)  BY DEF Follows
<1>5. CASE posting
  <2>1. Posted(r)  BY <1>2, <1>5 DEF IInv, Pursued
  <2>2. \A w \in Workers : r \in Hand(w) => r \in Hand(w)'
    BY <1>1, <1>2, Constants DEF Hand
  <2>3. \A k : InQueue(r, k)' = InQueue(r, k)  BY DEF InQueue
  <2>4. \A w \in Workers : UpToDate(w, r) => UpToDate(w, r)'  BY <1>3, Constants
  <2>5. Posted(r)'
    <3>1. \A k \in 1..Len(queue') :
            InQueue(r, k)' /\ (\A m \in 1..Len(queue') : m > k => ~InQueue(r, m)') => queue'[k][r] = available'[r]
      BY <2>1, <2>3 DEF Posted
    <3>2. \/ \E k \in 1..Len(queue') : InQueue(r, k)'
          \/ /\ \A w \in Workers : UpToDate(w, r)'
             /\ Follows(r)' \/ \E w \in Workers : r \in Hand(w)'
      BY <1>4, <2>1, <2>2, <2>3, <2>4 DEF Posted
    <3> QED BY <3>1, <3>2 DEF Posted
  <2> QED BY <1>5, <2>5
<1>6. CASE ~posting
  <2>1. Synced(r)  BY <1>2, <1>6 DEF IInv, Pursued
  <2>2. Settled(r) => Settled(r)'  BY <1>3, <1>4 DEF Settled
  <2>3. ASSUME NEW q \in Syncs, Running(q)', modified[r] < job'[q].start, modified[r] < job[q].start => Due(q, r)
        PROVE  Due(q, r)' /\ Running(q)
    <3>1. q \in Processes  BY Constants
    <3>2. CASE q # p  BY <1>1, <2>3, <3>1, <3>2 DEF Due, Hand, Running
    <3>3. CASE q = p
      <4>1. new.step \notin {"idle", "over"}  BY <1>1, <2>3, <3>3 DEF Running
      <4> QED BY <1>1, <1>2, <2>3, <3>3, <4>1 DEF Due, Hand
    <3> QED BY <3>2, <3>3
  <2>4. Running(p)' => Running(p)  BY <1>1 DEF Running
  <2>5. \A q \in Syncs : Running(q)' => Running(q)
    BY <1>1, <2>4, Constants DEF Running
  <2>6. Synced(r)'
    <3>1. CASE Settled(r)  BY <2>2, <3>1 DEF Synced
    <3>2. CASE ~Settled(r)
      <4>1. modified[r] >= lastSyncDate
            /\ \A q \in Syncs : Running(q) /\ modified[r] < job[q].start => Due(q, r)
        BY <2>1, <3>2 DEF Synced
      <4>2. \A q \in Syncs : Running(q)' /\ modified[r] < job'[q].start => Due(q, r)'
        BY <2>3, <2>5, <4>1
      <4> QED BY <4>1, <4>2 DEF Synced
    <3> QED BY <3>1, <3>2
  <2> QED BY <1>6, <2>6
<1> QED BY <1>5, <1>6
LEMMA StartedOK ==
  ASSUME now \in Nat, lastSyncDate \in Nat
  PROVE  /\ Started \in Job /\ Started.step = "fetch" /\ Started.start = now /\ Started.since = lastSyncDate
         /\ Started.after = 0 /\ DOMAIN Started.details = {} /\ DOMAIN Started.read = {} /\ Started.reindex = {}
<1>1. Started \in Job  BY IdleOK DEF Started, Job, Steps
<1>2. /\ Started.step = "fetch" /\ Started.start = now /\ Started.since = lastSyncDate
      /\ Started.after = 0 /\ Started.details = <<>> /\ Started.read = <<>> /\ Started.reindex = {}
  BY DEF Started, Idle
<1> QED BY <1>1, <1>2, Nothing

LEMMA EndedOK ==
  ASSUME NEW p \in Processes
  PROVE  /\ Ended(p) \in Job /\ Ended(p).step \in {"idle", "over"} /\ (p \in Workers => Ended(p).step = "idle")
         /\ Ended(p).start = 0 /\ DOMAIN Ended(p).details = {} /\ DOMAIN Ended(p).read = {}
         /\ Ended(p).reindex = {}
<1>1. p = Creation => p \notin Workers  BY Constants DEF Syncs
<1>2. CASE p = Creation  BY <1>1, <1>2, IdleOK, Nothing DEF Ended
<1>3. CASE p # Creation  BY <1>3, IdleOK, Nothing DEF Ended
<1> QED BY <1>2, <1>3

LEMMA StartSyncKeeps ==
  ASSUME IInv, StartSync
  PROVE  IInv'
<1> DEFINE p == Cron
           new == Started
<1>u. /\ UNCHANGED <<now, posting, available, modified, stock, booked, cancelled, base, lastSyncDate, queue,
                     shown, skipped, raced, crossed>>
      /\ ~posting /\ job[p].step = "idle" /\ job' = [job EXCEPT ![p] = new]
  BY DEF StartSync, provider, office, history, At
<1>t. p \in Processes /\ p \in Syncs /\ p \notin Workers  BY Constants DEF Syncs
<1>d. now \in Nat /\ lastSyncDate \in Nat /\ lastSyncDate \in 0..now /\ queue \in Seq(Details) /\ queue = <<>>
  BY <1>u DEF IInv, World, OneMode
<1>n. /\ new \in Job /\ new.step = "fetch" /\ new.start = now /\ new.since = lastSyncDate
      /\ new.after = 0 /\ DOMAIN new.details = {} /\ DOMAIN new.read = {} /\ new.reindex = {}
  BY <1>d, StartedOK
<1> HIDE DEF new, p
<1>m. Moves(p, new)  BY <1>n, <1>u DEF Moves
<1>1. job'[p] = new /\ \A q \in Processes \ {p} : job'[q] = job[q]  BY <1>m, <1>t, Others
<1>2. JobOK(p)'  BY <1>1, <1>d, <1>n, <1>u DEF JobOK, Hand
<1>3. ReadOK(p)' /\ NotReadOK(p)'  BY <1>1, <1>n DEF ReadOK, NotReadOK
<1>4. \A r \in Refs : ShownOK(r)'
  <2>1. job[p].reindex = {}  BY <1>t, <1>u DEF IInv, JobOK
  <2> QED BY <1>m, <1>t, <1>u, <2>1, ShownKept
<1>5. \A r \in Refs : Pursued(r)'
  <2> SUFFICES ASSUME NEW r \in Refs, Spared(r)'  PROVE Synced(r)'
    BY <1>u DEF Pursued
  <2>1. Spared(r) /\ Synced(r)  BY <1>u DEF Spared, IInv, Pursued
  <2>2. CASE Settled(r)
    <3>1. \A q \in Processes : UpToDate(q, r) => UpToDate(q, r)'
      BY <1>1, <1>n, <1>u DEF UpToDate, Hand
    <3> QED BY <1>u, <2>2, <3>1 DEF Settled, Follows, Synced
  <2>3. CASE ~Settled(r)
    <3>1. /\ modified[r] >= lastSyncDate
          /\ \A q \in Syncs : Running(q) /\ modified[r] < job[q].start => Due(q, r)
      BY <2>1, <2>3 DEF Synced
    <3>2. r \in Nat /\ r > 0  BY Constants
    <3>3. Due(p, r)'  BY <1>1, <1>n, <1>u, <3>1, <3>2 DEF Due
    <3>4. \A q \in Syncs \ {p} : Running(q)' /\ modified[r] < job'[q].start => Due(q, r)'
      BY <1>1, <1>u, <3>1, Constants DEF Due, Running, Hand
    <3> QED BY <1>u, <3>1, <3>3, <3>4 DEF Synced
  <2> QED BY <2>2, <2>3
<1> QED BY <1>2, <1>3, <1>4, <1>5, <1>d, <1>m, <1>n, <1>t, <1>u, StepKeeps
LEMMA EndSyncKeeps ==
  ASSUME IInv, NEW p \in Syncs, EndSync(p)
  PROVE  IInv'
<1> DEFINE new == Ended(p)
<1>u. /\ UNCHANGED <<now, posting, available, modified, stock, booked, cancelled, base, queue,
                     shown, raced, crossed>>
      /\ job[p].step = "fetch" /\ job' = [job EXCEPT ![p] = new] /\ lastSyncDate' = job[p].start
      /\ skipped' = skipped \union Changed(p)
  BY DEF EndSync, provider, office, At, SyncDate
<1>t. p \in Processes /\ p \notin Workers  BY Constants
<1>p. Running(p) /\ ~posting  BY <1>u DEF Running, IInv, OneMode
<1>d. now \in Nat /\ lastSyncDate' \in 0..now /\ queue \in Seq(Details) /\ queue = <<>>
  <2>1. job[p].start \in Nat /\ job[p].start <= now  BY <1>t, JobTyped DEF IInv, JobOK
  <2> QED BY <1>p, <1>u, <2>1 DEF IInv, World, OneMode
<1>n. /\ new \in Job /\ new.step \in {"idle", "over"} /\ new.start = 0 /\ DOMAIN new.details = {}
      /\ DOMAIN new.read = {} /\ new.reindex = {}
  BY <1>t, EndedOK
<1> HIDE DEF new
<1>m. Moves(p, new)  BY <1>n, <1>u DEF Moves
<1>1. job'[p] = new /\ \A q \in Processes \ {p} : job'[q] = job[q]  BY <1>m, <1>t, Others
<1>2. JobOK(p)'  BY <1>1, <1>d, <1>n, <1>u DEF JobOK, Hand
<1>3. ReadOK(p)' /\ NotReadOK(p)'  BY <1>1, <1>n DEF ReadOK, NotReadOK
<1>h. Hand(p) = {} /\ job[p].reindex = {}  BY <1>t, <1>u DEF IInv, JobOK
<1>4. \A r \in Refs : ShownOK(r)'
  BY <1>h, <1>m, <1>t, <1>u, ShownKept
<1>5. \A r \in Refs : Pursued(r)'
  <2> SUFFICES ASSUME NEW r \in Refs, Spared(r)'  PROVE Synced(r)'
    BY <1>p, <1>u DEF Pursued
  <2>1. Spared(r) /\ Synced(r) /\ r \notin Changed(p)  BY <1>p, <1>u DEF Spared, IInv, Pursued
  <2>2. CASE Settled(r)
    <3>1. \A q \in Processes : UpToDate(q, r) => UpToDate(q, r)'
      BY <1>1, <1>n, <1>u DEF UpToDate, Hand
    <3> QED BY <1>u, <2>2, <3>1 DEF Settled, Follows, Synced
  <2>3. CASE ~Settled(r)
    <3>1. \A q \in Syncs : Running(q) /\ modified[r] < job[q].start => Due(q, r)
      BY <2>1, <2>3 DEF Synced
    <3>2. ~Due(p, r)  BY <1>h, <2>1 DEF Due, Changed
    <3>3. modified[r] \in Nat /\ job[p].start \in Nat  BY <1>t, JobTyped DEF IInv, World
    <3>4. modified[r] >= job[p].start  BY <1>p, <3>1, <3>2, <3>3
    <3>5. ~Running(p)'  BY <1>1, <1>n DEF Running
    <3>6. \A q \in Syncs \ {p} : Running(q)' /\ modified[r] < job'[q].start => Due(q, r)'
      BY <1>1, <1>u, <3>1, Constants DEF Due, Running, Hand
    <3> QED BY <1>u, <3>4, <3>5, <3>6 DEF Synced
  <2> QED BY <2>2, <2>3
<1> QED BY <1>2, <1>3, <1>4, <1>5, <1>d, <1>m, <1>n, <1>p, <1>t, <1>u, StepKeeps

LEMMA AbandonKeeps ==
  ASSUME IInv, NEW p \in Processes, Abandon(p), Running(p),
         crossed' = crossed \union job[p].reindex
  PROVE  IInv'
<1> DEFINE new == Ended(p)
<1>u. /\ UNCHANGED <<now, posting, available, modified, stock, booked, cancelled, base, lastSyncDate, queue,
                     shown, raced>>
      /\ job' = [job EXCEPT ![p] = new]
      /\ skipped \subseteq skipped' /\ (p \in Workers => Hand(p) \subseteq skipped')
  BY DEF Abandon, provider, office, Hand
<1>d. lastSyncDate \in 0..now /\ queue \in Seq(Details) /\ now \in Nat /\ (~posting => queue = <<>>)
  BY DEF IInv, World, OneMode
<1>n. /\ new \in Job /\ new.step \in {"idle", "over"} /\ (p \in Workers => new.step = "idle")
      /\ new.start = 0 /\ DOMAIN new.details = {} /\ DOMAIN new.read = {} /\ new.reindex = {}
  BY EndedOK
<1> HIDE DEF new
<1>m. Moves(p, new)  BY <1>n, <1>u DEF Moves
<1>1. job'[p] = new /\ \A q \in Processes \ {p} : job'[q] = job[q]  BY <1>m, Others
<1>2. JobOK(p)'  BY <1>1, <1>d, <1>n, <1>u DEF JobOK, Hand
<1>3. ReadOK(p)' /\ NotReadOK(p)'  BY <1>1, <1>n DEF ReadOK, NotReadOK
<1>4. \A r \in Refs : ShownOK(r)'
  BY <1>m, <1>u, ShownKept
<1>5. \A r \in Refs : Pursued(r)'
  <2>1. \A r \in Hand(p) : r \in DOMAIN new.details \union skipped' \/ (p \in Syncs /\ new.step \in {"idle", "over"})
    BY <1>n, <1>u, Constants
  <2> QED BY <1>m, <1>n, <1>u, <2>1, PursuitKept
<1> QED BY <1>2, <1>3, <1>4, <1>5, <1>d, <1>m, <1>n, <1>u, StepKeeps

LEMMA CommitFailsKeeps ==
  ASSUME IInv, NEW p \in Processes, CommitFails(p)
  PROVE  IInv'
<1>1. job[p].step = "write" /\ Abandon(p) /\ crossed' = crossed  BY DEF CommitFails, At
<1>2. job[p].reindex = {}  BY <1>1 DEF IInv, JobOK
<1> QED BY <1>1, <1>2, AbandonKeeps DEF Running

LEMMA FailsKeeps ==
  ASSUME IInv, NEW p \in Processes, Fails(p)
  PROVE  IInv'
BY AbandonKeeps DEF Fails, Running

LEMMA ReindexOffersKeeps ==
  ASSUME IInv, NEW p \in Processes, ReindexOffers(p)
  PROVE  IInv'
<1> DEFINE new == IF p \in Syncs THEN [job[p] EXCEPT !.step = "fetch", !.reindex = {}] ELSE Idle
<1>t. /\ job \in [Processes -> Job] /\ job[p] \in Job  BY JobTyped DEF IInv
<1>u. /\ UNCHANGED <<now, posting, available, modified, stock, booked, cancelled, base, lastSyncDate, queue,
                     skipped, raced, crossed>>
      /\ job[p].step = "index" /\ job' = [job EXCEPT ![p] = new]
      /\ shown' = Shown(job[p].reindex)
  BY <1>t DEF ReindexOffers, provider, office, history, At
<1>d. lastSyncDate \in 0..now /\ queue \in Seq(Details) /\ now \in Nat /\ (~posting => queue = <<>>)
  BY DEF IInv, World, OneMode
<1>j. /\ Hand(p) = {} /\ DOMAIN job[p].read = {} /\ job[p].start <= now
  BY <1>u DEF IInv, JobOK
<1>p. Running(p) /\ (p \in Syncs => ~posting) /\ (p \in Workers => posting)
  BY <1>u DEF IInv, Running, OneMode
<1>n. /\ new \in Job /\ DOMAIN new.details = {} /\ DOMAIN new.read = {} /\ new.reindex = {}
      /\ new.step \in {"idle", "fetch"} /\ (p \in Workers => new.step = "idle") /\ new.start <= now
      /\ new.step = "fetch" => /\ new.start = job[p].start /\ new.since = job[p].since
                               /\ new.after = job[p].after
  <2>1. CASE p \in Syncs
    <3> DEFINE new1 == [job[p] EXCEPT !.step = "fetch", !.reindex = {}]
    <3>1. /\ new1 \in Job /\ new1.details = job[p].details /\ new1.read = job[p].read /\ new1.reindex = {}
          /\ new1.step = "fetch" /\ new1.start = job[p].start /\ new1.since = job[p].since
          /\ new1.after = job[p].after
      BY <1>t DEF Job, Steps
    <3>2. new = new1  BY <2>1
    <3> HIDE DEF new, new1
    <3> QED BY <1>j, <2>1, <3>1, <3>2, Constants DEF Hand
  <2>2. CASE p \notin Syncs
    <3>1. new = Idle  BY <2>2
    <3> HIDE DEF new
    <3> QED BY <1>d, <3>1, IdleOK, Nothing
  <2> QED BY <2>1, <2>2
<1> HIDE DEF new
<1>m. Moves(p, new)  BY <1>n, <1>u DEF Moves
<1>1. job'[p] = new /\ \A q \in Processes \ {p} : job'[q] = job[q]  BY <1>m, Others
<1>2. JobOK(p)'  BY <1>1, <1>d, <1>n, <1>u DEF JobOK, Hand
<1>3. ReadOK(p)' /\ NotReadOK(p)'  BY <1>1, <1>n DEF ReadOK, NotReadOK
<1>4. ASSUME NEW r \in Refs  PROVE ShownOK(r)'
  <2> SUFFICES ASSUME HasStock(r), r \notin crossed, \A q \in Processes : r \notin job'[q].reindex
               PROVE  r \in shown' <=> SoldOut(r)
    BY <1>u DEF ShownOK, HasStock, SoldOut
  <2>1. CASE r \in job[p].reindex  BY <1>u, <2>1 DEF Shown, HasStock
  <2>2. CASE r \notin job[p].reindex
    <3>1. \A q \in Processes : r \notin job[q].reindex  BY <1>1, <2>2
    <3>2. r \in shown' <=> r \in shown  BY <1>u, <2>2 DEF Shown
    <3> QED BY <3>1, <3>2 DEF IInv, ShownOK
  <2> QED BY <2>1, <2>2
<1>5. \A r \in Refs : Pursued(r)'
  <2>1. new.step \notin {"idle", "over"} =>
           Running(p) /\ new.start = job[p].start /\ new.since = job[p].since /\ new.after = job[p].after
    BY <1>n, <1>p
  <2> QED BY <1>j, <1>m, <1>n, <1>u, <2>1, PursuitKept
<1> QED BY <1>2, <1>3, <1>4, <1>5, <1>d, <1>m, <1>n, <1>p, <1>u, StepKeeps
-----------------------------------------------------------------------------
(* Pages.                                                                   *)

\* What has changed and is valid is in the page, or after all of it.
LEMMA PageOK ==
  ASSUME IInv, NEW p \in Processes, Valid(Page(p)) # {}
  PROVE  /\ Valid(Page(p)) \subseteq Refs /\ Max(Valid(Page(p))) \in Nat
         /\ \A r \in Valid(Changed(p)) : r \in Valid(Page(p)) \/ r > Max(Valid(Page(p)))
<1> DEFINE page == Valid(Page(p))
           m == Max(page)
           Before(r) == {s \in Changed(p) : s <= r}
<1>1. /\ page \subseteq Changed(p) /\ Changed(p) \subseteq Refs
      /\ \A r \in page : Cardinality(Before(r)) <= Limit
      /\ \A r \in Valid(Changed(p)) : r \in page \/ ~(Cardinality(Before(r)) <= Limit)
  BY DEF Valid, Page, Changed
<1>2. /\ page \in SUBSET Nat /\ IsFiniteSet(page) /\ page # {} /\ IsFiniteSet(Changed(p))
  <2>2. page # {}  OBVIOUS
  <2> HIDE DEF page
  <2>1. IsFiniteSet(Changed(p))  BY <1>1, Constants, FS_Subset
  <2> QED BY <1>1, <2>1, <2>2, Constants, FS_Subset
<1>3. m \in page /\ m \in Nat
  <2> HIDE DEF page
  <2>1. m \in page  BY <1>2, HasMax
  <2> QED BY <1>2, <2>1
<1>4. ASSUME NEW r \in Valid(Changed(p)), r \notin page  PROVE r > m
  <2>1. r \in Nat /\ r \in Changed(p)  BY Constants DEF Valid, Changed
  <2>2. CASE r <= m
    <3>1. Before(r) \subseteq Before(m)
      <4>1. \A s \in Changed(p) : s \in Nat  BY <1>1, Constants
      <4> HIDE DEF m
      <4>2. \A s \in Changed(p) : s <= r => s <= m  BY <1>3, <2>1, <2>2, <4>1
      <4> QED BY <4>2
    <3>2. IsFiniteSet(Before(r)) /\ IsFiniteSet(Before(m))
      <4>1. Before(r) \subseteq Changed(p) /\ Before(m) \subseteq Changed(p)  OBVIOUS
      <4> HIDE DEF Before
      <4> QED BY <1>2, <4>1, FS_Subset
    <3>3. Cardinality(Before(m)) <= Limit /\ ~(Cardinality(Before(r)) <= Limit)
      BY <1>1, <1>3, <1>4
    <3> HIDE DEF Before, m
    <3>4. /\ Cardinality(Before(r)) \in Nat /\ Cardinality(Before(m)) \in Nat
          /\ Cardinality(Before(r)) <= Cardinality(Before(m))
      BY <3>1, <3>2, FS_Subset, FS_CardinalityType
    <3> QED BY <3>3, <3>4, ProvidersAssumption
  <2> HIDE DEF m
  <2> QED BY <1>3, <2>1, <2>2
<1> QED BY <1>1, <1>3, <1>4

LEMMA FetchPageKeeps ==
  ASSUME IInv, NEW p \in Syncs, FetchPage(p)
  PROVE  IInv'
<1> DEFINE page == Valid(Page(p))
           details == [r \in page |-> available[r]]
           new == [job[p] EXCEPT !.step = "read", !.details = details, !.after = Max(page)]
<1>t. /\ job \in [Processes -> Job] /\ p \in Processes /\ p \notin Workers /\ job[p] \in Job
      /\ available \in [Refs -> 0..MaxQuantity \union {Invalid}]
  BY Constants DEF IInv, World
<1>u. /\ UNCHANGED <<now, posting, available, modified, stock, booked, cancelled, base, lastSyncDate, queue,
                     shown, skipped, crossed>>
      /\ job[p].step = "fetch" /\ page # {} /\ raced' = raced \union (page \intersect InHand(p))
  BY DEF FetchPage, provider, office, history, At
<1>j. job' = [job EXCEPT ![p] = new]  BY <1>t DEF FetchPage, LastRef
<1>d. lastSyncDate \in 0..now /\ queue \in Seq(Details) /\ now \in Nat
  BY DEF IInv, World
<1>p. Running(p) /\ ~posting /\ queue = <<>>  BY <1>u DEF IInv, Running, OneMode
<1>h. Hand(p) = {} /\ DOMAIN job[p].read = {} /\ job[p].reindex = {} /\ job[p].start <= now
  BY <1>t, <1>u DEF IInv, JobOK
<1>g. /\ page \subseteq Refs /\ Max(page) \in Nat
      /\ \A r \in Valid(Changed(p)) : r \in page \/ r > Max(page)
  BY <1>t, <1>u, PageOK
<1>b. details \in Details /\ DOMAIN details = page /\ \A r \in page : details[r] = available[r]
  <2>1. \A r \in page : available[r] # Invalid  BY DEF Valid
  <2> HIDE DEF page
  <2>2. details \in [page -> 0..MaxQuantity]  BY <1>g, <1>t, <2>1
  <2> QED BY <1>g, <2>2 DEF Details
<1> HIDE DEF details, page
<1>n. /\ new \in Job /\ new.details = details /\ new.read = job[p].read /\ new.reindex = job[p].reindex
      /\ new.step = "read" /\ new.start = job[p].start /\ new.since = job[p].since /\ new.after = Max(page)
  BY <1>b, <1>g, <1>t, ZenonT(40) DEF Job, Steps
<1> HIDE DEF new
<1>m. Moves(p, new)  BY <1>n, <1>j DEF Moves
<1>1. job'[p] = new /\ \A q \in Processes \ {p} : job'[q] = job[q]  BY <1>m, <1>t, Others
<1>2. JobOK(p)'
  BY <1>1, <1>d, <1>h, <1>n, <1>u DEF JobOK, Hand
<1>3. ReadOK(p)' /\ NotReadOK(p)'  BY <1>1, <1>h, <1>n DEF ReadOK, NotReadOK
<1>4. \A r \in Refs : ShownOK(r)'
  BY <1>h, <1>m, <1>t, <1>u, ShownKept
<1>5. ASSUME NEW r \in Refs, Spared(r)'  PROVE Synced(r)'
  <2>1. Spared(r) /\ Synced(r)  BY <1>5, <1>p, <1>u DEF Spared, IInv, Pursued
  <2>2. CASE Settled(r)
    <3>1. \A q \in Processes : UpToDate(q, r) => UpToDate(q, r)'
      BY <1>1, <1>b, <1>n, <1>u DEF UpToDate, Hand
    <3> QED BY <1>u, <2>2, <3>1 DEF Settled, Follows, Synced
  <2>3. CASE ~Settled(r)
    <3>1. /\ modified[r] >= lastSyncDate
          /\ \A q \in Syncs : Running(q) /\ modified[r] < job[q].start => Due(q, r)
      BY <2>1, <2>3 DEF Synced
    <3>2. ASSUME modified[r] < job'[p].start  PROVE Due(p, r)'
      <4>1. Due(p, r)  BY <1>1, <1>n, <1>p, <3>1, <3>2
      <4>2. r \in Changed(p) /\ modified[r] >= job[p].since  BY <1>h, <4>1 DEF Due, Changed
      <4>3. r \in Valid(Changed(p))  BY <2>3, <4>2 DEF Valid, Settled
      <4>4. CASE r \in page  BY <1>1, <1>b, <1>n, <1>u, <4>4 DEF Due, Hand
      <4>5. CASE r \notin page  BY <1>1, <1>g, <1>n, <1>u, <4>2, <4>3, <4>5 DEF Due
      <4> QED BY <4>4, <4>5
    <3>3. \A q \in Syncs \ {p} : Running(q)' /\ modified[r] < job'[q].start => Due(q, r)'
      BY <1>1, <1>u, <3>1, Constants DEF Due, Running, Hand
    <3> QED BY <1>u, <3>1, <3>2, <3>3 DEF Synced
  <2> QED BY <2>2, <2>3
<1>6. \A r \in Refs : Pursued(r)'  BY <1>5, <1>p, <1>u DEF Pursued
<1>7. \A q \in Processes \ {p} : DOMAIN new.details \intersect Hand(q) \subseteq raced'
  BY <1>b, <1>n, <1>u DEF InHand, Hand
<1> QED BY <1>2, <1>3, <1>4, <1>6, <1>7, <1>d, <1>m, <1>n, <1>p, <1>t, <1>u, StepKeeps
LEMMA DequeueKeeps ==
  ASSUME IInv, NEW p \in Workers, Dequeue(p)
  PROVE  IInv'
<1> DEFINE details == Head(queue)
           new == [Idle EXCEPT !.step = "read", !.details = details]
<1>t. /\ p \in Processes /\ p \notin Syncs  BY Constants
<1>u. /\ UNCHANGED <<now, posting, available, modified, stock, booked, cancelled, base, lastSyncDate,
                     shown, skipped, crossed>>
      /\ job[p].step = "idle" /\ queue # <<>> /\ queue' = Tail(queue)
      /\ job' = [job EXCEPT ![p] = new]
      /\ raced' = raced \union (DOMAIN details \intersect InHand(p))
  BY DEF Dequeue, provider, office, At
<1>d. lastSyncDate \in 0..now /\ queue \in Seq(Details) /\ now \in Nat /\ posting
  BY <1>u DEF IInv, World, OneMode
<1> PICK n \in Nat : n = Len(queue)  BY <1>d
<1>l. /\ n \in Nat \ {0} /\ details \in Details /\ details = queue[1]
      /\ queue' \in Seq(Details) /\ Len(queue') = n - 1
      /\ \A k \in 1..(n - 1) : queue'[k] = queue[k + 1]
  BY <1>d, <1>u
<1>h. Hand(p) = {} /\ job[p].reindex = {}
  BY <1>t, <1>u DEF IInv, JobOK
<1> HIDE DEF details
<1>n. /\ new \in Job /\ new.details = details /\ DOMAIN new.read = {} /\ new.reindex = {}
      /\ new.step = "read" /\ new.start = 0
  BY <1>l, IdleOK, Nothing, ZenonT(40) DEF Job, Steps
<1> HIDE DEF new
<1>m. Moves(p, new)  BY <1>n, <1>u DEF Moves
<1>1. job'[p] = new /\ \A q \in Processes \ {p} : job'[q] = job[q]  BY <1>m, <1>t, Others
<1>2. JobOK(p)'
  BY <1>1, <1>d, <1>n, <1>u DEF JobOK, Hand
<1>3. ReadOK(p)' /\ NotReadOK(p)'  BY <1>1, <1>n DEF ReadOK, NotReadOK
<1>4. \A r \in Refs : ShownOK(r)'
  BY <1>h, <1>m, <1>t, <1>u, ShownKept
<1>5. ASSUME NEW r \in Refs, Spared(r)'  PROVE Posted(r)'
  <2>1. Spared(r) /\ Posted(r)  BY <1>5, <1>d, <1>u DEF Spared, IInv, Pursued
  <2>s. \A k \in 1..(n - 1) : k + 1 \in 1..n /\ k \in 1..n  OBVIOUS
  <2>2. \A k \in 1..(n - 1) : InQueue(r, k)' <=> InQueue(r, k + 1)
    BY <1>l, <2>s DEF InQueue
  <2>3. 1..Len(queue') = 1..(n - 1)  BY <1>l
  <2>4. ASSUME NEW k \in 1..(n - 1), InQueue(r, k)',
               \A m \in 1..(n - 1) : m > k => ~InQueue(r, m)'
        PROVE  queue'[k][r] = available'[r]
    <3>1. k + 1 \in 1..n /\ InQueue(r, k + 1)  BY <2>2, <2>4, <2>s
    <3>2. ASSUME NEW m \in 1..n, m > k + 1  PROVE ~InQueue(r, m)
      <4> DEFINE i == m - 1
      <4>1. i \in 1..(n - 1) /\ i > k /\ i + 1 = m  BY <3>2
      <4> HIDE DEF i
      <4> QED BY <2>2, <2>4, <4>1
    <3>3. queue[k + 1][r] = available[r]  BY <2>1, <3>1, <3>2 DEF Posted
    <3> QED BY <1>l, <1>u, <3>3
  <2>5. ASSUME \A k \in 1..(n - 1) : ~InQueue(r, k)'
        PROVE  /\ \A w \in Workers : UpToDate(w, r)'
               /\ Follows(r)' \/ \E w \in Workers : r \in Hand(w)'
    <3>0. Hand(p)' = DOMAIN details /\ \A w \in Workers \ {p} : Hand(w)' = Hand(w)
      BY <1>1, <1>n, Constants DEF Hand
    <3>a. \A m \in 1..n : m # 1 => ~InQueue(r, m)
      <4> SUFFICES ASSUME NEW m \in 1..n, m # 1  PROVE ~InQueue(r, m)
        OBVIOUS
      <4> DEFINE i == m - 1
      <4>1. i \in 1..(n - 1) /\ i + 1 = m  OBVIOUS
      <4> HIDE DEF i
      <4> QED BY <2>2, <2>5, <4>1
    <3>1. CASE r \in DOMAIN details
      <4>1. InQueue(r, 1)  BY <1>l, <3>1 DEF InQueue
      <4>2. 1 \in 1..n /\ \A m \in 1..n : m > 1 => ~InQueue(r, m)  BY <1>l, <3>a
      <4>3. details[r] = available[r]  BY <1>l, <2>1, <4>1, <4>2 DEF Posted
      <4>4. UpToDate(p, r)'  BY <1>1, <1>n, <1>u, <4>3 DEF UpToDate
      <4>5. \A w \in Workers \ {p} : r \notin Hand(w)
        BY <1>5, <1>u, <3>1, Constants DEF Spared, InHand, Hand
      <4>6. \A w \in Workers \ {p} : UpToDate(w, r)'  BY <3>0, <4>5 DEF UpToDate
      <4> QED BY <3>0, <3>1, <4>4, <4>6
    <3>2. CASE r \notin DOMAIN details
      <4>1. \A m \in 1..n : ~InQueue(r, m)  BY <1>l, <3>2, <3>a DEF InQueue
      <4>2. /\ \A w \in Workers : UpToDate(w, r)
            /\ Follows(r) \/ \E w \in Workers : r \in Hand(w)
        BY <2>1, <4>1 DEF Posted
      <4>3. UpToDate(p, r)'  BY <3>0, <3>2 DEF UpToDate
      <4>4. \A w \in Workers \ {p} : UpToDate(w, r)'
        BY <1>1, <1>u, <3>0, <4>2, Constants DEF UpToDate
      <4>5. Follows(r)' = Follows(r)  BY <1>u DEF Follows
      <4>6. \A w \in Workers : r \in Hand(w) => r \in Hand(w)'  BY <1>h, <3>0
      <4> QED BY <4>2, <4>3, <4>4, <4>5, <4>6
    <3> QED BY <3>1, <3>2
  <2>6. \/ \E k \in 1..Len(queue') : InQueue(r, k)'
        \/ /\ \A w \in Workers : UpToDate(w, r)'
           /\ Follows(r)' \/ \E w \in Workers : r \in Hand(w)'
    BY <2>3, <2>5
  <2>7. \A k \in 1..Len(queue') :
          InQueue(r, k)' /\ (\A m \in 1..Len(queue') : m > k => ~InQueue(r, m)') => queue'[k][r] = available'[r]
    BY <2>3, <2>4
  <2> QED BY <2>6, <2>7 DEF Posted
<1>6. \A r \in Refs : Pursued(r)'  BY <1>5, <1>d, <1>u DEF Pursued
<1>7. \A q \in Processes \ {p} : DOMAIN new.details \intersect Hand(q) \subseteq raced'
  BY <1>n, <1>u DEF InHand, Hand
<1>8. raced \subseteq raced' /\ crossed \subseteq crossed'  BY <1>u
<1> QED BY <1>2, <1>3, <1>4, <1>6, <1>7, <1>8, <1>d, <1>l, <1>m, <1>n, <1>t, <1>u, StepKeeps
-----------------------------------------------------------------------------
(* synchronize_stocks.                                                      *)

LEMMA ReadStocksKeeps ==
  ASSUME IInv, NEW p \in Processes, ReadStocks(p)
  PROVE  IInv'
<1> DEFINE known == Hand(p) \intersect products
           existing == {r \in known : HasStock(r)}
           details == [r \in known |-> job[p].details[r]]
           row(r) == [quantity |-> stock[r].quantity, booking_quantity |-> booked[r],
                      cancelled |-> cancelled[r]]
           read == [r \in existing |-> row(r)]
           new == [job[p] EXCEPT !.step = "write", !.details = details, !.read = read]
<1>t. /\ job \in [Processes -> Job] /\ job[p] \in Job /\ Hand(p) \subseteq Refs
      /\ job[p].details \in Details
  BY JobTyped DEF IInv
<1>u. /\ UNCHANGED <<now, posting, available, modified, stock, booked, cancelled, base, lastSyncDate, queue,
                     shown, raced, crossed>>
      /\ job[p].step = "read" /\ skipped' = skipped \union (Hand(p) \ known)
  BY DEF ReadStocks, provider, office, At, Hand
<1>j. job' = [job EXCEPT ![p] = new]
  BY <1>t DEF ReadStocks, BookingQuantity, Hand, HasStock
<1>d. lastSyncDate \in 0..now /\ queue \in Seq(Details) /\ now \in Nat /\ (~posting => queue = <<>>)
  BY DEF IInv, World, OneMode
<1>p. Running(p) /\ (p \in Syncs => ~posting) /\ (p \in Workers => posting)
  BY <1>u DEF IInv, Running, OneMode
<1>h. DOMAIN job[p].read = {} /\ job[p].reindex = {} /\ job[p].start <= now
  BY <1>u DEF IInv, JobOK
<1>k. /\ known \subseteq Hand(p) /\ known \subseteq Refs /\ existing \subseteq known
      /\ \A r \in existing : HasStock(r)
      /\ \A r \in known \ existing : ~HasStock(r)
  BY <1>t
<1>b. details \in Details /\ DOMAIN details = known /\ \A r \in known : details[r] = job[p].details[r]
  <2>1. \A r \in known : job[p].details[r] \in 0..MaxQuantity  BY <1>t, DetailsOK DEF Hand
  <2> HIDE DEF known
  <2>2. details \in [known -> 0..MaxQuantity]  BY <2>1
  <2> QED BY <1>k, <2>2 DEF Details
<1>c. /\ read \in Readings /\ DOMAIN read = existing
      /\ \A r \in existing : /\ read[r].quantity = stock[r].quantity /\ read[r].booking_quantity = booked[r]
                             /\ read[r].cancelled = cancelled[r]
  <2>1. \A r \in existing : row(r) \in Reading
    <3> TAKE r \in existing
    <3>1. r \in Refs /\ HasStock(r)  BY <1>k
    <3>2. stock[r].quantity \in Nat /\ booked[r] \in Nat /\ cancelled[r] \in Nat
      BY <3>1 DEF IInv, Office, HasStock
    <3> QED BY <3>2 DEF Reading
  <2>2. \A r \in existing : /\ row(r).quantity = stock[r].quantity /\ row(r).booking_quantity = booked[r]
                            /\ row(r).cancelled = cancelled[r]
    OBVIOUS
  <2> HIDE DEF existing, row
  <2>3. read \in [existing -> Reading]  BY <2>1
  <2>4. existing \in SUBSET Refs  BY <1>k
  <2> HIDE DEF read
  <2>5. read \in Readings  BY <2>3, <2>4 DEF Readings
  <2>6. DOMAIN read = existing /\ \A r \in existing : read[r] = row(r)  BY DEF read
  <2> QED BY <2>2, <2>5, <2>6
<1> HIDE DEF known, existing, details, read, row
<1>n. /\ new \in Job /\ new.details = details /\ new.read = read /\ new.reindex = job[p].reindex
      /\ new.step = "write" /\ new.start = job[p].start /\ new.since = job[p].since /\ new.after = job[p].after
  BY <1>b, <1>c, <1>t, ZenonT(40) DEF Job, Steps
<1> HIDE DEF new
<1>m. Moves(p, new)  BY <1>n, <1>j DEF Moves
<1>1. job'[p] = new /\ \A q \in Processes \ {p} : job'[q] = job[q]  BY <1>m, Others
<1>2. JobOK(p)'
  BY <1>1, <1>b, <1>c, <1>d, <1>h, <1>k, <1>n, <1>u DEF JobOK, Hand
<1>3. ReadOK(p)'
  <2> SUFFICES ASSUME NEW r \in existing
               PROVE  /\ HasStock(r)
                      /\ read[r].booking_quantity + read[r].cancelled <= booked[r] + cancelled[r]
                      /\ read[r].cancelled <= cancelled[r]
                      /\ read[r].quantity = stock[r].quantity /\ read[r].booking_quantity = booked[r]
    BY <1>1, <1>c, <1>n, <1>u DEF ReadOK, HasStock
  <2>1. booked[r] \in Nat /\ cancelled[r] \in Nat  BY <1>k DEF IInv, Office
  <2> QED BY <1>c, <1>k, <2>1
<1>4. NotReadOK(p)'
  <2>1. Hand(p)' = known /\ DOMAIN job'[p].read = existing  BY <1>1, <1>b, <1>c, <1>n DEF Hand
  <2>2. \A r \in known : r \notin existing => stock'[r] = NoStock
    BY <1>k, <1>u DEF HasStock
  <2> QED BY <2>1, <2>2 DEF NotReadOK
<1>5. \A r \in Refs : ShownOK(r)'
  <2>1. job[p].reindex \subseteq new.reindex \union crossed'  BY <1>n
  <2> QED BY <1>m, <1>u, <2>1, ShownKept
<1>6. \A r \in Refs : Pursued(r)'
  <2>1. /\ DOMAIN new.details \subseteq Hand(p)
        /\ \A r \in DOMAIN new.details : new.details[r] = job[p].details[r]
        /\ \A r \in Hand(p) : r \in DOMAIN new.details \union skipped' \/ (p \in Syncs /\ new.step \in {"idle", "over"})
    BY <1>b, <1>k, <1>n, <1>u
  <2>2. new.step \notin {"idle", "over"} =>
           Running(p) /\ new.start = job[p].start /\ new.since = job[p].since /\ new.after = job[p].after
    BY <1>n, <1>p
  <2>3. raced \subseteq raced' /\ skipped \subseteq skipped'  BY <1>u
  <2> QED BY <1>m, <1>u, <2>1, <2>2, <2>3, PursuitKept
<1>7. \A q \in Processes \ {p} : DOMAIN new.details \intersect Hand(q) \subseteq raced'
  <2>1. \A q \in Processes \ {p} : Hand(p) \intersect Hand(q) \subseteq raced  BY DEF IInv, OneHand
  <2> QED BY <1>b, <1>k, <1>n, <1>u, <2>1
<1>8. lastSyncDate' \in 0..now /\ queue' \in Seq(Details) /\ (~posting => queue' = <<>>)  BY <1>d, <1>u
<1>9. /\ p \in Syncs /\ posting => new.step \in {"idle", "over"}
      /\ p \in Workers => new.step \notin {"fetch", "over"} /\ (~posting => new.step = "idle")
  BY <1>n, <1>p
<1>10. raced \subseteq raced' /\ crossed \subseteq crossed'  BY <1>u
<1> QED BY <1>2, <1>3, <1>4, <1>5, <1>6, <1>7, <1>8, <1>9, <1>10, <1>m, <1>u, StepKeeps
\* What a process in synchronize_stocks is about to write.
LEMMA Writing ==
  ASSUME IInv, NEW p \in Processes, At(p, "write")
  PROVE  /\ Updated(p) \subseteq Upserted(p) /\ Upserted(p) \subseteq Hand(p) /\ Hand(p) \subseteq Refs
         /\ \A r \in Hand(p) : job[p].details[r] \in Nat
         /\ \A r \in Hand(p) : r \notin Upserted(p) => job[p].details[r] = 0 /\ r \notin Updated(p)
         /\ \A r \in Upserted(p) : /\ NewStock(p, r) \in [quantity : Nat, raw : Nat]
                                   /\ NewStock(p, r).raw = job[p].details[r]
                                   /\ NewStock(p, r).quantity =
                                        IF r \in Updated(p)
                                        THEN job[p].details[r] + job[p].read[r].booking_quantity
                                        ELSE job[p].details[r]
         /\ \A r \in Updated(p) : /\ job[p].read[r].quantity \in Nat /\ job[p].read[r].booking_quantity \in Nat
                                  /\ job[p].read[r].cancelled \in Nat
<1>1. /\ Hand(p) \subseteq Refs /\ job[p].details \in Details /\ job[p].read \in Readings
      /\ Updated(p) \subseteq Hand(p)
  BY JobTyped DEF IInv, JobOK, Updated
<1>2. \A r \in Hand(p) : job[p].details[r] \in Nat
  BY <1>1, DetailsOK, Constants DEF Hand
<1>3. \A r \in Updated(p) : /\ job[p].read[r].quantity \in Nat /\ job[p].read[r].booking_quantity \in Nat
                            /\ job[p].read[r].cancelled \in Nat
  BY <1>1, ReadingsOK DEF Updated
<1>4. Updated(p) \subseteq Upserted(p) /\ Upserted(p) \subseteq Hand(p)
  BY <1>1 DEF Upserted, Hand
<1>5. \A r \in Hand(p) : r \notin Upserted(p) => job[p].details[r] = 0 /\ r \notin Updated(p)
  BY <1>2 DEF Upserted, Hand
<1>6. ASSUME NEW r \in Upserted(p)
      PROVE  /\ NewStock(p, r) \in [quantity : Nat, raw : Nat]
             /\ NewStock(p, r).raw = job[p].details[r]
             /\ NewStock(p, r).quantity = IF r \in Updated(p)
                                          THEN job[p].details[r] + job[p].read[r].booking_quantity
                                          ELSE job[p].details[r]
  <2>1. job[p].details[r] \in Nat /\ (r \in Updated(p) => job[p].read[r].booking_quantity \in Nat)
    BY <1>2, <1>3, <1>4
  <2> QED BY <2>1 DEF NewStock
<1> QED BY <1>1, <1>2, <1>3, <1>4, <1>5, <1>6

\* The commit, of what it is made.
CommitMoves(p, new) ==
  /\ Moves(p, new)
  /\ new.step = "index" /\ DOMAIN new.details = {} /\ DOMAIN new.read = {}
  /\ new.reindex = {r \in Upserted(p) : ShouldReindex(p, r)}
  /\ new.start = job[p].start /\ new.since = job[p].since /\ new.after = job[p].after

LEMMA CommitRecord ==
  ASSUME IInv, NEW p \in Processes, CommitStocks(p)
  PROVE  \E new : CommitMoves(p, new)
<1> DEFINE reindex == {r \in Upserted(p) : ShouldReindex(p, r)}
           new == [job[p] EXCEPT !.step = "index", !.details = <<>>, !.read = <<>>, !.reindex = reindex]
<1>t. job \in [Processes -> Job] /\ job[p] \in Job  BY JobTyped DEF IInv
<1>1. job' = [job EXCEPT ![p] = new]  BY <1>t DEF CommitStocks
<1>2. reindex \subseteq Refs  BY Writing DEF CommitStocks
<1> HIDE DEF reindex
<1>n. /\ new \in Job /\ new.details = <<>> /\ new.read = <<>> /\ new.reindex = reindex
      /\ new.step = "index" /\ new.start = job[p].start /\ new.since = job[p].since /\ new.after = job[p].after
  BY <1>2, <1>t, Nothing, ZenonT(40) DEF Job, Steps
<1> HIDE DEF new
<1>3. Moves(p, new)  BY <1>1, <1>n DEF Moves
<1>4. DOMAIN new.details = {} /\ DOMAIN new.read = {}  BY <1>n, Nothing
<1>5. CommitMoves(p, new)  BY <1>3, <1>4, <1>n DEF CommitMoves, reindex
<1> QED BY <1>5

LEMMA CommitBooked ==
  ASSUME IInv, NEW p \in Processes, CommitStocks(p), NEW r \in Refs
  PROVE  BookedOK(r)'
<1>u. /\ booked' = booked /\ cancelled' = cancelled
      /\ stock'[r] = IF r \in Upserted(p) THEN NewStock(p, r) ELSE stock[r]
      /\ base'[r] = IF r \in Updated(p) THEN job[p].read[r].cancelled ELSE base[r]
      /\ At(p, "write")
  BY DEF CommitStocks
<1>w. Updated(p) \subseteq Upserted(p) /\ Upserted(p) \subseteq Hand(p)  BY <1>u, Writing
<1>1. BookedOK(r) /\ ReadOK(p)  BY DEF IInv
<1>2. CASE r \notin Upserted(p)
  <2>1. stock'[r] = stock[r] /\ base'[r] = base[r]  BY <1>2, <1>u, <1>w
  <2> QED BY <1>1, <1>u, <2>1 DEF BookedOK, HasStock
<1>3. CASE r \in Upserted(p)
  <2> DEFINE s == NewStock(p, r)
             raw == job[p].details[r]
             count == job[p].read[r].booking_quantity
             gone == job[p].read[r].cancelled
  <2>1. /\ stock'[r] = s /\ s.raw = raw /\ s \in [quantity : Nat, raw : Nat]
        /\ s.quantity = (IF r \in Updated(p) THEN raw + count ELSE raw) /\ booked[r] <= s.quantity
        /\ r \notin Updated(p) => stock[r] = NoStock
        /\ raw \in Nat /\ (r \in Updated(p) => count \in Nat /\ gone \in Nat)
    BY <1>3, <1>u, <1>w, Writing DEF CommitStocks, Accepted
  <2>2. booked[r] \in Nat /\ cancelled[r] \in Nat /\ base[r] \in Nat  BY DEF IInv, Office
  <2>3. HasStock(r)'  BY <2>1, Constants DEF HasStock
  <2>4. CASE r \in Updated(p)
    <3>1. count + gone <= booked[r] + cancelled[r] /\ gone <= cancelled[r] /\ base'[r] = gone
      BY <1>1, <1>u, <2>4 DEF ReadOK, Updated
    <3> HIDE DEF s, raw, count, gone
    <3>2. s.quantity + gone <= raw + booked[r] + cancelled[r]  BY <2>1, <2>2, <2>4, <3>1
    <3> QED BY <1>u, <2>1, <2>3, <3>1, <3>2 DEF BookedOK
  <2>5. CASE r \notin Updated(p)
    <3>1. booked[r] = 0 /\ base'[r] = base[r] /\ base[r] <= cancelled[r]
      BY <1>1, <1>u, <2>1, <2>5 DEF BookedOK, HasStock
    <3> HIDE DEF s, raw, count, gone
    <3>2. s.quantity + base[r] <= raw + booked[r] + cancelled[r]  BY <2>1, <2>2, <2>5, <3>1
    <3> QED BY <1>u, <2>1, <2>3, <3>1, <3>2 DEF BookedOK
  <2> QED BY <2>4, <2>5
<1> QED BY <1>2, <1>3
\* The index follows, unless something has crossed the synchronisation.
LEMMA CommitShown ==
  ASSUME IInv, NEW p \in Processes, CommitStocks(p), NEW r \in Refs
  PROVE  ShownOK(r)'
<1>u. /\ booked' = booked /\ shown' = shown /\ crossed \subseteq crossed'
      /\ stock'[r] = IF r \in Upserted(p) THEN NewStock(p, r) ELSE stock[r]
      /\ At(p, "write")
  BY DEF CommitStocks
<1>w. Updated(p) \subseteq Upserted(p) /\ Upserted(p) \subseteq Hand(p)  BY <1>u, Writing
<1> PICK new : CommitMoves(p, new)  BY CommitRecord
<1>1. job'[p] = new /\ \A q \in Processes \ {p} : job'[q] = job[q]  BY Others DEF CommitMoves
<1> SUFFICES ASSUME HasStock(r)', r \notin crossed', \A q \in Processes : r \notin job'[q].reindex
             PROVE  r \in shown' <=> SoldOut(r)'
  BY DEF ShownOK
<1>2. ShownOK(r) /\ ReadOK(p) /\ \A q \in Processes : r \notin job[q].reindex
  <2>1. job[p].reindex = {}  BY <1>u DEF IInv, JobOK, At
  <2> QED BY <1>1, <2>1 DEF IInv
<1>3. CASE r \notin Upserted(p)
  <2>1. stock'[r] = stock[r]  BY <1>3, <1>u
  <2> QED BY <1>2, <1>u, <2>1 DEF ShownOK, HasStock, SoldOut
<1>4. CASE r \in Upserted(p)
  <2> DEFINE s == NewStock(p, r)
             raw == job[p].details[r]
             count == job[p].read[r].booking_quantity
             quantity == job[p].read[r].quantity
  <2>1. r \in Updated(p) /\ ((quantity <= count) <=> (raw = 0))
    BY <1>1, <1>4 DEF CommitMoves, ShouldReindex
  <2>2. /\ stock'[r] = s /\ s.quantity = raw + count /\ raw \in Nat /\ count \in Nat
    BY <1>4, <1>u, <1>w, <2>1, Writing
  <2>3. quantity = stock[r].quantity /\ count = booked[r] /\ HasStock(r)
    BY <1>2, <1>u, <2>1 DEF ReadOK, Updated
  <2>4. r \in shown <=> SoldOut(r)  BY <1>2, <1>u, <2>3 DEF ShownOK
  <2> HIDE DEF s, raw, count, quantity
  <2>5. SoldOut(r) <=> quantity <= count  BY <2>3 DEF SoldOut
  <2>6. SoldOut(r)' <=> s.quantity <= booked[r]  BY <1>u, <2>2 DEF SoldOut
  <2>7. s.quantity <= booked[r] <=> raw = 0  BY <2>2, <2>3
  <2> QED BY <1>u, <2>1, <2>4, <2>5, <2>6, <2>7
<1> QED BY <1>3, <1>4

\* What the process has in hand is written, if it is what the provider has.
LEMMA CommitFollows ==
  ASSUME IInv, NEW p \in Processes, CommitStocks(p), NEW r \in Refs, r \notin raced,
         IF r \in Hand(p) THEN job[p].details[r] = available[r] ELSE Follows(r)
  PROVE  Follows(r)'
<1>u. /\ available' = available
      /\ stock'[r] = IF r \in Upserted(p) THEN NewStock(p, r) ELSE stock[r]
      /\ At(p, "write")
  BY DEF CommitStocks, provider
<1>w. Upserted(p) \subseteq Hand(p)  BY <1>u, Writing
<1>1. CASE r \notin Hand(p)
  <2>1. stock'[r] = stock[r]  BY <1>1, <1>u, <1>w
  <2> QED BY <1>1, <1>u, <2>1 DEF Follows
<1>2. CASE r \in Upserted(p)
  <2>1. stock'[r].raw = available[r] /\ stock'[r] # NoStock
    BY <1>2, <1>u, <1>w, Writing, Constants
  <2> QED BY <1>u, <2>1 DEF Follows
<1>3. CASE r \in Hand(p) /\ r \notin Upserted(p)
  <2>1. job[p].details[r] = 0 /\ r \notin Updated(p)  BY <1>3, <1>u, Writing
  <2>2. stock[r] = NoStock  BY <1>3, <1>u, <2>1 DEF IInv, NotReadOK, At, Updated
  <2>3. stock'[r] = NoStock /\ available'[r] = 0  BY <1>3, <1>u, <2>1, <2>2
  <2> QED BY <2>3 DEF Follows
<1> QED BY <1>1, <1>2, <1>3

LEMMA CommitPursued ==
  ASSUME IInv, NEW p \in Processes, CommitStocks(p), NEW r \in Refs
  PROVE  Pursued(r)'
<1>u. /\ UNCHANGED <<posting, available, modified, lastSyncDate, queue, skipped, raced>>
      /\ At(p, "write")
  BY DEF CommitStocks, provider
<1> PICK new : CommitMoves(p, new)  BY CommitRecord
<1>1. job'[p] = new /\ \A q \in Processes \ {p} : job'[q] = job[q]  BY Others DEF CommitMoves
<1>p. Running(p) /\ (p \in Syncs <=> ~posting)
  BY <1>u, Constants DEF IInv, Running, OneMode, At
<1>h. Hand(p)' = {} /\ \A q \in Processes \ {p} : Hand(q)' = Hand(q)
  BY <1>1 DEF Hand, CommitMoves
<1>2. \A q \in Processes : UpToDate(q, r) => UpToDate(q, r)'
  BY <1>1, <1>h, <1>u DEF UpToDate
<1> SUFFICES ASSUME Spared(r)
             PROVE  IF posting THEN Posted(r)' ELSE Synced(r)'
  BY <1>u DEF Pursued, Spared
<1>s. r \notin raced /\ Pursued(r)  BY DEF Spared, IInv
<1>3. CASE posting
  <2>1. Posted(r) /\ p \in Workers  BY <1>3, <1>p, <1>s, Constants DEF Pursued
  <2>2. \A k : InQueue(r, k)' = InQueue(r, k)  BY <1>u DEF InQueue
  <2>3. /\ \A w \in Workers : UpToDate(w, r)
        /\ Follows(r) \/ \E w \in Workers : r \in Hand(w)
        => /\ \A w \in Workers : UpToDate(w, r)'
           /\ Follows(r)' \/ \E w \in Workers : r \in Hand(w)'
    <3> SUFFICES ASSUME \A w \in Workers : UpToDate(w, r),
                        Follows(r) \/ \E w \in Workers : r \in Hand(w)
                 PROVE  /\ \A w \in Workers : UpToDate(w, r)'
                        /\ Follows(r)' \/ \E w \in Workers : r \in Hand(w)'
      OBVIOUS
    <3>1. \A w \in Workers : UpToDate(w, r)'  BY <1>2, Constants
    <3>2. CASE r \in Hand(p)
      <4>1. job[p].details[r] = available[r]  BY <2>1, <3>2 DEF UpToDate
      <4> QED BY <1>s, <3>1, <3>2, <4>1, CommitFollows
    <3>3. CASE r \notin Hand(p)
      <4>1. CASE Follows(r)  BY <1>s, <3>1, <3>3, <4>1, CommitFollows
      <4>2. CASE \E w \in Workers : r \in Hand(w)
        <5>1. \E w \in Workers : r \in Hand(w)'  BY <1>h, <3>3, <4>2, Constants
        <5> QED BY <3>1, <5>1
      <4> QED BY <4>1, <4>2
    <3> QED BY <3>2, <3>3
  <2>4. \A k \in 1..Len(queue') :
          InQueue(r, k)' /\ (\A m \in 1..Len(queue') : m > k => ~InQueue(r, m)') => queue'[k][r] = available'[r]
    BY <1>u, <2>1, <2>2 DEF Posted
  <2>5. \/ \E k \in 1..Len(queue') : InQueue(r, k)'
        \/ /\ \A w \in Workers : UpToDate(w, r)'
           /\ Follows(r)' \/ \E w \in Workers : r \in Hand(w)'
    BY <1>u, <2>1, <2>2, <2>3 DEF Posted
  <2>6. Posted(r)'  BY <2>4, <2>5 DEF Posted
  <2> QED BY <1>3, <2>6
<1>4. CASE ~posting
  <2>1. Synced(r) /\ p \in Syncs  BY <1>4, <1>p, <1>s DEF Pursued
  <2>2. CASE r \in Hand(p) /\ job[p].details[r] = available[r]
    <3>1. Follows(r)'  BY <1>s, <2>2, CommitFollows
    <3>2. \A q \in Processes \ {p} : r \notin Hand(q)  BY <1>s, <2>2 DEF IInv, OneHand
    <3>3. \A q \in Processes : UpToDate(q, r)'  BY <1>h, <3>2 DEF UpToDate
    <3> QED BY <1>4, <3>1, <3>3 DEF Settled, Synced
  <2>3. CASE ~(r \in Hand(p) /\ job[p].details[r] = available[r])
    <3>1. CASE Settled(r)
      <4>1. CASE available[r] = Invalid  BY <1>4, <1>u, <4>1 DEF Settled, Synced
      <4>2. CASE available[r] # Invalid
        <5>1. Follows(r) /\ \A q \in Processes : UpToDate(q, r)  BY <3>1, <4>2 DEF Settled
        <5>2. r \notin Hand(p)  BY <2>3, <5>1 DEF UpToDate
        <5>3. Follows(r)'  BY <1>s, <5>1, <5>2, CommitFollows
        <5> QED BY <1>2, <1>4, <5>1, <5>3 DEF Settled, Synced
      <4> QED BY <4>1, <4>2
    <3>2. CASE ~Settled(r)
      <4>1. /\ modified[r] >= lastSyncDate
            /\ \A q \in Syncs : Running(q) /\ modified[r] < job[q].start => Due(q, r)
        BY <2>1, <3>2 DEF Synced
      <4>2. modified[r] < job'[p].start => Due(p, r)'
        <5>1. /\ job'[p].start = job[p].start /\ job'[p].since = job[p].since
              /\ job'[p].after = job[p].after
          BY <1>1 DEF CommitMoves
        <5> QED BY <1>p, <1>u, <2>1, <2>3, <4>1, <5>1 DEF Due
      <4>3. \A q \in Syncs \ {p} : Running(q)' /\ modified[r] < job'[q].start => Due(q, r)'
        BY <1>1, <1>h, <1>u, <4>1, Constants DEF Due, Running
      <4> QED BY <1>4, <1>u, <4>1, <4>2, <4>3 DEF Synced
    <3> QED BY <3>1, <3>2
  <2> QED BY <2>2, <2>3
<1> QED BY <1>3, <1>4

LEMMA CommitStocksKeeps ==
  ASSUME IInv, NEW p \in Processes, CommitStocks(p)
  PROVE  IInv'
<1>u. /\ UNCHANGED <<now, posting, available, modified, booked, cancelled, lastSyncDate, queue,
                     shown, skipped, raced>>
      /\ stock' = [r \in Refs |-> IF r \in Upserted(p) THEN NewStock(p, r) ELSE stock[r]]
      /\ base' = [r \in Refs |-> IF r \in Updated(p) THEN job[p].read[r].cancelled ELSE base[r]]
      /\ crossed' = crossed \union (Upserted(p) \intersect UNION {Updated(q) : q \in Processes \ {p}})
      /\ At(p, "write")
  BY DEF CommitStocks, provider
<1> PICK new : CommitMoves(p, new)  BY CommitRecord
<1>1. /\ job' \in [Processes -> Job] /\ job'[p] = new
      /\ \A q \in Processes \ {p} : job'[q] = job[q]
  BY Others DEF CommitMoves
<1>n. new.step = "index" /\ DOMAIN new.details = {} /\ DOMAIN new.read = {} /\ new.start = job[p].start
  BY DEF CommitMoves
<1>2. World'  BY <1>u DEF IInv, World
<1>3. Office'
  <2>1. \A r \in Upserted(p) : NewStock(p, r) \in [quantity : Nat, raw : Nat]  BY <1>u, Writing
  <2>2. \A r \in Updated(p) : job[p].read[r].cancelled \in Nat  BY <1>u, Writing
  <2> QED BY <1>u, <2>1, <2>2 DEF IInv, Office
<1>4. OneMode'
  <2>1. Running(p) /\ (p \in Syncs => ~posting) /\ (p \in Workers => posting)
    BY <1>u DEF IInv, Running, OneMode, At
  <2>2. \A q \in Syncs : posting => ~Running(q)'
    BY <1>1, <2>1, Constants DEF IInv, OneMode, Running
  <2>3. \A w \in Workers : /\ ~posting => job'[w].step = "idle"
                           /\ job'[w].step \notin {"fetch", "over"}
    BY <1>1, <1>n, <2>1, Constants DEF IInv, OneMode
  <2> QED BY <1>u, <2>2, <2>3 DEF IInv, OneMode
<1>5. OneHand'
  BY <1>1, <1>n, <1>u DEF IInv, OneHand, Hand
<1>6. \A q \in Processes : JobOK(q)' /\ ReadOK(q)' /\ NotReadOK(q)'
  <2> TAKE q \in Processes
  <2>1. CASE q = p
    <3>1. JobOK(q)'  BY <1>1, <1>n, <1>u, <2>1 DEF IInv, JobOK, Hand
    <3>2. ReadOK(q)' /\ NotReadOK(q)'  BY <1>1, <1>n, <2>1 DEF ReadOK, NotReadOK
    <3> QED BY <3>1, <3>2
  <2>2. CASE q # p
    <3>0. job'[q] = job[q] /\ JobOK(q) /\ ReadOK(q) /\ NotReadOK(q)  BY <1>1, <2>2 DEF IInv
    <3>1. JobOK(q)'  BY <1>u, <3>0 DEF JobOK, Hand
    <3>2. ReadOK(q)'
      <4> SUFFICES ASSUME NEW r \in DOMAIN job[q].read
                   PROVE  /\ HasStock(r)'
                          /\ job[q].read[r].booking_quantity + job[q].read[r].cancelled <= booked[r] + cancelled[r]
                          /\ job[q].read[r].cancelled <= cancelled[r]
                          /\ r \notin crossed' => /\ job[q].read[r].quantity = stock'[r].quantity
                                                  /\ job[q].read[r].booking_quantity = booked[r]
        BY <1>u, <3>0 DEF ReadOK
      <4>1. r \in Refs  BY JobTyped, ReadingsOK
      <4>2. r \in Upserted(p) => r \in crossed'  BY <1>u, <2>2 DEF Updated
      <4>3. r \notin Upserted(p) => stock'[r] = stock[r]  BY <1>u, <4>1
      <4>4. HasStock(r)'
        <5>1. CASE r \in Upserted(p)
          <6>1. stock'[r] \in [quantity : Nat, raw : Nat]  BY <1>u, <4>1, <5>1, Writing
          <6> QED BY <6>1, Constants DEF HasStock
        <5>2. CASE r \notin Upserted(p)  BY <3>0, <4>3, <5>2 DEF ReadOK, HasStock
        <5> QED BY <5>1, <5>2
      <4>5. crossed \subseteq crossed'  BY <1>u
      <4> QED BY <3>0, <4>2, <4>3, <4>4, <4>5 DEF ReadOK
    <3>3. NotReadOK(q)'
      <4> SUFFICES ASSUME job[q].step = "write", NEW r \in Hand(q), r \notin DOMAIN job[q].read, r \notin raced
                   PROVE  stock'[r] = NoStock
        BY <1>u, <3>0 DEF NotReadOK, Hand
      <4>1. stock[r] = NoStock /\ r \in Refs  BY <3>0, JobTyped DEF NotReadOK
      <4>2. r \notin Hand(p)  BY <2>2 DEF IInv, OneHand
      <4>3. r \notin Upserted(p)  BY <1>u, <4>2, Writing
      <4> QED BY <1>u, <4>1, <4>3
    <3> QED BY <3>1, <3>2, <3>3
  <2> QED BY <2>1, <2>2
<1>7. \A r \in Refs : BookedOK(r)' /\ ShownOK(r)' /\ Pursued(r)'
  BY CommitBooked, CommitShown, CommitPursued
<1> QED BY <1>1, <1>2, <1>3, <1>4, <1>5, <1>6, <1>7 DEF IInv
-----------------------------------------------------------------------------
(* The specification.                                                       *)

LEMMA StutterKeeps ==
  ASSUME IInv, UNCHANGED vars
  PROVE  IInv'
<1>1. UNCHANGED <<now, posting, available, modified, stock, booked, cancelled, base, lastSyncDate, queue, job,
                  shown, skipped, raced, crossed>>
  BY DEF vars, provider, office, history
<1>2. World' /\ now <= now'  BY <1>1 DEF IInv, World
<1>3. OneMode'  BY <1>1 DEF IInv, OneMode, Running
<1>4. \A r \in Refs : Pursued(r)'  BY <1>1, PursuedSame DEF IInv
<1> QED BY <1>1, <1>2, <1>3, <1>4, WorldKeeps

LEMMA InitOK == Init => IInv
<1> SUFFICES ASSUME Init  PROVE IInv
  OBVIOUS
<1>u. /\ now = 1 /\ posting \in BOOLEAN /\ available \in [Refs -> 0..MaxQuantity]
      /\ posting => \A r \in Refs : available[r] = 0
      /\ modified = [r \in Refs |-> 1] /\ stock = [r \in Refs |-> NoStock]
      /\ booked = [r \in Refs |-> 0] /\ cancelled = booked /\ base = booked
      /\ lastSyncDate = 0 /\ queue = <<>> /\ skipped = {} /\ raced = {} /\ crossed = {}
      /\ job = [p \in Processes |->
                  IF p # Creation THEN Idle ELSE IF posting THEN Over ELSE Started]
  BY DEF Init
<1>1. World /\ Office
  BY <1>u DEF World, Office
<1>s. /\ Started \in Job /\ Started.step = "fetch" /\ Started.start = 1
      /\ DOMAIN Started.details = {} /\ DOMAIN Started.read = {} /\ Started.reindex = {}
  BY <1>u, StartedOK
<1>2. ASSUME NEW p \in Processes
      PROVE  \/ job[p] = Idle /\ p # Creation
             \/ job[p] = Over /\ p = Creation /\ posting
             \/ job[p] = Started /\ p = Creation /\ ~posting
  BY <1>u
<1>3. ASSUME NEW p \in Processes
      PROVE  /\ job[p] \in Job /\ Hand(p) = {} /\ DOMAIN job[p].read = {} /\ job[p].reindex = {}
             /\ job[p].start \in {0, 1}
             /\ job[p].step \in {"idle", "over", "fetch"}
             /\ job[p].step = "fetch" => p = Creation /\ ~posting /\ job[p].start = 1
             /\ job[p].step = "over" => p = Creation
  BY <1>2, <1>s, <1>3, IdleOK, Nothing DEF Hand
<1>4. job \in [Processes -> Job]
  <2>1. job = [p \in Processes |-> job[p]]  BY <1>u
  <2> QED BY <1>3, <2>1
<1>5. OneMode
  <2>1. \A p \in Syncs : posting => ~Running(p)  BY <1>3, Constants DEF Running
  <2>2. \A w \in Workers : job[w].step = "idle"  BY <1>3, Constants DEF Syncs
  <2>3. \A r \in Refs : available[r] # Invalid  BY <1>u, Constants
  <2> QED BY <1>u, <2>1, <2>2, <2>3 DEF OneMode
<1>6. OneHand  BY <1>3 DEF OneHand
<1>7. \A p \in Processes : JobOK(p) /\ ReadOK(p) /\ NotReadOK(p)
  <2> TAKE p \in Processes
  <2>1. JobOK(p)  BY <1>3, <1>u DEF JobOK
  <2>2. ReadOK(p) /\ NotReadOK(p)  BY <1>3 DEF ReadOK, NotReadOK
  <2> QED BY <2>1, <2>2
<1>8. ASSUME NEW r \in Refs  PROVE BookedOK(r) /\ ShownOK(r) /\ Pursued(r)
  <2>1. ~HasStock(r) /\ booked[r] = 0 /\ base[r] = 0 /\ cancelled[r] = 0 /\ modified[r] = 1
    BY <1>u DEF HasStock
  <2>2. BookedOK(r) /\ ShownOK(r)  BY <2>1 DEF BookedOK, ShownOK
  <2>3. CASE posting
    <3>1. Follows(r)  BY <1>u, <2>1, <2>3 DEF Follows, HasStock
    <3>2. \A w \in Workers : UpToDate(w, r)  BY <1>3, Constants DEF UpToDate
    <3>3. 1..Len(queue) = {}  BY <1>u
    <3>4. Posted(r)  BY <3>1, <3>2, <3>3 DEF Posted
    <3> QED BY <2>2, <2>3, <3>4 DEF Pursued
  <2>4. CASE ~posting
    <3>1. \A p \in Syncs : ~(modified[r] < job[p].start)  BY <1>3, <2>1, Constants
    <3>2. modified[r] >= lastSyncDate  BY <1>u, <2>1
    <3>3. Synced(r)  BY <3>1, <3>2 DEF Synced
    <3> QED BY <2>2, <2>4, <3>3 DEF Pursued
  <2> QED BY <2>3, <2>4
<1> QED BY <1>1, <1>4, <1>5, <1>6, <1>7, <1>8 DEF IInv

LEMMA NextOK ==
  ASSUME IInv, [Next]_vars
  PROVE  IInv'
<1>1. ASSUME NEW p \in Processes, SynchronizeStocks(p)  PROVE IInv'
  BY <1>1, ReadStocksKeeps, CommitStocksKeeps, CommitFailsKeeps, ReindexOffersKeeps DEF SynchronizeStocks
<1>2. ASSUME NEW p \in Syncs, SynchronizeVenueProvider(p)  PROVE IInv'
  BY <1>1, <1>2, Constants, FetchPageKeeps, EndSyncKeeps DEF SynchronizeVenueProvider
<1>3. ASSUME NEW w \in Workers, SynchronizeStocksJob(w)  PROVE IInv'
  BY <1>1, <1>3, Constants, DequeueKeeps DEF SynchronizeStocksJob
<1>4. ASSUME NEW r \in Refs,
             ProviderChanges(r) \/ UpdateStocks(r) \/ AddProduct(r) \/ Book(r) \/ Cancel(r)
      PROVE  IInv'
  BY <1>4, ProviderChangesKeeps, UpdateStocksKeeps, AddProductKeeps, BookKeeps, CancelKeeps
<1>5. ASSUME NEW p \in Processes, Fails(p)  PROVE IInv'
  BY <1>5, FailsKeeps
<1> QED BY <1>2, <1>3, <1>4, <1>5, TickKeeps, StartSyncKeeps, StutterKeeps DEF Next

-----------------------------------------------------------------------------
THEOREM Inductive == Spec => []IInv
BY InitOK, NextOK, PTL DEF Spec

\* A stock says what the provider has, or the next synchronisation asks for it:
\* the date that is kept is that of the start (synchronize_venue_provider), so
\* neither a change while pages are read nor a failure is missed.
THEOREM ChangesAreMet == Spec => []NoChangeIsMissed
<1>1. IInv => NoChangeIsMissed
  BY DEF IInv, NoChangeIsMissed, Pursued, Synced, Settled, Follows
<1> QED BY <1>1, Inductive, PTL

\* What a partner posted last is in the queue, with a worker, or in the stock
\* (synchronize_stocks_job).
THEOREM LastPostReached == Spec => []LastPostWins
<1>1. IInv => LastPostWins
  <2> SUFFICES ASSUME IInv, NEW r \in Refs, posting, Spared(r), ~Follows(r),
                      ~\E k \in 1..Len(queue) : r \in DOMAIN queue[k]
               PROVE  \E w \in Workers : r \in DOMAIN job[w].details
    BY DEF LastPostWins
  <2>1. Posted(r)  BY DEF IInv, Pursued
  <2> QED BY <2>1 DEF Posted, InQueue, Hand
<1> QED BY <1>1, Inductive, PTL

\* The quantity written is what the provider has and what was booked of it
\* (_build_stock_details_for_update), whatever is booked and cancelled meanwhile.
THEOREM NeverMoreThanAvailable == Spec => []OfferedIsAvailable
<1>1. IInv => OfferedIsAvailable
  <2> SUFFICES ASSUME IInv, NEW r \in Refs, HasStock(r)
               PROVE  stock[r].quantity <= stock[r].raw + booked[r] + (cancelled[r] - base[r])
    BY DEF OfferedIsAvailable, HasStock
  <2> DEFINE quantity == stock[r].quantity
             raw == stock[r].raw
  <2>1. stock[r] \in [quantity : Nat, raw : Nat]  BY DEF IInv, Office, HasStock
  <2>2. quantity \in Nat /\ raw \in Nat  BY <2>1
  <2>3. booked[r] \in Nat /\ cancelled[r] \in Nat /\ base[r] \in Nat  BY DEF IInv, Office
  <2>4. base[r] <= cancelled[r] /\ quantity + base[r] <= raw + booked[r] + cancelled[r]
    BY DEF IInv, BookedOK
  <2> HIDE DEF quantity, raw
  <2>5. quantity <= raw + booked[r] + (cancelled[r] - base[r])  BY <2>2, <2>3, <2>4
  <2> QED BY <2>5 DEF quantity, raw
<1> QED BY <1>1, Inductive, PTL

\* The index knows what is sold out (_should_reindex_offer, _reindex_offers),
\* unless something crossed the synchronisation.
THEOREM SoldOutIsShown == Spec => []SoldOutIsIndexed
<1>1. IInv => SoldOutIsIndexed
  BY DEF IInv, SoldOutIsIndexed, ShownOK, HasStock
<1> QED BY <1>1, Inductive, PTL
=============================================================================
