--------------------------- MODULE IndexingProofs ---------------------------
(* What TLAPS proves of Indexing, for any number of offers, venues, jobs    *)
(* and requests, and any sizes of the chunks.                               *)
EXTENDS Indexing, TLAPS, FiniteSetTheorems, SequenceTheorems

-----------------------------------------------------------------------------
(* The inductive invariant.                                                 *)

Docs == UNION {[S -> Addresses] : S \in SUBSET Offers}
Record == [step: Steps, ids: SUBSET Offers, docs: Docs, gone: SUBSET Offers,
           venues: Seq(Venues), taken: Nat]

Typed ==
  /\ bookable \in [Offers -> BOOLEAN] /\ address \in [Venues -> Addresses]
  /\ nights \in [Offers -> 0..Window] /\ indexed \subseteq Offers
  /\ offer_ids \in Seq(Offers) /\ in_error \in Seq(Offers) /\ venue_ids \in Seq(Venues)
  /\ index \in [Offers -> Addresses \union {Absent}]
  /\ job \in [Processes -> Record]

JobOK(j) ==
  /\ job[j].step # "push"
  /\ job[j].step \in {"idle", "pop", "venue"} => job[j].ids = {}
  /\ job[j].step = "idle" => job[j].taken = 0
  /\ job[j].step = "pop" => j \in OfferJobs
  /\ job[j].step = "venue" => j = VenueJob
  /\ j = ExpiryJob => job[j].step \in {"idle", "delete", "hdel", "done"}
  /\ DOMAIN job[j].docs \subseteq job[j].ids /\ job[j].gone \subseteq job[j].ids
  /\ DOMAIN job[j].docs \intersect job[j].gone = {}

RequestOK(r) == job[r].step = "idle" => job[r].ids = {} /\ job[r].venues = <<>>

\* What a job has read of a list that it will trim later is still at its head.
VenuesRead == LET j == job[VenueJob] IN
  /\ j.taken <= Len(venue_ids)
  /\ \A v \in ToSet(j.venues) : \E k \in 1..j.taken : venue_ids[k] = v
  /\ \A o \in j.ids : \E k \in 1..j.taken : venue_ids[k] = VenueOf[o]
ErrorsRead == LET j == job[ErrorJob] IN
  /\ j.taken <= Len(in_error)
  /\ \A o \in j.ids : \E k \in 1..j.taken : in_error[k] = o

\* What is left of a list after its first n elements.
After(q, n) == {q[k] : k \in (n + 1)..Len(q)}

\* Somebody is to take the offer, or take it again.
Queued(o) ==
  \/ o \in ToSet(offer_ids) \union After(in_error, job[ErrorJob].taken)
  \/ VenueOf[o] \in After(venue_ids, job[VenueJob].taken) \union ToSet(job[VenueJob].venues)
  \/ \E r \in Requests : o \in job[r].ids \/ VenueOf[o] \in ToSet(job[r].venues)
Awaited(o) == Queued(o) \/ o \in expired

Has(j, o) == o \in job[j].ids
Adds(j, o) == o \in DOMAIN job[j].docs
Deletes(j, o) == o \in job[j].gone

\* How far a job is with an offer that will not be taken again.
Progress(j, o) ==
  /\ job[j].step = "add" =>
       /\ Adds(j, o) => job[j].docs[o] = Document(o)
       /\ ~Adds(j, o) => Document(o) = Absent /\ (~Deletes(j, o) => index[o] = Absent)
  /\ job[j].step = "hset" =>
       /\ Adds(j, o) => index[o] = Document(o)
       /\ ~Adds(j, o) => Document(o) = Absent /\ (~Deletes(j, o) => index[o] = Absent)
  /\ job[j].step = "delete" =>
       /\ Deletes(j, o) => Document(o) = Absent
       /\ ~Deletes(j, o) => index[o] = Document(o)
  /\ job[j].step \in {"hdel", "done"} => index[o] = Document(o)

ByOne(o) == \A i, j \in Jobs : Has(i, o) /\ Has(j, o) => i = j
Known(o) == index[o] # Absent => o \in indexed \/ \E j \in Jobs : job[j].step = "hset" /\ Adds(j, o)
Gone(o) == \A j \in Jobs : job[j].step = "hdel" /\ Deletes(j, o) => index[o] = Absent
Followed(o) == ~Awaited(o) =>
  /\ (\A j \in Jobs : ~Has(j, o)) => index[o] = Document(o)
  /\ \A j \in Jobs : Has(j, o) => Progress(j, o)

Shape ==
  /\ Typed
  /\ \A j \in Jobs : JobOK(j)
  /\ \A r \in Requests : RequestOK(r)
  /\ VenuesRead /\ ErrorsRead
  /\ \A o \in expired : ~bookable[o]
Watched(o) == ByOne(o) /\ Known(o) /\ Gone(o) /\ Followed(o)

IInv == Shape /\ \A o \in Offers : Spared(o) => Watched(o)

-----------------------------------------------------------------------------
(* Sequences.                                                               *)

LEMMA SetToSeqRange ==
  ASSUME NEW T, NEW S \in SUBSET T, IsFiniteSet(S)
  PROVE  SetToSeq(S) \in Seq(T) /\ ToSet(SetToSeq(S)) = S
<1>1. Cardinality(S) \in Nat /\ ExistsBijection(1..Cardinality(S), S)
  BY FS_CardinalityType
<1>2. PICK f \in [1..Cardinality(S) -> S] : IsInjective(f)
  BY <1>1 DEF ExistsBijection, Bijection, Injection, Surjection
<1>3. SetToSeq(S) \in [1..Cardinality(S) -> S] /\ IsInjective(SetToSeq(S))
  BY <1>2 DEF SetToSeq
<1>4. SetToSeq(S) \in Injection(1..Cardinality(S), S)
  BY <1>3 DEF Injection
<1>5. IsFiniteSet(1..Cardinality(S)) /\ Cardinality(1..Cardinality(S)) = Cardinality(S)
  BY <1>1, FS_Interval
<1>6. SetToSeq(S) \in Surjection(1..Cardinality(S), S)
  BY <1>4, <1>5, FS_Injection
<1>7. SetToSeq(S) \in Seq(T)
  BY <1>1, <1>3, SeqDef
<1>8. DOMAIN SetToSeq(S) = 1..Cardinality(S)
  BY <1>3
<1> QED BY <1>6, <1>7, <1>8 DEF ToSet, Surjection

LEMMA AfterAppend ==
  ASSUME NEW T, NEW q \in Seq(T), NEW s \in Seq(T), NEW n \in 0..Len(q)
  PROVE  /\ q \o s \in Seq(T) /\ Len(q \o s) >= Len(q)
         /\ \A k \in 1..Len(q) : (q \o s)[k] = q[k]
         /\ ToSet(q \o s) = ToSet(q) \union ToSet(s)
         /\ After(q \o s, n) = After(q, n) \union ToSet(s)
<1>1. q \o s \in Seq(T) /\ Len(q \o s) = Len(q) + Len(s) /\ Len(q) \in Nat /\ Len(s) \in Nat
  OBVIOUS
<1>2. \A k \in 1..Len(q) : (q \o s)[k] = q[k]
  OBVIOUS
<1>3. \A k \in 1..Len(s) : (q \o s)[Len(q) + k] = s[k]
  OBVIOUS
<1>4. \A k \in (Len(q) + 1)..Len(q \o s) : k - Len(q) \in 1..Len(s) /\ (q \o s)[k] = s[k - Len(q)]
  OBVIOUS
<1>5. DOMAIN q = 1..Len(q) /\ DOMAIN s = 1..Len(s) /\ DOMAIN (q \o s) = 1..Len(q \o s)
  BY <1>1
<1>6. After(q \o s, n) = After(q, n) \union ToSet(s)
  <2>1. \A x \in After(q \o s, n) : x \in After(q, n) \union ToSet(s)
    BY <1>1, <1>2, <1>4, <1>5 DEF After, ToSet
  <2>2. \A x \in After(q, n) : x \in After(q \o s, n)
    BY <1>1, <1>2 DEF After
  <2>3. \A x \in ToSet(s) : x \in After(q \o s, n)
    <3> TAKE x \in ToSet(s)
    <3>1. PICK k \in 1..Len(s) : x = s[k]  BY <1>5 DEF ToSet
    <3>2. Len(q) + k \in (n + 1)..Len(q \o s)  BY <1>1
    <3> QED BY <1>3, <3>1, <3>2 DEF After
  <2> QED BY <2>1, <2>2, <2>3
<1>7. ToSet(q \o s) = ToSet(q) \union ToSet(s)
  <2>1. \A x \in ToSet(q \o s) : x \in ToSet(q) \union ToSet(s)
    BY <1>1, <1>2, <1>4, <1>5 DEF ToSet
  <2>2. \A x \in ToSet(q) : x \in ToSet(q \o s)
    BY <1>1, <1>2, <1>5 DEF ToSet
  <2>3. \A x \in ToSet(s) : x \in ToSet(q \o s)
    <3> TAKE x \in ToSet(s)
    <3>1. PICK k \in 1..Len(s) : x = s[k]  BY <1>5 DEF ToSet
    <3>2. Len(q) + k \in 1..Len(q \o s)  BY <1>1
    <3> QED BY <1>3, <1>5, <3>1, <3>2 DEF ToSet
  <2> QED BY <2>1, <2>2, <2>3
<1> QED BY <1>1, <1>2, <1>6, <1>7

LEMMA AfterNothing ==
  ASSUME NEW T, NEW q \in Seq(T)
  PROVE  After(q, 0) = ToSet(q) /\ ToSet(q) \subseteq T
<1>1. DOMAIN q = 1..Len(q) /\ Len(q) \in Nat /\ \A k \in 1..Len(q) : q[k] \in T
  OBVIOUS
<1> QED BY <1>1 DEF After, ToSet

\* What ltrim keeps, and what was after the n-th place: it is kept, or nobody has read it.
LEMMA AfterTrim ==
  ASSUME NEW T, NEW q \in Seq(T), NEW m \in Nat, NEW n \in Nat
  PROVE  /\ Ltrim(q, m) \in Seq(T) /\ ToSet(Ltrim(q, m)) \subseteq ToSet(q)
         /\ After(q, n) \subseteq Unread(q, m, n) \union ToSet(Ltrim(q, m))
<1>1. DOMAIN q = 1..Len(q) /\ Len(q) \in Nat /\ \A k \in 1..Len(q) : q[k] \in T
  OBVIOUS
<1>2. Ltrim(q, m) = [k \in 1..(IF m < Len(q) THEN Len(q) - m ELSE 0) |-> q[k + m]]
  BY <1>1 DEF Ltrim
<1>3. Ltrim(q, m) \in Seq(T)
  BY <1>1, <1>2, SeqDef
<1>4. \A k \in 1..Len(q) : k > m => q[k] \in ToSet(Ltrim(q, m))
  <2> TAKE k \in 1..Len(q)
  <2> HAVE k > m
  <2>1. k - m \in 1..(IF m < Len(q) THEN Len(q) - m ELSE 0)  BY <1>1
  <2>2. Ltrim(q, m)[k - m] = q[(k - m) + m] /\ (k - m) + m = k  BY <1>1, <1>2, <2>1
  <2> QED BY <1>2, <2>1, <2>2 DEF ToSet
<1>5. ToSet(Ltrim(q, m)) \subseteq ToSet(q)
  BY <1>1, <1>2 DEF ToSet
<1>6. \A k \in 1..Len(q) : k > n /\ ~(k > m) => q[k] \in Unread(q, m, n)
  BY <1>1 DEF Unread
<1> QED BY <1>1, <1>3, <1>4, <1>5, <1>6 DEF After

LEMMA ReadPart ==
  ASSUME NEW T, NEW q \in Seq(T), NEW n \in Nat
  PROVE  /\ LrangeTo(q, n) \in Seq(T) /\ Len(LrangeTo(q, n)) \in 0..Len(q)
         /\ Len(LrangeTo(q, n)) = IF Len(q) < n + 1 THEN Len(q) ELSE n + 1
         /\ \A k \in 1..Len(LrangeTo(q, n)) : LrangeTo(q, n)[k] = q[k]
         /\ ToSet(LrangeTo(q, n)) = {q[k] : k \in 1..Len(LrangeTo(q, n))}
         /\ ToSet(q) = ToSet(LrangeTo(q, n)) \union After(q, Len(LrangeTo(q, n)))
<1> DEFINE m == IF Len(q) < n + 1 THEN Len(q) ELSE n + 1
<1>1. DOMAIN q = 1..Len(q) /\ Len(q) \in Nat /\ \A k \in 1..Len(q) : q[k] \in T
  OBVIOUS
<1>2. m \in 0..Len(q)
  BY <1>1
<1>3. LrangeTo(q, n) = SubSeq(q, 1, m)
  BY DEF LrangeTo, First
<1> HIDE DEF m
<1>4. LrangeTo(q, n) = [k \in 1..m |-> q[k]]
  BY <1>1, <1>2, <1>3
<1>5. LrangeTo(q, n) \in Seq(T)
  BY <1>1, <1>2, <1>4, SeqDef
<1>6. Len(LrangeTo(q, n)) = m
  BY <1>2, <1>4, <1>5
<1>7. ToSet(LrangeTo(q, n)) = {q[k] : k \in 1..m}
  BY <1>4 DEF ToSet
<1>8. ToSet(q) = ToSet(LrangeTo(q, n)) \union After(q, m)
  <2>1. 1..Len(q) = (1..m) \union ((m + 1)..Len(q))
    BY <1>1, <1>2
  <2>2. ToSet(q) = {q[k] : k \in 1..Len(q)}
    BY <1>1 DEF ToSet
  <2> QED BY <1>7, <2>1, <2>2 DEF After
<1> QED BY <1>2, <1>4, <1>5, <1>6, <1>7, <1>8 DEF m
-----------------------------------------------------------------------------
(* What every action does to the invariant.                                 *)

LEMMA Disjoint ==
  /\ \A r \in Requests : r \notin Jobs
  /\ Jobs \subseteq Processes /\ Requests \subseteq Processes
  /\ VenueJob \in Jobs /\ ErrorJob \in Jobs /\ ExpiryJob \in Jobs /\ OfferJobs \subseteq Jobs
  /\ \A j \in OfferJobs : j # VenueJob /\ j # ErrorJob /\ j # ExpiryJob
  /\ VenueJob # ErrorJob /\ VenueJob # ExpiryJob /\ ErrorJob # ExpiryJob
BY IndexingAssumption DEF Jobs, Processes

LEMMA ExpiredKept ==
  /\ nights' = nights => expired' = expired
  /\ expired \subseteq Offers /\ expired' \subseteq Offers
BY DEF expired

LEMMA IdleRecord == Idle \in Record /\ DOMAIN Idle.docs = {}
<1>1. <<>> \in [{} -> Addresses] /\ DOMAIN <<>> = {}
  OBVIOUS
<1>2. <<>> \in Docs
  BY <1>1 DEF Docs
<1> QED BY <1>1, <1>2 DEF Idle, Record, Steps

\* A job goes on with the offers it has in hand, and may put some in error.
GoesOn(j, new) ==
  /\ new \in Record /\ job' = [job EXCEPT ![j] = new]
  /\ new.ids = job[j].ids /\ new.venues = job[j].venues /\ new.taken = job[j].taken
  /\ {job[j].step, new.step} \subseteq {"read", "add", "hset", "delete", "hdel", "done"}
  /\ j = ExpiryJob => new.step \in {"delete", "hdel", "done"}
  /\ DOMAIN new.docs \subseteq new.ids /\ new.gone \subseteq new.ids
  /\ DOMAIN new.docs \intersect new.gone = {}
  /\ UNCHANGED <<database, offer_ids, venue_ids>>
  /\ \E s \in Seq(Offers) : in_error' = in_error \/ in_error' = in_error \o s
  /\ indexed' \subseteq Offers /\ index' \in [Offers -> Addresses \union {Absent}]

LEMMA GoesOnShape ==
  ASSUME Shape, NEW j \in Jobs, NEW new, GoesOn(j, new)
  PROVE  Shape'
<1> USE Disjoint, ExpiredKept
<1>t. Typed /\ j \in Processes  BY DEF Shape
<1>1. /\ job'[j] = new /\ \A p \in Processes \ {j} : job'[p] = job[p]
      /\ job' \in [Processes -> Record]
  BY <1>t DEF GoesOn, Typed
<1>2. in_error' \in Seq(Offers) /\ Len(in_error') >= Len(in_error) /\ Len(in_error) \in Nat
      /\ Len(in_error') \in Nat /\ \A k \in 1..Len(in_error) : in_error'[k] = in_error[k]
  <2>1. in_error \in Seq(Offers)  BY <1>t DEF Typed
  <2>2. CASE in_error' = in_error  BY <2>1, <2>2
  <2>3. CASE \E s \in Seq(Offers) : in_error' = in_error \o s
    <3> PICK s \in Seq(Offers) : in_error' = in_error \o s  BY <2>3
    <3>1. 0 \in 0..Len(in_error)  BY <2>1
    <3>2. /\ in_error \o s \in Seq(Offers) /\ Len(in_error \o s) >= Len(in_error)
          /\ \A k \in 1..Len(in_error) : (in_error \o s)[k] = in_error[k]
      BY <2>1, <3>1, AfterAppend
    <3> QED BY <2>1, <3>2
  <2> QED BY <2>2, <2>3 DEF GoesOn
<1>3. Typed'
  BY <1>t, <1>1, <1>2 DEF GoesOn, Typed, database
<1>4. \A i \in Jobs : JobOK(i)'
  <2> TAKE i \in Jobs
  <2>1. CASE i = j  BY <1>1, <2>1 DEF JobOK, GoesOn
  <2>2. CASE i # j  BY <1>1, <2>2 DEF JobOK, Shape
  <2> QED BY <2>1, <2>2
<1>5. \A r \in Requests : RequestOK(r)'
  BY <1>1 DEF RequestOK, Shape
<1>6. \A p \in Processes : /\ job'[p].ids = job[p].ids /\ job'[p].venues = job[p].venues
                           /\ job'[p].taken = job[p].taken
  BY <1>1 DEF GoesOn
<1>7. VenuesRead'
  BY <1>6, SMTT(30) DEF VenuesRead, GoesOn, Shape
<1>8. ErrorsRead'
  <2>1. job[ErrorJob].taken \in Nat  BY <1>t DEF Typed, Record
  <2> QED BY <1>2, <1>6, <2>1 DEF ErrorsRead, Shape
<1>9. \A o \in expired' : ~bookable'[o]
  BY DEF GoesOn, Shape, database
<1> QED BY <1>3, <1>4, <1>5, <1>7, <1>8, <1>9 DEF Shape

LEMMA GoesOnOffers ==
  ASSUME IInv, NEW j \in Jobs, NEW new, GoesOn(j, new),
         NEW o \in Offers, Spared(o), Awaited(o) => Awaited(o)',
         o \notin new.ids => index'[o] = index[o] /\ (o \in indexed <=> o \in indexed'),
         o \in new.ids =>
           /\ index'[o] # Absent => o \in indexed' \/ (new.step = "hset" /\ Adds(j, o)')
           /\ new.step = "hdel" /\ Deletes(j, o)' => index'[o] = Absent
           /\ ~Awaited(o)' => Progress(j, o)'
  PROVE  Watched(o)'
<1> USE Disjoint, ExpiredKept
<1>w. Watched(o)  BY DEF IInv
<1>t. Typed /\ j \in Processes  BY DEF IInv, Shape
<1>1. /\ job'[j] = new /\ \A p \in Jobs \ {j} : job'[p] = job[p]
      /\ new.ids = job[j].ids
  BY <1>t DEF GoesOn, Typed
<1>2. \A i \in Jobs : Has(i, o)' <=> Has(i, o)
  BY <1>1 DEF Has
<1>3. ByOne(o)'
  BY <1>2, <1>w DEF ByOne, Watched
<1>4. Document(o)' = Document(o) /\ expired' = expired
  BY DEF Document, GoesOn, database
<1>o. \A i \in Jobs : JobOK(i) /\ JobOK(i)'
  BY GoesOnShape DEF IInv, Shape
<1>a. \A i \in Jobs : (Adds(i, o) => Has(i, o)) /\ (Deletes(i, o) => Has(i, o))
                      /\ (Adds(i, o)' => Has(i, o)) /\ (Deletes(i, o)' => Has(i, o))
  BY <1>o, <1>2 DEF JobOK, Adds, Deletes, Has
<1>5. CASE o \in new.ids
  <2>1. Has(j, o) /\ \A i \in Jobs \ {j} : ~Has(i, o)
    BY <1>1, <1>w, <1>5 DEF Has, ByOne, Watched
  <2>2. Known(o)'
    BY <1>1, <1>5 DEF Known
  <2>3. Gone(o)'
    BY <1>1, <1>5, <1>a, <2>1 DEF Gone
  <2>4. Followed(o)'
    BY <1>2, <1>5, <2>1 DEF Followed
  <2> QED BY <1>3, <2>2, <2>3, <2>4 DEF Watched
<1>6. CASE o \notin new.ids
  <2>1. ~Has(j, o)  BY <1>1, <1>6 DEF Has
  <2>2. \A i \in Jobs \ {j} : /\ Adds(i, o)' = Adds(i, o) /\ Deletes(i, o)' = Deletes(i, o)
                              /\ job'[i] = job[i]
    BY <1>1 DEF Adds, Deletes
  <2>3. Known(o)'
    BY <1>6, <1>a, <1>w, <2>1, <2>2 DEF Known, Watched
  <2>4. Gone(o)'
    BY <1>6, <1>a, <1>w, <2>1, <2>2 DEF Gone, Watched
  <2>5. \A i \in Jobs \ {j} : Progress(i, o) => Progress(i, o)'
    BY <1>4, <1>6, <2>2 DEF Progress
  <2>6. Followed(o)'
    BY <1>2, <1>4, <1>6, <1>w, <2>1, <2>5 DEF Followed, Watched
  <2> QED BY <1>3, <2>3, <2>4, <2>6 DEF Watched
<1> QED BY <1>5, <1>6
\* A job takes offers in hand, or is done with those it had.
Takes(j, new) ==
  /\ new \in Record /\ job' = [job EXCEPT ![j] = new]
  /\ new.step \notin {"hset", "hdel"}
  /\ UNCHANGED <<bookable, address, indexed, index>>
  /\ nights' \in [Offers -> 0..Window] /\ expired' \subseteq expired

LEMMA TakesShape ==
  ASSUME Shape, NEW j \in Jobs, NEW new, Takes(j, new), JobOK(j)',
         offer_ids' \in Seq(Offers), venue_ids' \in Seq(Venues), in_error' \in Seq(Offers),
         VenuesRead', ErrorsRead'
  PROVE  Shape'
<1> USE Disjoint, ExpiredKept
<1>t. Typed /\ j \in Processes  BY DEF Shape
<1>1. /\ job'[j] = new /\ \A p \in Processes \ {j} : job'[p] = job[p]
      /\ job' \in [Processes -> Record]
  BY <1>t DEF Takes, Typed
<1>2. Typed'
  BY <1>t, <1>1 DEF Takes, Typed
<1>3. \A i \in Jobs : JobOK(i)'
  BY <1>1 DEF JobOK, Shape
<1>4. \A r \in Requests : RequestOK(r)'
  BY <1>1 DEF RequestOK, Shape
<1>5. \A o \in expired' : ~bookable'[o]
  BY DEF Takes, Shape
<1> QED BY <1>2, <1>3, <1>4, <1>5 DEF Shape

LEMMA TakesOffers ==
  ASSUME IInv, NEW j \in Jobs, NEW new, Takes(j, new), NEW o \in Offers, Spared(o),
         o \in new.ids => o \notin InHand(j),
         job[j].step = "hset" => ~Adds(j, o),
         o \notin new.ids /\ Has(j, o) =>
           job[j].step = "done" \/ Awaited(o)' \/ index[o] = Document(o),
         Awaited(o) => Awaited(o)' \/ o \in new.ids,
         o \in new.ids /\ ~Awaited(o)' => Progress(j, o)'
  PROVE  Watched(o)'
<1> USE Disjoint, ExpiredKept
<1>w. Watched(o)  BY DEF IInv
<1>t. Typed /\ j \in Processes  BY DEF IInv, Shape
<1>1. job'[j] = new /\ \A p \in Jobs \ {j} : job'[p] = job[p]
  BY <1>t DEF Takes, Typed
<1>2. \A i \in Jobs \ {j} : /\ Has(i, o)' = Has(i, o) /\ Adds(i, o)' = Adds(i, o)
                            /\ Deletes(i, o)' = Deletes(i, o)
  BY <1>1 DEF Has, Adds, Deletes
<1>3. Has(j, o)' <=> o \in new.ids
  BY <1>1 DEF Has
<1>4. Document(o)' = Document(o) /\ index' = index /\ indexed' = indexed
  BY DEF Document, Takes
<1>5. o \in new.ids => \A i \in Jobs \ {j} : ~Has(i, o)
  BY DEF InHand, Has
<1>6. ByOne(o)'
  BY <1>2, <1>3, <1>5, <1>w DEF ByOne, Watched
<1>7. Known(o)'
  BY <1>1, <1>2, <1>4, <1>w DEF Known, Watched
<1>8. Gone(o)'
  BY <1>1, <1>2, <1>4, <1>w DEF Gone, Watched, Takes
<1>9. Followed(o)'
  <2> SUFFICES ASSUME ~Awaited(o)'
               PROVE  /\ (\A i \in Jobs : ~Has(i, o)') => index'[o] = Document(o)'
                      /\ \A i \in Jobs : Has(i, o)' => Progress(i, o)'
    BY DEF Followed
  <2>1. CASE o \in new.ids
    BY <1>2, <1>3, <1>5, <2>1
  <2>2. CASE o \notin new.ids
    <3>1. ~Awaited(o)  BY <2>2
    <3>2. \A i \in Jobs : Has(i, o) => Progress(i, o)
      BY <1>w, <3>1 DEF Watched, Followed
    <3>3. \A i \in Jobs \ {j} : Progress(i, o) => Progress(i, o)'
      BY <1>1, <1>2, <1>4 DEF Progress
    <3>4. CASE Has(j, o)
      <4>1. index[o] = Document(o)
        BY <2>2, <3>2, <3>4 DEF Progress
      <4> QED BY <1>2, <1>3, <1>4, <2>2, <3>2, <3>3, <4>1
    <3>5. CASE ~Has(j, o)
      <4>1. (\A i \in Jobs : ~Has(i, o)) => index[o] = Document(o)
        BY <1>w, <3>1 DEF Watched, Followed
      <4> QED BY <1>2, <1>3, <1>4, <2>2, <3>2, <3>3, <3>5, <4>1
    <3> QED BY <3>4, <3>5
  <2> QED BY <2>1, <2>2
<1> QED BY <1>6, <1>7, <1>8, <1>9 DEF Watched

\* What concerns no job: what changes is awaited.
LEMMA QuietOffers ==
  ASSUME IInv, \A j \in Jobs : job'[j] = job[j], UNCHANGED <<indexed, index>>,
         NEW o \in Offers, Spared(o),
         Awaited(o)' \/ (~Awaited(o) /\ Document(o)' = Document(o))
  PROVE  Watched(o)'
<1>w. Watched(o)  BY DEF IInv
<1>1. \A i \in Jobs : /\ Has(i, o)' = Has(i, o) /\ Adds(i, o)' = Adds(i, o)
                      /\ Deletes(i, o)' = Deletes(i, o)
  BY DEF Has, Adds, Deletes
<1>2. ByOne(o)'  BY <1>1, <1>w DEF ByOne, Watched
<1>3. Known(o)'  BY <1>1, <1>w DEF Known, Watched
<1>4. Gone(o)'  BY <1>1, <1>w DEF Gone, Watched
<1>5. Followed(o)'
  <2>1. CASE Awaited(o)'  BY <2>1 DEF Followed
  <2>2. CASE ~Awaited(o)'
    <3>1. \A i \in Jobs : Progress(i, o) => Progress(i, o)'
      BY <1>1, <2>2 DEF Progress
    <3> QED BY <1>1, <1>w, <2>2, <3>1 DEF Followed, Watched
  <2> QED BY <2>1, <2>2
<1> QED BY <1>2, <1>3, <1>4, <1>5 DEF Watched
\* Requests and time: they only add to the lists.
LEMMA RequestShape ==
  ASSUME Shape, job' \in [Processes -> Record], \A j \in Jobs : job'[j] = job[j],
         \A r \in Requests : RequestOK(r)',
         bookable' \in [Offers -> BOOLEAN], address' \in [Venues -> Addresses],
         nights' \in [Offers -> 0..Window], UNCHANGED <<indexed, index, in_error>>,
         offer_ids' \in Seq(Offers), venue_ids' \in Seq(Venues), Len(venue_ids') >= Len(venue_ids),
         \A k \in 1..Len(venue_ids) : venue_ids'[k] = venue_ids[k],
         \A o \in expired' : ~bookable'[o]
  PROVE  Shape'
<1> USE Disjoint
<1>1. Typed'  BY DEF Shape, Typed
<1>2. \A j \in Jobs : JobOK(j)'  BY DEF Shape, JobOK
<1>3. VenuesRead'
  <2>1. job[VenueJob].taken \in Nat /\ Len(venue_ids) \in Nat /\ Len(venue_ids') \in Nat
    BY DEF Shape, Typed, Record
  <2>2. \A k \in 1..job[VenueJob].taken : venue_ids'[k] = venue_ids[k]
    BY <2>1 DEF Shape, VenuesRead
  <2>3. job'[VenueJob] = job[VenueJob]
    OBVIOUS
  <2>4. job[VenueJob].taken <= Len(venue_ids')
    BY <2>1 DEF Shape, VenuesRead
  <2>5. VenuesRead  BY DEF Shape
  <2> QED BY ONLY <2>2, <2>3, <2>4, <2>5 DEF VenuesRead
<1>4. ErrorsRead'  BY DEF Shape, ErrorsRead
<1> QED BY <1>1, <1>2, <1>3, <1>4 DEF Shape

LEMMA ChangeOfferKeeps ==
  ASSUME IInv, NEW r \in Requests, NEW c \in Offers, ChangeOffer(r, c)
  PROVE  IInv'
<1> USE Disjoint, ExpiredKept
<1> DEFINE new == [Idle EXCEPT !.step = "push", !.ids = {c}]
<1>t. Shape /\ Typed /\ r \in Processes  BY DEF IInv, Shape
<1>1. new \in Record /\ new.step = "push" /\ new.ids = {c} /\ new.venues = <<>>
  BY IdleRecord DEF Idle, Record, Steps
<1>2. job' = [job EXCEPT ![r] = new]  BY DEF ChangeOffer
<1> HIDE DEF new
<1>3. /\ job'[r] = new /\ \A p \in Processes \ {r} : job'[p] = job[p]
      /\ job' \in [Processes -> Record]
  BY <1>t, <1>1, <1>2 DEF Typed
<1>4. \A j \in Jobs : job'[j] = job[j]
  BY <1>3
<1>5. \A q \in Requests : RequestOK(q)'
  BY <1>t, <1>1, <1>3 DEF RequestOK, Shape
<1>6. Shape'
  <2>1. bookable' \in [Offers -> BOOLEAN] /\ nights' \in [Offers -> 0..Window]
    BY <1>t DEF Typed, ChangeOffer, Window
  <2>2. \A o \in expired' : ~bookable'[o]
    BY <1>t DEF Typed, ChangeOffer, Shape, expired
  <2>3. UNCHANGED <<address, offer_ids, venue_ids, in_error, indexed, index>>
    BY DEF ChangeOffer, lists
  <2>4. /\ address' \in [Venues -> Addresses] /\ offer_ids' \in Seq(Offers)
        /\ venue_ids' \in Seq(Venues) /\ Len(venue_ids') >= Len(venue_ids)
        /\ \A k \in 1..Len(venue_ids) : venue_ids'[k] = venue_ids[k]
    BY <1>t, <2>3 DEF Typed
  <2> QED BY <1>t, <1>3, <1>4, <1>5, <2>1, <2>2, <2>3, <2>4, RequestShape
<1>7. \A o \in Offers : Spared(o)' => Watched(o)'
  <2> TAKE o \in Offers
  <2> HAVE Spared(o)'
  <2>1. Spared(o) /\ UNCHANGED <<lists, indexed, index>>  BY DEF Spared, ChangeOffer, history
  <2>2. CASE o = c
    <3>1. Awaited(o)'  BY <1>1, <1>3, <2>2 DEF Awaited, Queued
    <3> QED BY <1>4, <2>1, <3>1, QuietOffers
  <2>3. CASE o # c
    <3>1. Awaited(o) => Awaited(o)'
      <4>1. \A q \in Requests : /\ o \in job[q].ids => o \in job'[q].ids
                                /\ VenueOf[o] \in ToSet(job[q].venues) => VenueOf[o] \in ToSet(job'[q].venues)
        <5>1. job[r].ids = {} /\ job[r].venues = <<>>
          BY <1>t DEF RequestOK, Shape, ChangeOffer, At
        <5>2. ToSet(<<>>) = {}  BY DEF ToSet
        <5> QED BY <1>3, <5>1, <5>2
      <4>2. o \in expired => o \in expired'  BY <1>t, <2>3 DEF ChangeOffer, Typed, expired
      <4> QED BY <1>4, <2>1, <4>1, <4>2 DEF Awaited, Queued, lists
    <3>2. Document(o)' = Document(o)
      BY <1>t, <2>3 DEF Document, ChangeOffer, Typed
    <3> QED BY <1>4, <2>1, <3>1, <3>2, QuietOffers
  <2> QED BY <2>2, <2>3
<1> QED BY <1>6, <1>7 DEF IInv

LEMMA ChangeVenueKeeps ==
  ASSUME IInv, NEW r \in Requests, NEW v \in Venues, ChangeVenue(r, v)
  PROVE  IInv'
<1> USE Disjoint, ExpiredKept
<1> DEFINE new == [Idle EXCEPT !.step = "push", !.venues = <<v>>]
<1>t. Shape /\ Typed /\ r \in Processes  BY DEF IInv, Shape
<1>1. new \in Record /\ new.step = "push" /\ new.ids = {} /\ new.venues = <<v>>
  <2>1. <<v>> \in Seq(Venues)  OBVIOUS
  <2> QED BY <2>1, IdleRecord DEF Idle, Record, Steps
<1>2. job' = [job EXCEPT ![r] = new]  BY DEF ChangeVenue
<1> HIDE DEF new
<1>3. /\ job'[r] = new /\ \A p \in Processes \ {r} : job'[p] = job[p]
      /\ job' \in [Processes -> Record]
  BY <1>t, <1>1, <1>2 DEF Typed
<1>4. \A j \in Jobs : job'[j] = job[j]
  BY <1>3
<1>5. \A q \in Requests : RequestOK(q)'
  BY <1>t, <1>1, <1>3 DEF RequestOK, Shape
<1>u. UNCHANGED <<bookable, nights, expired, offer_ids, venue_ids, in_error, indexed, index>>
  BY DEF ChangeVenue, lists
<1>a. address' \in [Venues -> Addresses] /\ \A w \in Venues \ {v} : address'[w] = address[w]
  BY <1>t DEF ChangeVenue, Typed
<1>6. Shape'
  <2>1. /\ bookable' \in [Offers -> BOOLEAN] /\ nights' \in [Offers -> 0..Window]
        /\ offer_ids' \in Seq(Offers)
        /\ venue_ids' \in Seq(Venues) /\ Len(venue_ids') >= Len(venue_ids)
        /\ \A k \in 1..Len(venue_ids) : venue_ids'[k] = venue_ids[k]
        /\ \A o \in expired' : ~bookable'[o]
    BY <1>t, <1>u DEF Typed, Shape
  <2> QED BY <1>t, <1>3, <1>4, <1>5, <1>u, <1>a, <2>1, RequestShape
<1>7. \A o \in Offers : Spared(o)' => Watched(o)'
  <2> TAKE o \in Offers
  <2> HAVE Spared(o)'
  <2>1. Spared(o)  BY DEF Spared, ChangeVenue, history
  <2>2. CASE VenueOf[o] = v
    <3>1. v \in ToSet(<<v>>)  BY DEF ToSet
    <3>2. Awaited(o)'  BY <1>1, <1>3, <2>2, <3>1 DEF Awaited, Queued
    <3> QED BY <1>4, <1>u, <2>1, <3>2, QuietOffers
  <2>3. CASE VenueOf[o] # v
    <3>1. Awaited(o) => Awaited(o)'
      <4>1. \A q \in Requests : /\ o \in job[q].ids => o \in job'[q].ids
                                /\ VenueOf[o] \in ToSet(job[q].venues) => VenueOf[o] \in ToSet(job'[q].venues)
        <5>1. job[r].ids = {} /\ job[r].venues = <<>>
          BY <1>t DEF RequestOK, Shape, ChangeVenue, At
        <5>2. ToSet(<<>>) = {}  BY DEF ToSet
        <5> QED BY <1>3, <5>1, <5>2
      <4> QED BY <1>4, <1>u, <4>1 DEF Awaited, Queued
    <3>2. Document(o)' = Document(o)
      <4>1. VenueOf[o] \in Venues  BY IndexingAssumption
      <4> QED BY <1>a, <1>u, <2>3, <4>1 DEF Document
    <3> QED BY <1>4, <1>u, <2>1, <3>1, <3>2, QuietOffers
  <2> QED BY <2>2, <2>3
<1> QED BY <1>6, <1>7 DEF IInv

LEMMA PassLimitKeeps ==
  ASSUME IInv, NEW c \in Offers, PassLimit(c)
  PROVE  IInv'
<1> USE Disjoint, ExpiredKept
<1>t. Shape /\ Typed  BY DEF IInv, Shape
<1>u. UNCHANGED <<address, offer_ids, venue_ids, in_error, indexed, index, job>>
  BY DEF PassLimit, lists
<1>1. Shape'
  <2>1. /\ bookable' \in [Offers -> BOOLEAN] /\ nights' \in [Offers -> 0..Window]
        /\ \A o \in expired' : ~bookable'[o]
    BY <1>t DEF Typed, Shape, PassLimit, Window, expired
  <2>2. /\ offer_ids' \in Seq(Offers) /\ address' \in [Venues -> Addresses]
        /\ job' \in [Processes -> Record]
        /\ venue_ids' \in Seq(Venues) /\ Len(venue_ids') >= Len(venue_ids)
        /\ \A k \in 1..Len(venue_ids) : venue_ids'[k] = venue_ids[k]
        /\ \A j \in Jobs : job'[j] = job[j]
    BY <1>t, <1>u DEF Typed
  <2>3. \A q \in Requests : RequestOK(q)'  BY <1>t, <1>u DEF RequestOK, Shape
  <2> QED BY <1>t, <1>u, <2>1, <2>2, <2>3, RequestShape
<1>2. \A o \in Offers : Spared(o)' => Watched(o)'
  <2> TAKE o \in Offers
  <2> HAVE Spared(o)'
  <2>1. Spared(o) /\ \A j \in Jobs : job'[j] = job[j]  BY <1>u DEF Spared, PassLimit, history
  <2>2. Queued(o)' = Queued(o)
    BY <1>u DEF Queued
  <2>3. CASE o = c
    <3>1. Awaited(o)'
      BY <1>t, <2>3 DEF PassLimit, Typed, Window, expired, Awaited
    <3> QED BY <1>u, <2>1, <3>1, QuietOffers
  <2>4. CASE o # c
    <3>1. (Awaited(o) => Awaited(o)') /\ Document(o)' = Document(o)
      BY <1>t, <1>u, <2>2, <2>4 DEF Awaited, Document, PassLimit, Typed, expired
    <3> QED BY <1>u, <2>1, <3>1, QuietOffers
  <2> QED BY <2>3, <2>4
<1> QED BY <1>1, <1>2 DEF IInv
LEMMA FiniteIds == \A S \in SUBSET Offers : SetToSeq(S) \in Seq(Offers) /\ ToSet(SetToSeq(S)) = S
<1> TAKE S \in SUBSET Offers
<1>1. IsFiniteSet(S)  BY IndexingAssumption, FS_Subset
<1> QED BY <1>1, SetToSeqRange

LEMMA TypedJobs ==
  ASSUME Typed
  PROVE  /\ \A p \in Processes : /\ job[p] \in Record /\ job[p].ids \subseteq Offers
                                 /\ job[p].venues \in Seq(Venues) /\ job[p].taken \in Nat
         /\ offer_ids \in Seq(Offers) /\ in_error \in Seq(Offers) /\ venue_ids \in Seq(Venues)
BY DEF Typed, Record

LEMMA PushKeeps ==
  ASSUME IInv, NEW r \in Requests, Push(r)
  PROVE  IInv'
<1> USE Disjoint, ExpiredKept
<1>t. Shape /\ Typed /\ r \in Processes  BY DEF IInv, Shape
<1>y. /\ job[r].ids \subseteq Offers /\ job[r].venues \in Seq(Venues)
      /\ offer_ids \in Seq(Offers) /\ venue_ids \in Seq(Venues)
      /\ job[VenueJob].taken \in Nat /\ job[VenueJob].taken <= Len(venue_ids)
  BY <1>t, TypedJobs DEF Shape, VenuesRead
<1>1. /\ job'[r] = Idle /\ \A p \in Processes \ {r} : job'[p] = job[p]
      /\ job' \in [Processes -> Record]
  BY <1>t, IdleRecord DEF Typed, Push
<1>2. \A j \in Jobs : job'[j] = job[j]
  BY <1>1
<1>u. UNCHANGED <<bookable, address, nights, expired, in_error, indexed, index>>
  BY DEF Push, database, lists
<1>3. Idle.ids = {} /\ Idle.venues = <<>>  BY DEF Idle
<1>4. \A q \in Requests : RequestOK(q)'
  BY <1>t, <1>1, <1>3 DEF RequestOK, Shape
<1>5. /\ offer_ids \o SetToSeq(job[r].ids) \in Seq(Offers)
      /\ ToSet(offer_ids \o SetToSeq(job[r].ids)) = ToSet(offer_ids) \union job[r].ids
  <2>1. 0 \in 0..Len(offer_ids)  BY <1>y
  <2> QED BY <1>y, <2>1, FiniteIds, AfterAppend
<1>6. /\ venue_ids \o job[r].venues \in Seq(Venues)
      /\ Len(venue_ids \o job[r].venues) >= Len(venue_ids)
      /\ \A k \in 1..Len(venue_ids) : (venue_ids \o job[r].venues)[k] = venue_ids[k]
      /\ After(venue_ids \o job[r].venues, job[VenueJob].taken)
           = After(venue_ids, job[VenueJob].taken) \union ToSet(job[r].venues)
  <2>1. job[VenueJob].taken \in 0..Len(venue_ids)  BY <1>y
  <2> QED BY <1>y, <2>1, AfterAppend
<1>7. Shape'
  <2>1. /\ bookable' \in [Offers -> BOOLEAN] /\ nights' \in [Offers -> 0..Window]
        /\ address' \in [Venues -> Addresses]
        /\ \A o \in expired' : ~bookable'[o]
    BY <1>t, <1>u DEF Typed, Shape
  <2>2. /\ offer_ids' \in Seq(Offers)
        /\ venue_ids' \in Seq(Venues) /\ Len(venue_ids') >= Len(venue_ids)
        /\ \A k \in 1..Len(venue_ids) : venue_ids'[k] = venue_ids[k]
    <3>1. Len(venue_ids) \in Nat  BY <1>y
    <3>2. \/ UNCHANGED <<offer_ids, venue_ids>>
          \/ /\ offer_ids' = offer_ids \o SetToSeq(job[r].ids)
             /\ venue_ids' = venue_ids \o job[r].venues
      BY DEF Push, lists
    <3>3. CASE UNCHANGED <<offer_ids, venue_ids>>  BY <1>y, <3>1, <3>3
    <3>4. CASE /\ offer_ids' = offer_ids \o SetToSeq(job[r].ids)
               /\ venue_ids' = venue_ids \o job[r].venues
      BY <1>5, <1>6, <3>4
    <3> QED BY <3>2, <3>3, <3>4
  <2> QED BY <1>t, <1>u, <1>1, <1>2, <1>4, <2>1, <2>2, RequestShape
<1>8. \A o \in Offers : Spared(o)' => Watched(o)'
  <2> TAKE o \in Offers
  <2> HAVE Spared(o)'
  <2>1. Spared(o) /\ Document(o)' = Document(o)
    BY <1>u DEF Spared, Push, Lose, history, Document
  <2>2. Awaited(o) => Awaited(o)'
    <3>1. \A q \in Requests \ {r} : job'[q] = job[q]
      BY <1>1
    <3>2. CASE /\ offer_ids' = offer_ids \o SetToSeq(job[r].ids)
               /\ venue_ids' = venue_ids \o job[r].venues
      <4>1. /\ ToSet(offer_ids') = ToSet(offer_ids) \union job[r].ids
            /\ After(venue_ids', job[VenueJob].taken)
                 = After(venue_ids, job[VenueJob].taken) \union ToSet(job[r].venues)
        BY <1>5, <1>6, <3>2
      <4>2. job'[VenueJob] = job[VenueJob] /\ job'[ErrorJob] = job[ErrorJob]
        BY <1>2
      <4> QED BY <1>u, <3>1, <4>1, <4>2 DEF Awaited, Queued
    <3>3. CASE Lose(Forgotten(r)) /\ UNCHANGED lists
      <4>1. o \notin job[r].ids /\ VenueOf[o] \notin ToSet(job[r].venues)
        BY <3>3 DEF Spared, Lose, Forgotten, OffersOf
      <4> QED BY <1>u, <1>2, <3>1, <3>3, <4>1 DEF Awaited, Queued, lists
    <3> QED BY <3>2, <3>3 DEF Push
  <2> QED BY <1>2, <1>u, <2>1, <2>2, QuietOffers
<1> QED BY <1>7, <1>8 DEF IInv
\* Going on with the offers in hand: who else awaits them does not change.
LEMMA GoesOnAwaits ==
  ASSUME IInv, NEW j \in Jobs, NEW new, GoesOn(j, new), NEW o \in Offers
  PROVE  /\ Awaited(o) => Awaited(o)'
         /\ \A s \in Seq(Offers) : in_error' = in_error \o s /\ o \in ToSet(s) => Awaited(o)'
<1> USE Disjoint, ExpiredKept
<1>t. Shape /\ Typed /\ j \in Processes  BY DEF IInv, Shape
<1>1. \A p \in Processes : /\ job'[p].ids = job[p].ids /\ job'[p].venues = job[p].venues
                           /\ job'[p].taken = job[p].taken
  BY <1>t DEF GoesOn, Typed
<1>2. UNCHANGED <<offer_ids, venue_ids, expired>>  BY DEF GoesOn, database
<1>3. in_error \in Seq(Offers) /\ job[ErrorJob].taken \in 0..Len(in_error)
  BY <1>t, TypedJobs DEF Shape, ErrorsRead
<1>4. \A s \in Seq(Offers) : After(in_error \o s, job[ErrorJob].taken)
                               = After(in_error, job[ErrorJob].taken) \union ToSet(s)
  BY <1>3, AfterAppend
<1>5. /\ job'[ErrorJob].taken = job[ErrorJob].taken /\ job'[VenueJob].taken = job[VenueJob].taken
      /\ job'[VenueJob].venues = job[VenueJob].venues
      /\ \A r \in Requests : job'[r].ids = job[r].ids /\ job'[r].venues = job[r].venues
  BY <1>1
<1>6. \A x \in After(in_error, job[ErrorJob].taken) : x \in After(in_error, job[ErrorJob].taken)'
  <2>1. PICK s \in Seq(Offers) : in_error' = in_error \/ in_error' = in_error \o s
    BY DEF GoesOn
  <2>2. After(in_error', job'[ErrorJob].taken) = After(in_error, job[ErrorJob].taken)'
    BY DEF After
  <2> QED BY <1>4, <1>5, <2>1, <2>2
<1>7. ASSUME NEW s \in Seq(Offers), in_error' = in_error \o s, o \in ToSet(s)  PROVE Awaited(o)'
  <2>1. o \in After(in_error', job'[ErrorJob].taken)
    BY <1>4, <1>5, <1>7
  <2> QED BY <2>1 DEF Awaited, Queued, After
<1>8. Awaited(o) => Awaited(o)'
  BY <1>2, <1>5, <1>6 DEF Awaited, Queued
<1> QED BY <1>7, <1>8

LEMMA ReadOffersKeeps ==
  ASSUME IInv, NEW j \in Jobs, ReadOffers(j)
  PROVE  IInv'
<1> USE Disjoint, ExpiredKept
<1>t. Shape /\ Typed /\ j \in Processes /\ JobOK(j)  BY DEF IInv, Shape
<1>y. job[j] \in Record /\ job[j].ids \subseteq Offers  BY <1>t, TypedJobs
<1>1. PICK known \in {indexed, {}} :
        /\ job' = [job EXCEPT ![j].step = "add", ![j].gone = ToDelete(job[j].ids, known),
                              ![j].docs = [o \in Bookable(job[j].ids) |-> Document(o)]]
        /\ IF known = indexed THEN UNCHANGED <<faults, accident>>
           ELSE Fault /\ Lose(job[j].ids \ Bookable(job[j].ids))
  BY DEF ReadOffers
<1> DEFINE new == [job[j] EXCEPT !.step = "add", !.gone = ToDelete(job[j].ids, known),
                                 !.docs = [o \in Bookable(job[j].ids) |-> Document(o)]]
<1>2. job' = [job EXCEPT ![j] = new]
  BY <1>t, <1>1 DEF Typed
<1>3. new.docs \in Docs /\ DOMAIN new.docs = Bookable(job[j].ids)
  <2>1. \A o \in Bookable(job[j].ids) : Document(o) \in Addresses
    BY <1>t, <1>y, IndexingAssumption DEF Document, Bookable, Typed
  <2>2. Bookable(job[j].ids) \in SUBSET Offers  BY <1>y DEF Bookable
  <2>3. new.docs = [o \in Bookable(job[j].ids) |-> Document(o)]  BY <1>y DEF Record
  <2> QED BY <2>1, <2>2, <2>3 DEF Docs
<1>4. /\ new.step = "add" /\ new.ids = job[j].ids /\ new.venues = job[j].venues
      /\ new.taken = job[j].taken /\ new.gone = ToDelete(job[j].ids, known)
      /\ \A o \in Bookable(job[j].ids) : new.docs[o] = Document(o)
  BY <1>y DEF Record
<1>5. new \in Record
  <2>1. new.gone \subseteq Offers  BY <1>y, <1>4 DEF ToDelete
  <2> QED BY <1>y, <1>3, <1>4, <2>1 DEF Record, Steps
<1> HIDE DEF new
<1>u. UNCHANGED <<database, lists, indexed, index, raced>>  BY DEF ReadOffers
<1>6. GoesOn(j, new)
  <2>1. DOMAIN new.docs \subseteq new.ids /\ new.gone \subseteq new.ids
        /\ DOMAIN new.docs \intersect new.gone = {}
    BY <1>3, <1>4 DEF Bookable, ToDelete
  <2>2. job[j].step = "read" /\ j # ExpiryJob /\ UNCHANGED <<offer_ids, venue_ids, in_error>>
    BY <1>t, <1>u DEF ReadOffers, At, lists, JobOK
  <2>3. indexed' \subseteq Offers /\ index' \in [Offers -> Addresses \union {Absent}]
    BY <1>t, <1>u DEF Typed
  <2>4. \E s \in Seq(Offers) : in_error' = in_error
    <3>1. <<>> \in Seq(Offers)  OBVIOUS
    <3> QED BY <2>2, <3>1
  <2> QED BY <1>2, <1>4, <1>5, <1>u, <2>1, <2>2, <2>3, <2>4 DEF GoesOn
<1>7. Shape'  BY <1>t, <1>6, GoesOnShape
<1>8. \A o \in Offers : Spared(o)' => Watched(o)'
  <2> TAKE o \in Offers
  <2> HAVE Spared(o)'
  <2>1. Spared(o)
    BY <1>1, <1>u DEF Spared, Lose
  <2>2. Watched(o)  BY <2>1 DEF IInv
  <2>3. job'[j] = new  BY <1>2, <1>t DEF Typed
  <2>4. ASSUME o \in new.ids
        PROVE  /\ index'[o] # Absent => o \in indexed' \/ (new.step = "hset" /\ Adds(j, o)')
               /\ new.step = "hdel" /\ Deletes(j, o)' => index'[o] = Absent
               /\ ~Awaited(o)' => Progress(j, o)'
    <3>1. Has(j, o)  BY <1>4, <2>4 DEF Has
    <3>2. \A i \in Jobs : job[i].step = "hset" => ~Adds(i, o)
      <4>1. \A i \in Jobs : Adds(i, o) => Has(i, o)  BY <1>t DEF Shape, JobOK, Adds, Has
      <4>2. job[j].step = "read"  BY DEF ReadOffers, At
      <4> QED BY <2>2, <3>1, <4>1, <4>2 DEF Watched, ByOne
    <3>3. index[o] # Absent => o \in indexed
      BY <2>2, <3>2 DEF Watched, Known
    <3>4. Document(o)' = Document(o) /\ (~bookable[o] => Document(o) = Absent)
      BY <1>u DEF Document, database
    <3>5. Adds(j, o)' <=> bookable[o]
      BY <1>3, <1>4, <2>3, <2>4 DEF Adds, Bookable
    <3>6. Adds(j, o)' => new.docs[o] = Document(o)
      BY <1>3, <1>4, <2>3 DEF Adds
    <3>7. ~bookable[o] /\ ~Deletes(j, o)' => index[o] = Absent
      <4>1. CASE known = indexed
        BY <1>4, <2>3, <2>4, <3>3, <4>1 DEF Deletes, ToDelete, Bookable
      <4>2. CASE known # indexed
        BY <1>1, <1>4, <2>4, <4>2 DEF Spared, Lose, Bookable
      <4> QED BY <4>1, <4>2
    <3>8. Progress(j, o)'
      BY <1>4, <1>u, <2>3, <3>4, <3>5, <3>6, <3>7 DEF Progress
    <3> QED BY <1>4, <1>u, <3>3, <3>8
  <2> QED BY <1>6, <1>u, <2>1, <2>4, GoesOnAwaits, GoesOnOffers
<1> QED BY <1>7, <1>8 DEF IInv
\* Its record is the same, at another step.
WentOn(j, new, step) ==
  /\ GoesOn(j, new) /\ new.step = step /\ new.ids = job[j].ids /\ job'[j] = new
  /\ \A o : /\ Adds(j, o)' <=> Adds(j, o)
            /\ Deletes(j, o)' <=> Deletes(j, o)
            /\ Adds(j, o) => job'[j].docs[o] = job[j].docs[o]

LEMMA GotoGoesOn ==
  ASSUME Shape, NEW j \in Jobs, NEW step \in {"add", "hset", "delete", "hdel", "done"}, Goto(j, step),
         job[j].step \in {"read", "add", "hset", "delete", "hdel"},
         step \in {"add", "hset"} => j # ExpiryJob,
         UNCHANGED <<database, offer_ids, venue_ids>>,
         \E s \in Seq(Offers) : in_error' = in_error \/ in_error' = in_error \o s,
         indexed' \subseteq Offers, index' \in [Offers -> Addresses \union {Absent}]
  PROVE  \E new : WentOn(j, new, step)
<1> USE Disjoint, ExpiredKept
<1>t. Typed /\ j \in Processes /\ JobOK(j)  BY DEF Shape
<1>y. job[j] \in Record  BY <1>t, TypedJobs
<1> DEFINE new == [job[j] EXCEPT !.step = step]
<1>1. job' = [job EXCEPT ![j] = new]
  BY <1>t DEF Typed, Goto
<1>2. /\ new.step = step /\ new.ids = job[j].ids /\ new.venues = job[j].venues
      /\ new.taken = job[j].taken /\ new.gone = job[j].gone /\ new.docs = job[j].docs
      /\ new \in Record
  BY <1>y DEF Record, Steps
<1> HIDE DEF new
<1>3. job'[j] = new  BY <1>1, <1>t DEF Typed
<1>4. GoesOn(j, new)
  BY <1>t, <1>1, <1>2 DEF GoesOn, JobOK
<1>5. \A o : /\ Adds(j, o)' <=> Adds(j, o)
             /\ Deletes(j, o)' <=> Deletes(j, o)
             /\ Adds(j, o) => job'[j].docs[o] = job[j].docs[o]
  BY <1>2, <1>3 DEF Adds, Deletes
<1> QED BY <1>2, <1>3, <1>4, <1>5 DEF WentOn

LEMMA AloneInHand ==
  ASSUME IInv, NEW j \in Jobs, NEW o \in Offers, Spared(o), o \in job[j].ids, job[j].step # "hset"
  PROVE  /\ Watched(o) /\ Has(j, o)
         /\ index[o] # Absent => o \in indexed
         /\ ~Awaited(o) => Progress(j, o)
<1>1. Watched(o) /\ Has(j, o)  BY DEF IInv, Has
<1>2. \A i \in Jobs : Adds(i, o) => Has(i, o)  BY DEF IInv, Shape, JobOK, Adds, Has
<1>3. \A i \in Jobs : job[i].step = "hset" => ~Adds(i, o)
  BY <1>1, <1>2 DEF Watched, ByOne
<1> QED BY <1>1, <1>3 DEF Watched, Known, Followed


\* What is left to show of an action that goes on: that of the offers in hand.
LEMMA WentOnKeeps ==
  ASSUME IInv, NEW j \in Jobs, NEW new, NEW step, WentOn(j, new, step),
         \A o \in Offers : Spared(o)' => Spared(o),
         \A o \in Offers \ job[j].ids : index'[o] = index[o] /\ (o \in indexed <=> o \in indexed'),
         \A o \in job[j].ids : Spared(o)' =>
           /\ index'[o] # Absent => o \in indexed' \/ (step = "hset" /\ Adds(j, o))
           /\ step = "hdel" /\ Deletes(j, o) => index'[o] = Absent
           /\ Awaited(o)' \/ Progress(j, o)'
  PROVE  IInv'
<1>1. GoesOn(j, new) /\ new.step = step /\ new.ids = job[j].ids
  BY DEF WentOn
<1>2. Shape'  BY <1>1, GoesOnShape DEF IInv
<1>3. \A o \in Offers : Spared(o)' => Watched(o)'
  <2> TAKE o \in Offers
  <2> HAVE Spared(o)'
  <2>1. Awaited(o) => Awaited(o)'  BY <1>1, GoesOnAwaits
  <2>2. o \notin new.ids => index'[o] = index[o] /\ (o \in indexed <=> o \in indexed')
    BY <1>1
  <2>3. o \in new.ids =>
          /\ index'[o] # Absent => o \in indexed' \/ (new.step = "hset" /\ Adds(j, o)')
          /\ new.step = "hdel" /\ Deletes(j, o)' => index'[o] = Absent
          /\ ~Awaited(o)' => Progress(j, o)'
    BY <1>1 DEF WentOn
  <2>4. Spared(o)  OBVIOUS
  <2> QED BY <1>1, <2>1, <2>2, <2>3, <2>4, GoesOnOffers
<1> QED BY <1>2, <1>3 DEF IInv

LEMMA NothingInError ==
  in_error' = in_error => \E s \in Seq(Offers) : in_error' = in_error \/ in_error' = in_error \o s
<1>1. <<>> \in Seq(Offers)  OBVIOUS
<1> QED BY <1>1

LEMMA AddObjectsKeeps ==
  ASSUME IInv, NEW j \in Jobs, AddObjects(j)
  PROVE  IInv'
<1> USE Disjoint, ExpiredKept
<1>t. Shape /\ Typed /\ JobOK(j)  BY DEF IInv, Shape
<1> DEFINE next == IF ToAdd(j) = {} THEN "delete" ELSE "hset"
<1>u. UNCHANGED <<database, lists, indexed, history>> /\ job[j].step = "add" /\ Goto(j, next)
  BY DEF AddObjects, At
<1>n. next \in {"delete", "hset"} /\ (next = "delete" => ToAdd(j) = {})  OBVIOUS
<1> HIDE DEF next
<1>i. \A o \in Offers : index'[o] = IF o \in ToAdd(j) THEN job[j].docs[o] ELSE index[o]
  BY DEF AddObjects
<1>1. PICK new : WentOn(j, new, next)
  <2>1. index' \in [Offers -> Addresses \union {Absent}]
    <3>1. \A o \in ToAdd(j) : job[j].docs[o] \in Addresses
      BY <1>t, TypedJobs DEF ToAdd, Record, Docs
    <3> QED BY <1>t, <3>1 DEF AddObjects, Typed
  <2>2. /\ indexed' \subseteq Offers /\ UNCHANGED <<database, offer_ids, venue_ids>>
        /\ \E s \in Seq(Offers) : in_error' = in_error \/ in_error' = in_error \o s
    BY <1>t, <1>u, NothingInError DEF Typed, lists
  <2>3. /\ next \in {"add", "hset", "delete", "hdel", "done"} /\ j # ExpiryJob
        /\ job[j].step \in {"read", "add", "hset", "delete", "hdel"}
    BY <1>n, <1>t, <1>u DEF JobOK
  <2> QED BY <1>t, <1>u, <2>1, <2>2, <2>3, GotoGoesOn
<1>2. \A o \in Offers : Spared(o)' => Spared(o)  BY <1>u DEF Spared, history
<1>3. \A o \in Offers \ job[j].ids : index'[o] = index[o] /\ (o \in indexed <=> o \in indexed')
  BY <1>i, <1>t, <1>u DEF JobOK, ToAdd
<1>4. ASSUME NEW o \in job[j].ids, Spared(o)'
      PROVE  /\ index'[o] # Absent => o \in indexed' \/ (next = "hset" /\ Adds(j, o))
             /\ next = "hdel" /\ Deletes(j, o) => index'[o] = Absent
             /\ Awaited(o)' \/ Progress(j, o)'
  <2>0. o \in Offers  BY <1>t, TypedJobs
  <2>1. (index[o] # Absent => o \in indexed) /\ (~Awaited(o) => Progress(j, o))
    BY <1>2, <1>4, <1>u, <2>0, AloneInHand
  <2>2. (Adds(j, o) <=> o \in ToAdd(j)) /\ (Adds(j, o) => next = "hset")
    BY <1>n DEF Adds, ToAdd
  <2>3. Document(o)' = Document(o) /\ expired' = expired  BY <1>u DEF Document, database
  <2>4. Deletes(j, o) => ~Adds(j, o)  BY <1>t DEF JobOK, Adds, Deletes
  <2>5. Awaited(o) => Awaited(o)'  BY <1>1, <2>0, GoesOnAwaits DEF WentOn
  <2>6. ~Awaited(o)' => Progress(j, o)'
    BY <1>1, <1>i, <1>n, <1>u, <2>0, <2>1, <2>2, <2>3, <2>4, <2>5 DEF Progress, WentOn
  <2> QED BY <1>i, <1>n, <1>u, <2>0, <2>1, <2>2, <2>6
<1> QED BY <1>1, <1>2, <1>3, <1>4, WentOnKeeps

LEMMA ExecutePipelineKeeps ==
  ASSUME IInv, NEW j \in Jobs, ExecutePipeline(j)
  PROVE  IInv'
<1> USE Disjoint, ExpiredKept
<1>t. Shape /\ Typed /\ JobOK(j) /\ job[j].ids \subseteq Offers
  BY TypedJobs DEF IInv, Shape
<1>u. UNCHANGED <<database, lists, index, history>> /\ job[j].step = "hset" /\ Goto(j, "delete")
  BY DEF ExecutePipeline, At
<1>i. indexed' = indexed \union ToAdd(j) /\ ToAdd(j) \subseteq job[j].ids
  BY <1>t DEF ExecutePipeline, ToAdd, JobOK
<1>1. PICK new : WentOn(j, new, "delete")
  <2>1. /\ indexed' \subseteq Offers /\ UNCHANGED <<database, offer_ids, venue_ids>>
        /\ index' \in [Offers -> Addresses \union {Absent}]
        /\ \E s \in Seq(Offers) : in_error' = in_error \/ in_error' = in_error \o s
    BY <1>t, <1>i, <1>u, NothingInError DEF Typed, lists
  <2> QED BY <1>t, <1>u, <2>1, GotoGoesOn
<1>2. \A o \in Offers : Spared(o)' => Spared(o)  BY <1>u DEF Spared, history
<1>3. \A o \in Offers \ job[j].ids : index'[o] = index[o] /\ (o \in indexed <=> o \in indexed')
  BY <1>i, <1>u
<1>4. ASSUME NEW o \in job[j].ids, Spared(o)'
      PROVE  /\ index'[o] # Absent => o \in indexed'
             /\ Awaited(o)' \/ Progress(j, o)'
  <2>0. o \in Offers /\ Spared(o) /\ Has(j, o)  BY <1>2, <1>4, <1>t DEF Has
  <2>1. Watched(o)  BY <2>0 DEF IInv
  <2>2. \A i \in Jobs : Adds(i, o) => i = j
    BY <2>0, <2>1, <1>t DEF Watched, ByOne, Shape, JobOK, Adds, Has
  <2>3. index[o] # Absent => o \in indexed'
    BY <1>i, <2>1, <2>2 DEF Watched, Known, Adds, ToAdd
  <2>4. Document(o)' = Document(o) /\ expired' = expired  BY <1>u DEF Document, database
  <2>5. Deletes(j, o) => ~Adds(j, o)  BY <1>t DEF JobOK, Adds, Deletes
  <2>6. Awaited(o) => Awaited(o)'  BY <1>1, <2>0, GoesOnAwaits DEF WentOn
  <2>7. ~Awaited(o) => Progress(j, o)  BY <2>0, <2>1 DEF Watched, Followed
  <2>8. ~Awaited(o)' => Progress(j, o)'
    BY <1>1, <1>u, <2>4, <2>5, <2>6, <2>7 DEF Progress, WentOn
  <2> QED BY <1>u, <2>3, <2>8
<1> QED BY <1>1, <1>2, <1>3, <1>4, WentOnKeeps

LEMMA DeleteObjectsKeeps ==
  ASSUME IInv, NEW j \in Jobs, DeleteObjects(j)
  PROVE  IInv'
<1> USE Disjoint, ExpiredKept
<1>t. Shape /\ Typed /\ JobOK(j) /\ job[j].ids \subseteq Offers
  BY TypedJobs DEF IInv, Shape
<1> DEFINE next == IF job[j].gone = {} THEN "done" ELSE "hdel"
<1>u. UNCHANGED <<database, lists, indexed, history>> /\ job[j].step = "delete" /\ Goto(j, next)
  BY DEF DeleteObjects, At
<1>n. next \in {"done", "hdel"} /\ (next = "done" => job[j].gone = {})  OBVIOUS
<1> HIDE DEF next
<1>i. \A o \in Offers : index'[o] = IF o \in job[j].gone THEN Absent ELSE index[o]
  BY DEF DeleteObjects
<1>1. PICK new : WentOn(j, new, next)
  <2>1. index' \in [Offers -> Addresses \union {Absent}]
    BY <1>t DEF DeleteObjects, Typed
  <2>2. /\ indexed' \subseteq Offers /\ UNCHANGED <<database, offer_ids, venue_ids>>
        /\ \E s \in Seq(Offers) : in_error' = in_error \/ in_error' = in_error \o s
    BY <1>t, <1>u, NothingInError DEF Typed, lists
  <2>3. /\ next \in {"add", "hset", "delete", "hdel", "done"} /\ next \notin {"add", "hset"}
        /\ job[j].step \in {"read", "add", "hset", "delete", "hdel"}
    BY <1>n, <1>u
  <2> QED BY <1>t, <1>u, <2>1, <2>2, <2>3, GotoGoesOn
<1>2. \A o \in Offers : Spared(o)' => Spared(o)  BY <1>u DEF Spared, history
<1>3. \A o \in Offers \ job[j].ids : index'[o] = index[o] /\ (o \in indexed <=> o \in indexed')
  BY <1>i, <1>t, <1>u DEF JobOK
<1>4. ASSUME NEW o \in job[j].ids, Spared(o)'
      PROVE  /\ index'[o] # Absent => o \in indexed'
             /\ Deletes(j, o) => index'[o] = Absent
             /\ Awaited(o)' \/ Progress(j, o)'
  <2>0. o \in Offers  BY <1>t
  <2>1. (index[o] # Absent => o \in indexed) /\ (~Awaited(o) => Progress(j, o))
    BY <1>2, <1>4, <1>u, <2>0, AloneInHand
  <2>3. Document(o)' = Document(o) /\ expired' = expired  BY <1>u DEF Document, database
  <2>5. Awaited(o) => Awaited(o)'  BY <1>1, <2>0, GoesOnAwaits DEF WentOn
  <2>6. ~Awaited(o)' => Progress(j, o)'
    BY <1>1, <1>i, <1>n, <1>u, <2>0, <2>1, <2>3, <2>5 DEF Progress, WentOn, Deletes
  <2> QED BY <1>i, <1>u, <2>0, <2>1, <2>6 DEF Deletes
<1> QED BY <1>1, <1>2, <1>3, <1>4, WentOnKeeps

LEMMA DeleteIndexedOffersKeeps ==
  ASSUME IInv, NEW j \in Jobs, DeleteIndexedOffers(j)
  PROVE  IInv'
<1> USE Disjoint, ExpiredKept
<1>t. Shape /\ Typed /\ JobOK(j) /\ job[j].ids \subseteq Offers
  BY TypedJobs DEF IInv, Shape
<1>u. UNCHANGED <<database, lists, index, history>> /\ job[j].step = "hdel" /\ Goto(j, "done")
  BY DEF DeleteIndexedOffers, At
<1>i. indexed' = indexed \ job[j].gone /\ job[j].gone \subseteq job[j].ids
  BY <1>t DEF DeleteIndexedOffers, JobOK
<1>1. PICK new : WentOn(j, new, "done")
  <2>1. /\ indexed' \subseteq Offers /\ UNCHANGED <<database, offer_ids, venue_ids>>
        /\ index' \in [Offers -> Addresses \union {Absent}]
        /\ \E s \in Seq(Offers) : in_error' = in_error \/ in_error' = in_error \o s
    BY <1>t, <1>i, <1>u, NothingInError DEF Typed, lists
  <2> QED BY <1>t, <1>u, <2>1, GotoGoesOn
<1>2. \A o \in Offers : Spared(o)' => Spared(o)  BY <1>u DEF Spared, history
<1>3. \A o \in Offers \ job[j].ids : index'[o] = index[o] /\ (o \in indexed <=> o \in indexed')
  BY <1>i, <1>u
<1>4. ASSUME NEW o \in job[j].ids, Spared(o)'
      PROVE  /\ index'[o] # Absent => o \in indexed'
             /\ Awaited(o)' \/ Progress(j, o)'
  <2>0. o \in Offers  BY <1>t
  <2>1. Watched(o) /\ (index[o] # Absent => o \in indexed) /\ (~Awaited(o) => Progress(j, o))
    BY <1>2, <1>4, <1>u, <2>0, AloneInHand
  <2>2. o \in job[j].gone => index[o] = Absent
    BY <1>u, <2>1 DEF Watched, Gone, Deletes
  <2>3. Document(o)' = Document(o) /\ expired' = expired  BY <1>u DEF Document, database
  <2>5. Awaited(o) => Awaited(o)'  BY <1>1, <2>0, GoesOnAwaits DEF WentOn
  <2>6. ~Awaited(o)' => Progress(j, o)'
    BY <1>1, <1>u, <2>1, <2>3, <2>5 DEF Progress, WentOn
  <2> QED BY <1>i, <1>u, <2>1, <2>2, <2>6
<1> QED BY <1>1, <1>2, <1>3, <1>4, WentOnKeeps
LEMMA PutInErrorAwaits ==
  ASSUME IInv, NEW j \in Jobs, NEW new, GoesOn(j, new), NEW ids \in SUBSET Offers, PutInError(ids)
  PROVE  \A o \in ids : Spared(o)' => Awaited(o)'
<1> TAKE o \in ids
<1> HAVE Spared(o)'
<1>1. o \in Offers /\ SetToSeq(ids) \in Seq(Offers) /\ ToSet(SetToSeq(ids)) = ids
  BY FiniteIds
<1>2. in_error' = in_error \o SetToSeq(ids)
  BY DEF PutInError, Lose, Spared
<1> QED BY <1>1, <1>2, GoesOnAwaits

LEMMA PutInErrorTyped ==
  ASSUME Typed, NEW ids \in SUBSET Offers, PutInError(ids)
  PROVE  /\ UNCHANGED <<database, offer_ids, venue_ids, indexed, index>>
         /\ \E s \in Seq(Offers) : in_error' = in_error \/ in_error' = in_error \o s
         /\ indexed' \subseteq Offers /\ index' \in [Offers -> Addresses \union {Absent}]
         /\ \A o \in Offers : Spared(o)' => Spared(o)
<1>1. SetToSeq(ids) \in Seq(Offers)  BY FiniteIds
<1>2. \E s \in Seq(Offers) : in_error' = in_error \/ in_error' = in_error \o s
  <2>1. CASE in_error' = in_error  BY <2>1, NothingInError
  <2>2. CASE in_error' = in_error \o SetToSeq(ids)  BY <1>1, <2>2
  <2> QED BY <2>1, <2>2 DEF PutInError
<1>3. \A o \in Offers : Spared(o)' => Spared(o)
  BY DEF PutInError, Lose, Spared, history
<1> QED BY <1>2, <1>3 DEF Typed, PutInError

LEMMA AddingFailsKeeps ==
  ASSUME IInv, NEW j \in Jobs, AddingFails(j)
  PROVE  IInv'
<1> USE Disjoint, ExpiredKept
<1>t. Shape /\ Typed /\ JobOK(j) /\ job[j].ids \subseteq Offers
  BY TypedJobs DEF IInv, Shape
<1>u. PutInError(job[j].ids) /\ job[j].step = "add" /\ Goto(j, "delete")
  BY DEF AddingFails, At
<1>i. /\ UNCHANGED <<database, offer_ids, venue_ids, indexed, index>>
      /\ \E s \in Seq(Offers) : in_error' = in_error \/ in_error' = in_error \o s
      /\ indexed' \subseteq Offers /\ index' \in [Offers -> Addresses \union {Absent}]
      /\ \A o \in Offers : Spared(o)' => Spared(o)
  BY <1>t, <1>u, PutInErrorTyped
<1>1. PICK new : WentOn(j, new, "delete")
  BY <1>t, <1>u, <1>i, GotoGoesOn
<1>2. GoesOn(j, new)  BY <1>1 DEF WentOn
<1>3. \A o \in job[j].ids : Spared(o)' => Awaited(o)'
  BY <1>t, <1>u, <1>2, PutInErrorAwaits
<1>4. ASSUME NEW o \in job[j].ids, Spared(o)'
      PROVE  index'[o] # Absent => o \in indexed'
  BY <1>4, <1>i, <1>t, <1>u, AloneInHand
<1> QED BY <1>1, <1>3, <1>4, <1>i, WentOnKeeps

LEMMA DeletingFailsKeeps ==
  ASSUME IInv, NEW j \in Jobs, DeletingFails(j)
  PROVE  IInv'
<1> USE Disjoint, ExpiredKept
<1>t. Shape /\ Typed /\ JobOK(j) /\ job[j].ids \subseteq Offers /\ job[j].gone \subseteq Offers
  BY TypedJobs DEF IInv, Shape, JobOK
<1>u. PutInError(job[j].gone) /\ job[j].step = "delete" /\ Goto(j, "done")
  BY DEF DeletingFails, At
<1>i. /\ UNCHANGED <<database, offer_ids, venue_ids, indexed, index>>
      /\ \E s \in Seq(Offers) : in_error' = in_error \/ in_error' = in_error \o s
      /\ indexed' \subseteq Offers /\ index' \in [Offers -> Addresses \union {Absent}]
      /\ \A o \in Offers : Spared(o)' => Spared(o)
  BY <1>t, <1>u, PutInErrorTyped
<1>1. PICK new : WentOn(j, new, "done")
  BY <1>t, <1>u, <1>i, GotoGoesOn
<1>2. GoesOn(j, new)  BY <1>1 DEF WentOn
<1>3. \A o \in job[j].gone : Spared(o)' => Awaited(o)'
  BY <1>t, <1>u, <1>2, PutInErrorAwaits
<1>4. ASSUME NEW o \in job[j].ids, Spared(o)'
      PROVE  /\ index'[o] # Absent => o \in indexed'
             /\ Awaited(o)' \/ Progress(j, o)'
  <2>0. o \in Offers  BY <1>t
  <2>1. (index[o] # Absent => o \in indexed) /\ (~Awaited(o) => Progress(j, o))
    BY <1>4, <1>i, <1>u, <2>0, AloneInHand
  <2>2. Document(o)' = Document(o) /\ expired' = expired  BY <1>i DEF Document, database
  <2>3. Awaited(o) => Awaited(o)'  BY <1>2, <2>0, GoesOnAwaits
  <2>4. ~Awaited(o)' => Progress(j, o)'
    BY <1>1, <1>3, <1>4, <1>i, <1>u, <2>1, <2>2, <2>3 DEF Progress, WentOn, Deletes
  <2> QED BY <1>i, <2>1, <2>4
<1> QED BY <1>1, <1>4, <1>i, WentOnKeeps

LEMMA CrashToDoneKeeps ==
  ASSUME IInv, NEW j \in OfferJobs, Crash(j), Goto(j, "done")
  PROVE  IInv'
<1> USE Disjoint, ExpiredKept
<1>t. Shape /\ Typed /\ j \in Jobs /\ JobOK(j) /\ job[j].ids \subseteq Offers
  BY TypedJobs DEF IInv, Shape
<1>u. UNCHANGED <<database, lists, indexed, index, raced>> /\ Lose(job[j].ids)
      /\ job[j].step \in {"read", "add", "hset", "delete"}
  <2>1. Abandoned(j) = job[j].ids  BY DEF Abandoned
  <2> QED BY <2>1 DEF Crash
<1>1. PICK new : WentOn(j, new, "done")
  <2>1. /\ indexed' \subseteq Offers /\ UNCHANGED <<database, offer_ids, venue_ids>>
        /\ index' \in [Offers -> Addresses \union {Absent}]
        /\ \E s \in Seq(Offers) : in_error' = in_error \/ in_error' = in_error \o s
    BY <1>t, <1>u, NothingInError DEF Typed, lists
  <2> QED BY <1>t, <1>u, <2>1, GotoGoesOn
<1>2. \A o \in Offers : Spared(o)' => Spared(o)  BY <1>u DEF Spared, Lose
<1>3. \A o \in job[j].ids : ~Spared(o)'  BY <1>u DEF Spared, Lose
<1>4. \A o \in Offers \ job[j].ids : index'[o] = index[o] /\ (o \in indexed <=> o \in indexed')
  BY <1>u
<1> QED BY <1>1, <1>2, <1>3, <1>4, <1>t, WentOnKeeps

\* Once everything in hand is dropped.
LEMMA CrashToIdleKeeps ==
  ASSUME IInv, NEW j \in Jobs, Crash(j), job' = [job EXCEPT ![j] = Idle]
  PROVE  IInv'
<1> USE Disjoint, ExpiredKept
<1>t. Shape /\ Typed /\ j \in Processes /\ job[j].ids \subseteq Offers
  BY TypedJobs DEF IInv, Shape
<1>u. UNCHANGED <<database, lists, indexed, index, raced>>
      /\ job[j].step \in {"read", "add", "hset", "delete"}
      /\ Lose(Abandoned(j))
  BY DEF Crash
<1>3. /\ Idle.step = "idle" /\ Idle.ids = {} /\ Idle.venues = <<>> /\ Idle.taken = 0 /\ Idle.gone = {}
      /\ Idle \in Record /\ DOMAIN Idle.docs = {} /\ ToSet(<<>>) = {}
  BY IdleRecord DEF Idle, ToSet
<1>1. /\ job'[j] = Idle /\ \A p \in Processes \ {j} : job'[p] = job[p]
  BY <1>t DEF Typed
<1>2. Takes(j, Idle)
  BY <1>3, <1>t, <1>u DEF Takes, database, Typed
<1>y. /\ in_error \in Seq(Offers) /\ venue_ids \in Seq(Venues)
      /\ Len(in_error) \in Nat /\ Len(venue_ids) \in Nat
      /\ After(in_error, 0) = ToSet(in_error) /\ After(venue_ids, 0) = ToSet(venue_ids)
  BY <1>t, TypedJobs, AfterNothing
<1>4. Shape'
  <2>1. JobOK(j)'  BY <1>1, <1>3 DEF JobOK
  <2>2. VenuesRead'
    <3>1. CASE j = VenueJob  BY <1>1, <1>3, <1>u, <1>y, <3>1 DEF VenuesRead, lists
    <3>2. CASE j # VenueJob  BY <1>1, <1>t, <1>u, <3>2 DEF VenuesRead, lists, Shape
    <3> QED BY <3>1, <3>2
  <2>3. ErrorsRead'
    <3>1. CASE j = ErrorJob  BY <1>1, <1>3, <1>u, <1>y, <3>1 DEF ErrorsRead, lists
    <3>2. CASE j # ErrorJob  BY <1>1, <1>t, <1>u, <3>2 DEF ErrorsRead, lists, Shape
    <3> QED BY <3>1, <3>2
  <2>4. offer_ids' \in Seq(Offers) /\ venue_ids' \in Seq(Venues) /\ in_error' \in Seq(Offers)
    BY <1>t, <1>u, TypedJobs DEF lists
  <2> QED BY <1>2, <1>t, <2>1, <2>2, <2>3, <2>4, TakesShape
<1>5. \A o \in Offers : Spared(o)' => Watched(o)'
  <2> TAKE o \in Offers
  <2> HAVE Spared(o)'
  <2>1. Spared(o)  BY <1>u DEF Spared, Lose
  <2>w. Watched(o)  BY <2>1 DEF IInv
  <2>u. UNCHANGED <<offer_ids, venue_ids, in_error, expired>>  BY <1>u DEF lists, database
  <2>2. job[j].step = "hset" => ~Adds(j, o)
    BY <1>t, <1>u DEF Spared, Lose, Abandoned, At, Adds, ToAdd, Shape, JobOK
  <2>3. After(in_error, job[ErrorJob].taken) \subseteq After(in_error', job'[ErrorJob].taken)
    <3>1. CASE j = ErrorJob
      <4>1. After(in_error, job[ErrorJob].taken) \subseteq ToSet(in_error)
        <5>1. job[ErrorJob].taken \in Nat  BY <1>t, TypedJobs
        <5> QED BY <1>y, <5>1 DEF After, ToSet
      <4>2. job'[ErrorJob].taken = 0 /\ in_error' = in_error  BY <1>1, <1>3, <2>u, <3>1
      <4>3. After(in_error', job'[ErrorJob].taken) = ToSet(in_error)  BY <1>y, <4>2
      <4> QED BY <4>1, <4>3
    <3>2. CASE j # ErrorJob  BY <1>1, <2>u, <3>2
    <3> QED BY <3>1, <3>2
  <2>4. After(venue_ids, job[VenueJob].taken) \union ToSet(job[VenueJob].venues)
          \subseteq After(venue_ids', job'[VenueJob].taken) \union ToSet(job'[VenueJob].venues)
    <3>1. CASE j = VenueJob
      <4>0. job[VenueJob].taken \in 0..Len(venue_ids) /\ DOMAIN venue_ids = 1..Len(venue_ids)
        BY <1>t, <1>y, TypedJobs DEF Shape, VenuesRead
      <4>1. After(venue_ids, job[VenueJob].taken) \subseteq ToSet(venue_ids)
        <5>1. \A k \in (job[VenueJob].taken + 1)..Len(venue_ids) : k \in 1..Len(venue_ids)  BY <1>y, <4>0
        <5> QED BY <4>0, <5>1, ZenonT(40) DEF After, ToSet
      <4>2. ToSet(job[VenueJob].venues) \subseteq ToSet(venue_ids)
        <5>1. \A v \in ToSet(job[VenueJob].venues) : \E k \in 1..job[VenueJob].taken : venue_ids[k] = v
          BY <1>t DEF Shape, VenuesRead
        <5>2. \A k \in 1..job[VenueJob].taken : venue_ids[k] \in ToSet(venue_ids)
          BY <4>0, <1>y DEF ToSet
        <5> QED BY <5>1, <5>2
      <4>3. job'[VenueJob].taken = 0 /\ venue_ids' = venue_ids  BY <1>1, <1>3, <2>u, <3>1
      <4>4. After(venue_ids', job'[VenueJob].taken) = ToSet(venue_ids)  BY <1>y, <4>3
      <4> QED BY <4>1, <4>2, <4>4
    <3>2. CASE j # VenueJob  BY <1>1, <2>u, <3>2
    <3> QED BY <3>1, <3>2
  <2>5. Queued(o) => Queued(o)'
    <3>1. \A r \in Requests : job'[r] = job[r]  BY <1>1
    <3>2. /\ After(in_error, job[ErrorJob].taken)' = After(in_error', job'[ErrorJob].taken)
          /\ After(venue_ids, job[VenueJob].taken)' = After(venue_ids', job'[VenueJob].taken)
      BY DEF After
    <3> QED BY <2>3, <2>4, <2>u, <3>1, <3>2 DEF Queued
  <2>6. Awaited(o) => Awaited(o)'
    BY <2>5, <2>u DEF Awaited
  <2>7. ASSUME Has(j, o)  PROVE Awaited(o)' \/ index[o] = Document(o)
    <3>0. j \notin OfferJobs  BY <1>u, <2>7 DEF Has, Spared, Lose, Abandoned
    <3>1. CASE j = VenueJob
      <4>1. PICK k \in 1..job[VenueJob].taken : venue_ids[k] = VenueOf[o]
        BY <1>t, <2>7, <3>1 DEF Has, Shape, VenuesRead
      <4>2. k \in 1..Len(venue_ids)
        BY <1>t, <1>y, TypedJobs DEF Shape, VenuesRead
      <4>3. VenueOf[o] \in After(venue_ids', job'[VenueJob].taken)
        BY <1>1, <1>3, <1>y, <2>u, <3>1, <4>1, <4>2 DEF After
      <4>4. After(venue_ids, job[VenueJob].taken)' = After(venue_ids', job'[VenueJob].taken)
        BY DEF After
      <4> QED BY <4>3, <4>4 DEF Awaited, Queued
    <3>2. CASE j = ErrorJob
      <4>1. PICK k \in 1..job[ErrorJob].taken : in_error[k] = o
        BY <1>t, <2>7, <3>2 DEF Has, Shape, ErrorsRead
      <4>2. k \in 1..Len(in_error)
        BY <1>t, <1>y, TypedJobs DEF Shape, ErrorsRead
      <4>3. o \in After(in_error', job'[ErrorJob].taken)
        BY <1>1, <1>3, <1>y, <2>u, <3>2, <4>1, <4>2 DEF After
      <4>4. After(in_error, job[ErrorJob].taken)' = After(in_error', job'[ErrorJob].taken)
        BY DEF After
      <4> QED BY <4>3, <4>4 DEF Awaited, Queued
    <3>3. CASE j = ExpiryJob
      <4>1. job[j].step = "delete"  BY <1>t, <1>u, <3>3 DEF Shape, JobOK
      <4>2. o \in job[j].gone => o \in expired
        BY <1>u, <2>7, <3>3 DEF Spared, Lose, Abandoned, Has
      <4>3. Awaited(o) \/ index[o] = Document(o)
        BY <2>w, <2>7, <4>1, <4>2 DEF Watched, Followed, Progress, Awaited, Deletes
      <4> QED BY <2>6, <4>3
    <3> QED BY <3>0, <3>1, <3>2, <3>3 DEF Jobs
  <2>8. o \notin Idle.ids  BY <1>3
  <2> QED BY <1>2, <2>1, <2>2, <2>6, <2>7, <2>8, <2>u, TakesOffers
<1> QED BY <1>4, <1>5 DEF IInv

LEMMA CrashKeeps ==
  ASSUME IInv, NEW j \in Jobs, Crash(j)
  PROVE  IInv'
BY CrashToDoneKeeps, CrashToIdleKeeps DEF Crash
LEMMA IdleFacts ==
  /\ Idle.step = "idle" /\ Idle.ids = {} /\ Idle.venues = <<>> /\ Idle.taken = 0 /\ Idle.gone = {}
  /\ Idle \in Record /\ DOMAIN Idle.docs = {} /\ ToSet(<<>>) = {}
BY IdleRecord DEF Idle, ToSet

LEMMA ReadingFacts ==
  ASSUME NEW ids \in SUBSET Offers, NEW taken \in Nat
  PROVE  /\ Reading(ids, taken) \in Record /\ Reading(ids, taken).step = "read"
         /\ Reading(ids, taken).ids = ids /\ Reading(ids, taken).venues = <<>>
         /\ Reading(ids, taken).taken = taken /\ Reading(ids, taken).gone = {}
         /\ DOMAIN Reading(ids, taken).docs = {}
BY IdleFacts, ZenonT(40) DEF Reading, Record, Steps

WithVenues(ids, taken, venues) == [Reading(ids, taken) EXCEPT !.venues = venues]

LEMMA ReadingWithVenues ==
  ASSUME NEW ids \in SUBSET Offers, NEW taken \in Nat, NEW venues \in Seq(Venues)
  PROVE  LET new == WithVenues(ids, taken, venues)
         IN  /\ new \in Record /\ new.step = "read" /\ new.ids = ids /\ new.venues = venues
             /\ new.taken = taken /\ new.gone = {} /\ DOMAIN new.docs = {}
<1> DEFINE r == Reading(ids, taken)
<1>1. /\ r \in Record /\ r.step = "read" /\ r.ids = ids /\ r.taken = taken /\ r.gone = {}
      /\ DOMAIN r.docs = {}
  BY ReadingFacts, ZenonT(40)
<1> HIDE DEF r
<1>2. LET new == [r EXCEPT !.venues = venues]
      IN  /\ new \in Record /\ new.step = "read" /\ new.ids = ids /\ new.venues = venues
          /\ new.taken = taken /\ new.gone = {} /\ DOMAIN new.docs = {}
  BY <1>1 DEF Record
<1> QED BY <1>2 DEF r, WithVenues

\* What is left to show of an action that takes offers or is done with them.
LEMMA TookKeeps ==
  ASSUME IInv, NEW j \in Jobs, NEW new, Takes(j, new), JobOK(j)',
         offer_ids' \in Seq(Offers), venue_ids' \in Seq(Venues), in_error' \in Seq(Offers),
         VenuesRead', ErrorsRead',
         job[j].step \in {"idle", "pop", "venue", "done"},
         accident \subseteq accident', raced \subseteq raced',
         \A o \in Offers : Spared(o)' =>
            /\ o \in new.ids => o \notin InHand(j)
            /\ Awaited(o) => Awaited(o)' \/ o \in new.ids
            /\ o \in new.ids => Awaited(o)' \/ Progress(j, o)'
  PROVE  IInv'
<1> USE Disjoint, ExpiredKept
<1>1. Shape'  BY TakesShape DEF IInv
<1>2. ASSUME NEW o \in Offers, Spared(o)'  PROVE Watched(o)'
  <2>1. Spared(o)  BY <1>2 DEF Spared
  <2>2. Has(j, o) => job[j].step = "done"
    BY DEF IInv, Shape, JobOK, Has
  <2>3. job[j].step = "hset" => ~Adds(j, o)
    OBVIOUS
  <2> QED BY <1>2, <2>1, <2>2, <2>3, TakesOffers
<1> QED BY <1>1, <1>2 DEF IInv

\* The lists of the other jobs.
LEMMA OthersRead ==
  ASSUME Shape, NEW j \in Jobs, \A p \in Processes \ {j} : job'[p] = job[p]
  PROVE  /\ j # VenueJob /\ venue_ids' = venue_ids =>
              VenuesRead' /\ After(venue_ids, job[VenueJob].taken)' = After(venue_ids, job[VenueJob].taken)
         /\ j # ErrorJob /\ in_error' = in_error =>
              ErrorsRead' /\ After(in_error, job[ErrorJob].taken)' = After(in_error, job[ErrorJob].taken)
         /\ j # VenueJob => ToSet(job[VenueJob].venues)' = ToSet(job[VenueJob].venues)
         /\ \A r \in Requests : job'[r] = job[r]
<1> USE Disjoint, ExpiredKept
<1>1. /\ j # VenueJob => job'[VenueJob] = job[VenueJob]
      /\ j # ErrorJob => job'[ErrorJob] = job[ErrorJob]
      /\ \A r \in Requests : job'[r] = job[r]
  OBVIOUS
<1>2. j # VenueJob /\ venue_ids' = venue_ids =>
        VenuesRead' /\ After(venue_ids, job[VenueJob].taken)' = After(venue_ids, job[VenueJob].taken)
  BY <1>1 DEF Shape, VenuesRead, After
<1>3. j # ErrorJob /\ in_error' = in_error =>
        ErrorsRead' /\ After(in_error, job[ErrorJob].taken)' = After(in_error, job[ErrorJob].taken)
  BY <1>1 DEF Shape, ErrorsRead, After
<1>4. j # VenueJob => ToSet(job[VenueJob].venues)' = ToSet(job[VenueJob].venues)
  BY <1>1 DEF ToSet
<1> QED BY <1>1, <1>2, <1>3, <1>4

LEMMA PopOfferIdsKeeps ==
  ASSUME IInv, NEW j \in OfferJobs, PopOfferIds(j)
  PROVE  IInv'
<1> USE Disjoint, IdleFacts
<1>t. Shape /\ Typed /\ j \in Jobs /\ j \in Processes  BY DEF IInv, Shape
<1> DEFINE chunk == LrangeTo(offer_ids, OfferChunk - 1)
           new == IF chunk = <<>> THEN Idle ELSE Reading(ToSet(chunk), 0)
<1>q. offer_ids \in Seq(Offers) /\ OfferChunk \in Nat \ {0}
  BY <1>t, TypedJobs, IndexingAssumption
<1>c. /\ chunk \in Seq(Offers) /\ ToSet(chunk) \subseteq Offers
      /\ Len(chunk) = (IF Len(offer_ids) < OfferChunk THEN Len(offer_ids) ELSE OfferChunk)
      /\ ToSet(offer_ids) = ToSet(chunk) \union After(offer_ids, Len(chunk))
  <2>1. OfferChunk - 1 \in Nat /\ (OfferChunk - 1) + 1 = OfferChunk  BY <1>q
  <2>2. /\ chunk \in Seq(Offers)
        /\ Len(chunk) = (IF Len(offer_ids) < OfferChunk THEN Len(offer_ids) ELSE OfferChunk)
        /\ ToSet(offer_ids) = ToSet(chunk) \union After(offer_ids, Len(chunk))
    BY <1>q, <2>1, ReadPart
  <2>3. ToSet(chunk) \subseteq Offers  BY <2>2, AfterNothing
  <2> QED BY <2>2, <2>3
<1>l. /\ Ltrim(offer_ids, OfferChunk) \in Seq(Offers)
      /\ ToSet(offer_ids) \subseteq ToSet(chunk) \union ToSet(Ltrim(offer_ids, OfferChunk))
  <2>1. /\ Ltrim(offer_ids, OfferChunk) \in Seq(Offers)
        /\ After(offer_ids, Len(chunk))
             \subseteq Unread(offer_ids, OfferChunk, Len(chunk)) \union ToSet(Ltrim(offer_ids, OfferChunk))
    <3>1. Len(chunk) \in Nat /\ OfferChunk \in Nat  BY <1>c, <1>q
    <3> HIDE DEF chunk
    <3> QED BY <1>q, <3>1, AfterTrim
  <2>2. Unread(offer_ids, OfferChunk, Len(chunk)) = {}
    BY <1>c, <1>q DEF Unread
  <2> QED BY <1>c, <2>1, <2>2
<1>n. /\ new \in Record /\ new.ids = ToSet(chunk) /\ new.step \in {"idle", "read"} /\ new.venues = <<>>
      /\ new.taken = 0 /\ new.gone = {} /\ DOMAIN new.docs = {}
      /\ new.step = "idle" => new.ids = {}
  <2> HIDE DEF chunk
  <2>1. CASE chunk = <<>>  BY <2>1
  <2>2. CASE chunk # <<>>
    <3> DEFINE S == ToSet(chunk)
    <3>2. new = Reading(S, 0)  BY <2>2
    <3>3. S \in SUBSET Offers  BY <1>c
    <3> HIDE DEF new, S
    <3>4. /\ Reading(S, 0) \in Record /\ Reading(S, 0).step = "read"
          /\ Reading(S, 0).ids = S /\ Reading(S, 0).venues = <<>>
          /\ Reading(S, 0).taken = 0 /\ Reading(S, 0).gone = {}
          /\ DOMAIN Reading(S, 0).docs = {}
      <4>1. 0 \in Nat  OBVIOUS
      <4> QED BY <3>3, <4>1, ReadingFacts, SMTT(30)
    <3>5. /\ new \in Record /\ new.step = "read" /\ new.ids = ToSet(chunk) /\ new.venues = <<>>
          /\ new.taken = 0 /\ new.gone = {} /\ DOMAIN new.docs = {}
      BY <3>2, <3>4 DEF S
    <3> QED BY <3>5
  <2> QED BY <2>1, <2>2
<1>u. /\ UNCHANGED <<database, venue_ids, in_error, indexed, index, changes, faults, accident>>
      /\ offer_ids' = Ltrim(offer_ids, OfferChunk)
      /\ job[j].step \in {"idle", "pop"}
      /\ Take(j, new)
  BY DEF PopOfferIds, At
<1> HIDE DEF new, chunk
<1>1. job'[j] = new /\ \A p \in Processes \ {j} : job'[p] = job[p]
  BY <1>t, <1>u DEF Take, Typed
<1>2. Takes(j, new)
  BY <1>n, <1>t, <1>u, ExpiredKept DEF Takes, Take, database, Typed
<1>3. JobOK(j)'
  BY <1>1, <1>n DEF JobOK
<1>4. /\ offer_ids' \in Seq(Offers) /\ venue_ids' \in Seq(Venues) /\ in_error' \in Seq(Offers)
      /\ VenuesRead' /\ ErrorsRead'
  BY <1>1, <1>l, <1>t, <1>u, OthersRead, TypedJobs
<1>5. ASSUME NEW o \in Offers, Spared(o)'
      PROVE  /\ o \in new.ids => o \notin InHand(j)
             /\ Awaited(o) => Awaited(o)' \/ o \in new.ids
             /\ o \in new.ids => Awaited(o)' \/ Progress(j, o)'
  <2>1. o \in new.ids => o \notin InHand(j)  BY <1>5, <1>u DEF Spared, Take
  <2>2. Awaited(o) => Awaited(o)' \/ o \in new.ids
    <3>1. o \in ToSet(offer_ids) => o \in ToSet(offer_ids') \/ o \in new.ids
      BY <1>l, <1>n, <1>u
    <3>2. /\ After(venue_ids, job[VenueJob].taken)' = After(venue_ids, job[VenueJob].taken)
          /\ After(in_error, job[ErrorJob].taken)' = After(in_error, job[ErrorJob].taken)
          /\ ToSet(job[VenueJob].venues)' = ToSet(job[VenueJob].venues)
          /\ \A r \in Requests : job'[r] = job[r]
      BY <1>1, <1>t, <1>u, OthersRead
    <3>3. expired' = expired  BY <1>u, ExpiredKept DEF database
    <3> QED BY <3>1, <3>2, <3>3 DEF Awaited, Queued
  <2>3. o \in new.ids => Progress(j, o)'
    BY <1>1, <1>n DEF Progress
  <2> QED BY <2>1, <2>2, <2>3
<1>6. accident \subseteq accident' /\ raced \subseteq raced'
  BY <1>u DEF database, Take
<1> QED BY <1>2, <1>3, <1>4, <1>5, <1>6, <1>t, <1>u, TookKeeps

LEMMA EndOfferIdsKeeps ==
  ASSUME IInv, NEW j \in OfferJobs, EndOfferIds(j)
  PROVE  IInv'
<1> USE Disjoint, ExpiredKept, IdleFacts
<1>t. Shape /\ Typed /\ j \in Jobs /\ j \in Processes  BY DEF IInv, Shape
<1> DEFINE new == IF j \notin Commands /\ Len(offer_ids) < OfferChunk THEN Idle
                  ELSE [Idle EXCEPT !.step = "pop"]
<1>n. /\ new \in Record /\ new.ids = {} /\ new.step \in {"idle", "pop"} /\ new.taken = 0
      /\ new.gone = {} /\ DOMAIN new.docs = {}
  BY DEF Record, Steps
<1>u. /\ UNCHANGED <<database, lists, indexed, index, history>>
      /\ job[j].step = "done" /\ job' = [job EXCEPT ![j] = new]
  BY DEF EndOfferIds, At
<1> HIDE DEF new
<1>1. job'[j] = new /\ \A p \in Processes \ {j} : job'[p] = job[p]
  BY <1>t, <1>u DEF Typed
<1>2. Takes(j, new)
  BY <1>n, <1>t, <1>u DEF Takes, database, Typed
<1>3. JobOK(j)'
  BY <1>1, <1>n DEF JobOK
<1>4. /\ offer_ids' \in Seq(Offers) /\ venue_ids' \in Seq(Venues) /\ in_error' \in Seq(Offers)
      /\ VenuesRead' /\ ErrorsRead'
  BY <1>1, <1>t, <1>u, OthersRead, TypedJobs DEF lists
<1>5. ASSUME NEW o \in Offers
      PROVE  Awaited(o) => Awaited(o)'
  <2>1. /\ After(venue_ids, job[VenueJob].taken)' = After(venue_ids, job[VenueJob].taken)
        /\ After(in_error, job[ErrorJob].taken)' = After(in_error, job[ErrorJob].taken)
        /\ ToSet(job[VenueJob].venues)' = ToSet(job[VenueJob].venues)
        /\ \A r \in Requests : job'[r] = job[r]
    BY <1>1, <1>t, <1>u, OthersRead DEF lists
  <2> QED BY <1>u, <2>1 DEF Awaited, Queued, lists, database
<1>6. accident \subseteq accident' /\ raced \subseteq raced'
  BY <1>u DEF database, history
<1> QED BY <1>2, <1>3, <1>4, <1>5, <1>6, <1>n, <1>t, <1>u, TookKeeps
\* Awaiting is kept when what a job has left unread is, and what it had to do.
LEMMA AwaitsKept ==
  ASSUME Shape, NEW j \in Jobs, \A p \in Processes \ {j} : job'[p] = job[p], offer_ids' = offer_ids,
         NEW o \in Offers,
         o \in After(in_error, job[ErrorJob].taken) => o \in After(in_error', job'[ErrorJob].taken),
         VenueOf[o] \in After(venue_ids, job[VenueJob].taken) \union ToSet(job[VenueJob].venues) =>
           VenueOf[o] \in After(venue_ids', job'[VenueJob].taken) \union ToSet(job'[VenueJob].venues),
         o \in expired => o \in expired',
         Awaited(o)
  PROVE  Awaited(o)'
<1> USE Disjoint, ExpiredKept
<1>1. \A r \in Requests : job'[r] = job[r]
  OBVIOUS
<1>2. /\ After(in_error, job[ErrorJob].taken)' = After(in_error', job'[ErrorJob].taken)
      /\ After(venue_ids, job[VenueJob].taken)' = After(venue_ids', job'[VenueJob].taken)
  BY DEF After
<1> QED BY <1>1, <1>2 DEF Awaited, Queued

LEMMA GetVenueIdsKeeps ==
  ASSUME IInv, GetVenueIds
  PROVE  IInv'
<1> USE Disjoint, ExpiredKept, IdleFacts
<1>t. Shape /\ Typed /\ VenueJob \in Jobs /\ VenueJob \in Processes  BY DEF IInv, Shape
<1> DEFINE read == LrangeTo(venue_ids, VenueChunk)
           new == [Idle EXCEPT !.step = "venue", !.venues = read, !.taken = Len(read)]
<1>q. /\ venue_ids \in Seq(Venues) /\ VenueChunk \in Nat  BY <1>t, TypedJobs, IndexingAssumption
<1>r. /\ read \in Seq(Venues) /\ Len(read) \in 0..Len(venue_ids)
      /\ ToSet(read) = {venue_ids[k] : k \in 1..Len(read)}
      /\ ToSet(venue_ids) = ToSet(read) \union After(venue_ids, Len(read))
  BY <1>q, ReadPart
<1>u. /\ UNCHANGED <<database, lists, indexed, index, changes, faults, history>>
      /\ job[VenueJob].step = "idle" /\ job' = [job EXCEPT ![VenueJob] = new]
  BY DEF GetVenueIds, At
<1> HIDE DEF read
<1>n. /\ new \in Record /\ new.ids = {} /\ new.step = "venue" /\ new.venues = read
      /\ new.taken = Len(read) /\ new.gone = {} /\ DOMAIN new.docs = {}
  <2> DEFINE n == Len(read)
  <2>1. n \in Nat  BY <1>r
  <2> HIDE DEF n
  <2>2. LET r == [Idle EXCEPT !.step = "venue", !.venues = read, !.taken = n]
        IN  /\ r \in Record /\ r.ids = {} /\ r.step = "venue" /\ r.venues = read
            /\ r.taken = n /\ r.gone = {} /\ DOMAIN r.docs = {}
    BY <1>r, <2>1 DEF Record, Steps
  <2> QED BY <2>2 DEF n
<1> HIDE DEF new
<1>1. job'[VenueJob] = new /\ \A p \in Processes \ {VenueJob} : job'[p] = job[p]
  BY <1>t, <1>u DEF Typed
<1>2. Takes(VenueJob, new)
  BY <1>n, <1>t, <1>u DEF Takes, database, Typed
<1>3. JobOK(VenueJob)'
  BY <1>1, <1>n DEF JobOK
<1>4. VenuesRead'
  BY <1>1, <1>n, <1>q, <1>r, <1>u DEF VenuesRead, lists
<1>5. /\ offer_ids' \in Seq(Offers) /\ venue_ids' \in Seq(Venues) /\ in_error' \in Seq(Offers)
      /\ ErrorsRead'
  BY <1>1, <1>t, <1>u, OthersRead, TypedJobs DEF lists
<1>6. ASSUME NEW o \in Offers
      PROVE  Awaited(o) => Awaited(o)'
  <2>1. /\ job[VenueJob].taken = 0 /\ ToSet(job[VenueJob].venues) = {}
    BY <1>t, <1>u DEF Shape, JobOK, VenuesRead
  <2>2. After(venue_ids, 0) = ToSet(venue_ids)  BY <1>q, AfterNothing
  <2>3. VenueOf[o] \in After(venue_ids, job[VenueJob].taken) \union ToSet(job[VenueJob].venues) =>
          VenueOf[o] \in After(venue_ids', job'[VenueJob].taken) \union ToSet(job'[VenueJob].venues)
    BY <1>1, <1>n, <1>r, <1>u, <2>1, <2>2 DEF lists
  <2>4. UNCHANGED <<offer_ids, in_error, expired>> /\ job'[ErrorJob] = job[ErrorJob]
    BY <1>1, <1>u DEF lists, database
  <2> QED BY <1>1, <1>t, <2>3, <2>4, AwaitsKept
<1>7. accident \subseteq accident' /\ raced \subseteq raced'
  BY <1>u DEF database, history
<1> QED BY <1>2, <1>3, <1>4, <1>5, <1>6, <1>7, <1>n, <1>t, <1>u, TookKeeps

LEMMA NextVenueKeeps ==
  ASSUME IInv, NextVenue
  PROVE  IInv'
<1> USE Disjoint, ExpiredKept, IdleFacts
<1>t. Shape /\ Typed /\ VenueJob \in Jobs /\ VenueJob \in Processes  BY DEF IInv, Shape
<1> DEFINE todo == job[VenueJob].venues
           ids == OffersOf({Head(todo)})
           new == [Reading(ids, job[VenueJob].taken) EXCEPT !.venues = Tail(todo)]
<1>q. /\ todo \in Seq(Venues) /\ todo # <<>> /\ job[VenueJob].taken \in Nat /\ ids \in SUBSET Offers
  BY <1>t, TypedJobs DEF NextVenue, OffersOf
<1>r. /\ Tail(todo) \in Seq(Venues)
      /\ ToSet(todo) = {Head(todo)} \union ToSet(Tail(todo))
  <2> HIDE DEF todo
  <2>1. /\ Tail(todo) \in Seq(Venues) /\ Len(todo) \in Nat \ {0} /\ Len(Tail(todo)) = Len(todo) - 1
        /\ DOMAIN todo = 1..Len(todo) /\ DOMAIN Tail(todo) = 1..(Len(todo) - 1)
        /\ Head(todo) = todo[1] /\ \A k \in 1..(Len(todo) - 1) : Tail(todo)[k] = todo[k + 1]
    BY <1>q
  <2>2. \A k \in 1..Len(todo) : k = 1 \/ (k - 1 \in 1..(Len(todo) - 1) /\ (k - 1) + 1 = k)
    BY <2>1
  <2>3. \A k \in 1..(Len(todo) - 1) : k + 1 \in 1..Len(todo)
    BY <2>1
  <2>4. 1 \in 1..Len(todo)  BY <2>1
  <2>5. ToSet(todo) \subseteq {Head(todo)} \union ToSet(Tail(todo))
    <3> SUFFICES ASSUME NEW k \in 1..Len(todo)
                 PROVE  todo[k] \in {Head(todo)} \union ToSet(Tail(todo))
      BY <2>1 DEF ToSet
    <3>1. CASE k = 1  BY <2>1, <3>1
    <3>2. CASE k # 1
      <4>1. Tail(todo)[k - 1] = todo[k]  BY <2>1, <2>2, <3>2
      <4> QED BY <2>1, <2>2, <3>2, <4>1 DEF ToSet
    <3> QED BY <3>1, <3>2
  <2>6. {Head(todo)} \union ToSet(Tail(todo)) \subseteq ToSet(todo)
    BY <2>1, <2>3, <2>4 DEF ToSet
  <2> QED BY <2>1, <2>5, <2>6
<1>u. /\ UNCHANGED <<database, lists, indexed, index, changes, faults, accident>>
      /\ job[VenueJob].step \in {"venue", "done"} /\ Take(VenueJob, new)
  BY DEF NextVenue, At
<1>n. /\ new \in Record /\ new.ids = ids /\ new.step = "read" /\ new.venues = Tail(todo)
      /\ new.taken = job[VenueJob].taken /\ new.gone = {} /\ DOMAIN new.docs = {}
  <2> DEFINE n == job[VenueJob].taken
             rest == Tail(todo)
  <2>1. new = WithVenues(ids, n, rest)  BY DEF WithVenues
  <2>2. ids \in SUBSET Offers /\ n \in Nat /\ rest \in Seq(Venues)  BY <1>q, <1>r
  <2> HIDE DEF ids, n, rest, new
  <2> DEFINE r == WithVenues(ids, n, rest)
  <2>3. /\ r \in Record /\ r.step = "read" /\ r.ids = ids /\ r.venues = rest
        /\ r.taken = n /\ r.gone = {} /\ DOMAIN r.docs = {}
    BY <2>2, ReadingWithVenues
  <2>4. new = r  BY <2>1
  <2> HIDE DEF r
  <2>5. rest = Tail(todo) /\ n = job[VenueJob].taken  BY DEF rest, n
  <2> QED BY <2>3, <2>4, <2>5
<1>i. \A o \in Offers : o \in ids <=> VenueOf[o] = Head(todo)
  BY DEF OffersOf
<1> HIDE DEF new, ids
<1>1. job'[VenueJob] = new /\ \A p \in Processes \ {VenueJob} : job'[p] = job[p]
  BY <1>t, <1>u DEF Typed, Take
<1>2. Takes(VenueJob, new)
  BY <1>n, <1>t, <1>u DEF Takes, Take, database, Typed
<1>3. JobOK(VenueJob)'
  BY <1>1, <1>n DEF JobOK
<1>4. VenuesRead'
  <2>1. \A v \in ToSet(todo) : \E k \in 1..job[VenueJob].taken : venue_ids[k] = v
    BY <1>t DEF Shape, VenuesRead
  <2>2. job[VenueJob].taken <= Len(venue_ids)  BY <1>t DEF Shape, VenuesRead
  <2>3. venue_ids' = venue_ids  BY <1>u DEF lists
  <2>4. \A o \in ids : VenueOf[o] \in ToSet(todo)
    BY <1>i, <1>q, <1>r
  <2>5. /\ new.taken <= Len(venue_ids)
        /\ \A v \in ToSet(new.venues) : \E k \in 1..new.taken : venue_ids[k] = v
        /\ \A o \in new.ids : \E k \in 1..new.taken : venue_ids[k] = VenueOf[o]
    BY <1>n, <1>r, <2>1, <2>2, <2>4
  <2> QED BY <1>1, <2>3, <2>5 DEF VenuesRead
<1>5. /\ offer_ids' \in Seq(Offers) /\ venue_ids' \in Seq(Venues) /\ in_error' \in Seq(Offers)
      /\ ErrorsRead'
  BY <1>1, <1>t, <1>u, OthersRead, TypedJobs DEF lists
<1>6. ASSUME NEW o \in Offers, Spared(o)'
      PROVE  /\ o \in new.ids => o \notin InHand(VenueJob)
             /\ Awaited(o) => Awaited(o)' \/ o \in new.ids
             /\ o \in new.ids => Awaited(o)' \/ Progress(VenueJob, o)'
  <2>1. o \in new.ids => o \notin InHand(VenueJob)  BY <1>6, <1>u DEF Spared, Take
  <2>2. Awaited(o) => Awaited(o)' \/ o \in new.ids
    <3> SUFFICES ASSUME o \notin new.ids, Awaited(o)  PROVE Awaited(o)'
      OBVIOUS
    <3>1. VenueOf[o] \in After(venue_ids, job[VenueJob].taken) \union ToSet(job[VenueJob].venues) =>
            VenueOf[o] \in After(venue_ids', job'[VenueJob].taken) \union ToSet(job'[VenueJob].venues)
      BY <1>1, <1>i, <1>n, <1>r, <1>u DEF lists
    <3>2. UNCHANGED <<offer_ids, in_error, expired>> /\ job'[ErrorJob] = job[ErrorJob]
      BY <1>1, <1>u DEF lists, database
    <3> QED BY <1>1, <1>t, <3>1, <3>2, AwaitsKept
  <2>3. Progress(VenueJob, o)'
    BY <1>1, <1>n DEF Progress
  <2> QED BY <2>1, <2>2, <2>3
<1>7. accident \subseteq accident' /\ raced \subseteq raced'
  BY <1>u DEF database, Take
<1> QED BY <1>2, <1>3, <1>4, <1>5, <1>6, <1>7, <1>t, <1>u, TookKeeps
LEMMA DeleteVenueIdsKeeps ==
  ASSUME IInv, DeleteVenueIds
  PROVE  IInv'
<1> USE Disjoint, ExpiredKept, IdleFacts
<1>t. Shape /\ Typed /\ VenueJob \in Jobs /\ VenueJob \in Processes  BY DEF IInv, Shape
<1> DEFINE taken == job[VenueJob].taken
<1>q. /\ venue_ids \in Seq(Venues) /\ VenueChunk \in Nat /\ taken \in Nat
  BY <1>t, TypedJobs, IndexingAssumption
<1> HIDE DEF taken
<1>l. /\ Ltrim(venue_ids, VenueChunk) \in Seq(Venues)
      /\ After(venue_ids, taken) \subseteq Unread(venue_ids, VenueChunk, taken) \union ToSet(Ltrim(venue_ids, VenueChunk))
      /\ After(Ltrim(venue_ids, VenueChunk), 0) = ToSet(Ltrim(venue_ids, VenueChunk))
  <2> DEFINE rest == Ltrim(venue_ids, VenueChunk)
  <2>1. /\ rest \in Seq(Venues)
        /\ After(venue_ids, taken) \subseteq Unread(venue_ids, VenueChunk, taken) \union ToSet(rest)
    BY <1>q, AfterTrim
  <2> HIDE DEF rest
  <2>2. After(rest, 0) = ToSet(rest)  BY <2>1, AfterNothing
  <2> QED BY <2>1, <2>2 DEF rest
<1>u. /\ UNCHANGED <<database, offer_ids, in_error, indexed, index, changes, faults, raced>>
      /\ job[VenueJob].step = "done" /\ job[VenueJob].venues = <<>>
      /\ job' = [job EXCEPT ![VenueJob] = Idle]
      /\ venue_ids' = Ltrim(venue_ids, VenueChunk)
      /\ Lose(OffersOf(Unread(venue_ids, VenueChunk, taken)))
  BY DEF DeleteVenueIds, At, taken
<1>1. job'[VenueJob] = Idle /\ \A p \in Processes \ {VenueJob} : job'[p] = job[p]
  BY <1>t, <1>u DEF Typed
<1>2. Takes(VenueJob, Idle)
  BY <1>t, <1>u DEF Takes, database, Typed
<1>3. JobOK(VenueJob)'
  BY <1>1 DEF JobOK
<1>4. VenuesRead'
  <2>1. Len(venue_ids') \in Nat  BY <1>l, <1>u
  <2> QED BY <1>1, <2>1 DEF VenuesRead
<1>5. /\ offer_ids' \in Seq(Offers) /\ venue_ids' \in Seq(Venues) /\ in_error' \in Seq(Offers)
      /\ ErrorsRead'
  BY <1>1, <1>l, <1>t, <1>u, OthersRead, TypedJobs
<1>6. ASSUME NEW o \in Offers, Spared(o)'
      PROVE  Awaited(o) => Awaited(o)'
  <2>1. VenueOf[o] \notin Unread(venue_ids, VenueChunk, taken)
    BY <1>6, <1>u DEF Spared, Lose, OffersOf
  <2>2. VenueOf[o] \in After(venue_ids, job[VenueJob].taken) \union ToSet(job[VenueJob].venues) =>
          VenueOf[o] \in After(venue_ids', job'[VenueJob].taken) \union ToSet(job'[VenueJob].venues)
    BY <1>1, <1>l, <1>u, <2>1 DEF taken
  <2>3. UNCHANGED <<offer_ids, in_error, expired>> /\ job'[ErrorJob] = job[ErrorJob]
    BY <1>1, <1>u DEF database
  <2> QED BY <1>1, <1>t, <2>2, <2>3, AwaitsKept
<1>7. accident \subseteq accident' /\ raced \subseteq raced'
  BY <1>u DEF database, Lose
<1> QED BY <1>2, <1>3, <1>4, <1>5, <1>6, <1>7, <1>t, <1>u, TookKeeps

LEMMA GetOfferIdsInErrorKeeps ==
  ASSUME IInv, GetOfferIdsInError
  PROVE  IInv'
<1> USE Disjoint, ExpiredKept, IdleFacts
<1>t. Shape /\ Typed /\ ErrorJob \in Jobs /\ ErrorJob \in Processes  BY DEF IInv, Shape
<1> DEFINE read == LrangeTo(in_error, OfferChunk)
           ids == ToSet(read)
           n == Len(read)
           new == Reading(ids, n)
<1>q. /\ in_error \in Seq(Offers) /\ OfferChunk \in Nat  BY <1>t, TypedJobs, IndexingAssumption
<1>r. /\ read \in Seq(Offers) /\ n \in 0..Len(in_error) /\ n \in Nat
      /\ ids = {in_error[k] : k \in 1..n}
      /\ ToSet(in_error) = ids \union After(in_error, n)
  BY <1>q, ReadPart
<1>s. ids \in SUBSET Offers
  <2> HIDE DEF read
  <2> QED BY <1>r, AfterNothing
<1>u. /\ UNCHANGED <<database, lists, indexed, index, changes, faults, accident>>
      /\ job[ErrorJob].step = "idle" /\ Take(ErrorJob, new)
  BY DEF GetOfferIdsInError, At
<1> HIDE DEF read, ids, n
<1>n. /\ new \in Record /\ new.ids = ids /\ new.step = "read" /\ new.venues = <<>>
      /\ new.taken = n /\ new.gone = {} /\ DOMAIN new.docs = {}
  <2>1. /\ Reading(ids, n) \in Record /\ Reading(ids, n).step = "read"
        /\ Reading(ids, n).ids = ids /\ Reading(ids, n).venues = <<>>
        /\ Reading(ids, n).taken = n /\ Reading(ids, n).gone = {}
        /\ DOMAIN Reading(ids, n).docs = {}
    BY <1>r, <1>s, ReadingFacts
  <2> QED BY <2>1
<1> HIDE DEF new
<1>1. job'[ErrorJob] = new /\ \A p \in Processes \ {ErrorJob} : job'[p] = job[p]
  BY <1>t, <1>u DEF Typed, Take
<1>2. Takes(ErrorJob, new)
  BY <1>n, <1>t, <1>u DEF Takes, Take, database, Typed
<1>3. JobOK(ErrorJob)'
  BY <1>1, <1>n DEF JobOK
<1>4. ErrorsRead'
  <2>1. Len(in_error) \in Nat /\ n <= Len(in_error) /\ in_error' = in_error
    BY <1>q, <1>r, <1>u DEF lists
  <2>2. \A o \in ids : \E k \in 1..n : in_error[k] = o
    BY <1>r
  <2> QED BY <1>1, <1>n, <2>1, <2>2 DEF ErrorsRead
<1>5. /\ offer_ids' \in Seq(Offers) /\ venue_ids' \in Seq(Venues) /\ in_error' \in Seq(Offers)
      /\ VenuesRead'
  BY <1>1, <1>t, <1>u, OthersRead, TypedJobs DEF lists
<1>6. ASSUME NEW o \in Offers, Spared(o)'
      PROVE  /\ o \in new.ids => o \notin InHand(ErrorJob)
             /\ Awaited(o) => Awaited(o)' \/ o \in new.ids
             /\ o \in new.ids => Awaited(o)' \/ Progress(ErrorJob, o)'
  <2>1. o \in new.ids => o \notin InHand(ErrorJob)  BY <1>6, <1>u DEF Spared, Take
  <2>2. Awaited(o) => Awaited(o)' \/ o \in new.ids
    <3> SUFFICES ASSUME o \notin new.ids, Awaited(o)  PROVE Awaited(o)'
      OBVIOUS
    <3>1. o \in After(in_error, job[ErrorJob].taken) => o \in After(in_error', job'[ErrorJob].taken)
      <4>1. job[ErrorJob].taken = 0 /\ After(in_error, 0) = ToSet(in_error)
        BY <1>q, <1>t, <1>u, AfterNothing DEF Shape, JobOK
      <4> QED BY <1>1, <1>n, <1>r, <1>u, <4>1 DEF lists
    <3>2. UNCHANGED <<offer_ids, venue_ids, expired>> /\ job'[VenueJob] = job[VenueJob]
      BY <1>1, <1>u DEF lists, database
    <3> QED BY <1>1, <1>t, <3>1, <3>2, AwaitsKept
  <2>3. Progress(ErrorJob, o)'
    BY <1>1, <1>n DEF Progress
  <2> QED BY <2>1, <2>2, <2>3
<1>7. accident \subseteq accident' /\ raced \subseteq raced'
  BY <1>u DEF database, Take
<1> QED BY <1>2, <1>3, <1>4, <1>5, <1>6, <1>7, <1>t, <1>u, TookKeeps

LEMMA DeleteOfferIdsInErrorKeeps ==
  ASSUME IInv, DeleteOfferIdsInError
  PROVE  IInv'
<1> USE Disjoint, ExpiredKept, IdleFacts
<1>t. Shape /\ Typed /\ ErrorJob \in Jobs /\ ErrorJob \in Processes  BY DEF IInv, Shape
<1> DEFINE taken == job[ErrorJob].taken
<1>q. /\ in_error \in Seq(Offers) /\ ErrorChunk \in Nat /\ taken \in Nat
  BY <1>t, TypedJobs, IndexingAssumption
<1> HIDE DEF taken
<1>l. /\ Ltrim(in_error, ErrorChunk) \in Seq(Offers)
      /\ After(in_error, taken) \subseteq Unread(in_error, ErrorChunk, taken) \union ToSet(Ltrim(in_error, ErrorChunk))
      /\ After(Ltrim(in_error, ErrorChunk), 0) = ToSet(Ltrim(in_error, ErrorChunk))
  <2> DEFINE rest == Ltrim(in_error, ErrorChunk)
  <2>1. /\ rest \in Seq(Offers)
        /\ After(in_error, taken) \subseteq Unread(in_error, ErrorChunk, taken) \union ToSet(rest)
    BY <1>q, AfterTrim
  <2> HIDE DEF rest
  <2>2. After(rest, 0) = ToSet(rest)  BY <2>1, AfterNothing
  <2> QED BY <2>1, <2>2 DEF rest
<1>u. /\ UNCHANGED <<database, offer_ids, venue_ids, indexed, index, changes, faults, raced>>
      /\ job[ErrorJob].step = "done"
      /\ job' = [job EXCEPT ![ErrorJob] = Idle]
      /\ in_error' = Ltrim(in_error, ErrorChunk)
      /\ Lose(Unread(in_error, ErrorChunk, taken))
  BY DEF DeleteOfferIdsInError, At, taken
<1>1. job'[ErrorJob] = Idle /\ \A p \in Processes \ {ErrorJob} : job'[p] = job[p]
  BY <1>t, <1>u DEF Typed
<1>2. Takes(ErrorJob, Idle)
  BY <1>t, <1>u DEF Takes, database, Typed
<1>3. JobOK(ErrorJob)'
  BY <1>1 DEF JobOK
<1>4. ErrorsRead'
  <2>1. Len(in_error') \in Nat  BY <1>l, <1>u
  <2> QED BY <1>1, <2>1 DEF ErrorsRead
<1>5. /\ offer_ids' \in Seq(Offers) /\ venue_ids' \in Seq(Venues) /\ in_error' \in Seq(Offers)
      /\ VenuesRead'
  BY <1>1, <1>l, <1>t, <1>u, OthersRead, TypedJobs
<1>6. ASSUME NEW o \in Offers, Spared(o)'
      PROVE  Awaited(o) => Awaited(o)'
  <2>1. o \notin Unread(in_error, ErrorChunk, taken)
    BY <1>6, <1>u DEF Spared, Lose
  <2>2. o \in After(in_error, job[ErrorJob].taken) => o \in After(in_error', job'[ErrorJob].taken)
    BY <1>1, <1>l, <1>u, <2>1 DEF taken
  <2>3. UNCHANGED <<offer_ids, venue_ids, expired>> /\ job'[VenueJob] = job[VenueJob]
    BY <1>1, <1>u DEF database
  <2> QED BY <1>1, <1>t, <2>2, <2>3, AwaitsKept
<1>7. accident \subseteq accident' /\ raced \subseteq raced'
  BY <1>u DEF database, Lose
<1> QED BY <1>2, <1>3, <1>4, <1>5, <1>6, <1>7, <1>t, <1>u, TookKeeps

\* A night less: what is expired no more was on its last night.
LEMMA NightPasses ==
  ASSUME Typed, OneNightLess
  PROVE  /\ nights' \in [Offers -> 0..Window] /\ expired' \subseteq expired
         /\ \A o \in expired : o \in expired' \/ o \in LastNight
<1>1. \A o \in Offers : nights[o] \in 0..Window /\ nights'[o] = IF nights[o] > 0 THEN nights[o] - 1 ELSE 0
  BY DEF Typed, OneNightLess
<1>2. \A o \in Offers : nights'[o] \in 0..Window
  BY <1>1 DEF Window
<1>3. \A o \in Offers : nights'[o] > 0 => nights[o] > 0
  BY <1>1 DEF Window
<1>4. \A o \in Offers : nights[o] > 0 => nights'[o] > 0 \/ nights[o] = 1
  BY <1>1 DEF Window
<1> QED BY <1>2, <1>3, <1>4 DEF OneNightLess, expired, LastNight

LEMMA MissNightKeeps ==
  ASSUME IInv, MissNight
  PROVE  IInv'
<1> USE Disjoint
<1>t. Shape /\ Typed  BY DEF IInv, Shape
<1>u. /\ UNCHANGED <<bookable, address, offer_ids, venue_ids, in_error, indexed, index, job, raced>>
      /\ accident' = accident \union LastNight
  BY DEF MissNight, lists, Lose
<1>n. /\ nights' \in [Offers -> 0..Window] /\ expired' \subseteq expired
      /\ \A o \in expired : o \in expired' \/ o \in LastNight
  BY <1>t, NightPasses DEF MissNight
<1>1. Shape'
  <2>1. \A o \in expired' : ~bookable'[o]  BY <1>n, <1>t, <1>u DEF Shape
  <2>2. /\ bookable' \in [Offers -> BOOLEAN] /\ address' \in [Venues -> Addresses]
        /\ offer_ids' \in Seq(Offers) /\ job' \in [Processes -> Record]
        /\ venue_ids' \in Seq(Venues) /\ Len(venue_ids') >= Len(venue_ids)
        /\ \A k \in 1..Len(venue_ids) : venue_ids'[k] = venue_ids[k]
        /\ \A j \in Jobs : job'[j] = job[j]
    BY <1>t, <1>u DEF Typed
  <2>3. \A q \in Requests : RequestOK(q)'  BY <1>t, <1>u DEF RequestOK, Shape
  <2> QED BY <1>n, <1>t, <1>u, <2>1, <2>2, <2>3, RequestShape
<1>2. \A o \in Offers : Spared(o)' => Watched(o)'
  <2> TAKE o \in Offers
  <2> HAVE Spared(o)'
  <2>1. Spared(o) /\ o \notin LastNight /\ \A j \in Jobs : job'[j] = job[j]  BY <1>u DEF Spared
  <2>2. Queued(o)' = Queued(o)  BY <1>u DEF Queued
  <2>3. (Awaited(o) => Awaited(o)') /\ Document(o)' = Document(o)
    BY <1>n, <1>u, <2>1, <2>2 DEF Awaited, Document
  <2> QED BY <1>u, <2>1, <2>3, QuietOffers
<1> QED BY <1>1, <1>2 DEF IInv

LEMMA GetExpiredOffersKeeps ==
  ASSUME IInv, GetExpiredOffers
  PROVE  IInv'
<1> USE Disjoint, IdleFacts
<1>t. Shape /\ Typed /\ ExpiryJob \in Jobs /\ ExpiryJob \in Processes  BY DEF IInv, Shape
<1>p. PICK known \in {indexed, {}} :
        /\ Take(ExpiryJob, [Idle EXCEPT !.step = "delete", !.ids = expired, !.gone = expired \intersect known])
        /\ IF known = indexed THEN UNCHANGED <<faults, accident>> ELSE Fault /\ Lose(LastNight)
  BY DEF GetExpiredOffers
<1> DEFINE gone == expired \intersect known
           new == [Idle EXCEPT !.step = "delete", !.ids = expired, !.gone = gone]
<1>s. expired \in SUBSET Offers /\ gone \in SUBSET Offers  BY ExpiredKept
<1>u. /\ UNCHANGED <<bookable, address, offer_ids, venue_ids, in_error, indexed, index>>
      /\ job[ExpiryJob].step = "idle" /\ Take(ExpiryJob, new)
      /\ accident \subseteq accident' /\ (known # indexed => LastNight \subseteq accident')
  BY <1>p DEF GetExpiredOffers, At, Lose, lists
<1>e. /\ nights' \in [Offers -> 0..Window] /\ expired' \subseteq expired
      /\ \A o \in expired : o \in expired' \/ o \in LastNight
  BY <1>t, NightPasses DEF GetExpiredOffers
<1>g. gone = expired \intersect known  OBVIOUS
<1> HIDE DEF gone
<1>n. /\ new \in Record /\ new.ids = expired /\ new.step = "delete" /\ new.gone = gone
      /\ new.taken = 0 /\ DOMAIN new.docs = {} /\ new.venues = <<>>
  BY <1>s DEF Record, Steps
<1> HIDE DEF new
<1>1. job'[ExpiryJob] = new /\ \A p \in Processes \ {ExpiryJob} : job'[p] = job[p]
  BY <1>t, <1>u DEF Typed, Take
<1>2. Takes(ExpiryJob, new)
  BY <1>e, <1>n, <1>u DEF Takes, Take
<1>3. JobOK(ExpiryJob)'
  BY <1>1, <1>g, <1>n DEF JobOK
<1>5. /\ offer_ids' \in Seq(Offers) /\ venue_ids' \in Seq(Venues) /\ in_error' \in Seq(Offers)
      /\ VenuesRead' /\ ErrorsRead'
  BY <1>1, <1>t, <1>u, OthersRead, TypedJobs
<1>6. ASSUME NEW o \in Offers, Spared(o)'
      PROVE  /\ o \in new.ids => o \notin InHand(ExpiryJob)
             /\ Awaited(o) => Awaited(o)' \/ o \in new.ids
             /\ o \in new.ids => Awaited(o)' \/ Progress(ExpiryJob, o)'
  <2>1. o \in new.ids => o \notin InHand(ExpiryJob)  BY <1>6, <1>u DEF Spared, Take
  <2>2. Awaited(o) => Awaited(o)' \/ o \in new.ids
    <3> SUFFICES ASSUME o \notin new.ids, Awaited(o)  PROVE Awaited(o)'
      OBVIOUS
    <3>1. job'[VenueJob] = job[VenueJob] /\ job'[ErrorJob] = job[ErrorJob]
      BY <1>1
    <3> QED BY <1>1, <1>n, <1>t, <1>u, <3>1, AwaitsKept
  <2>3. ASSUME o \in new.ids  PROVE Awaited(o)' \/ Progress(ExpiryJob, o)'
    <3>1. o \in expired /\ Document(o) = Absent  BY <1>n, <1>t, <2>3 DEF Shape, Document
    <3>2. Watched(o)  BY <1>6, <1>u DEF IInv, Spared, Take
    <3>3. \A j \in Jobs : job[j].step = "hset" => ~Adds(j, o)
      <4>1. \A j \in Jobs \ {ExpiryJob} : ~Adds(j, o)
        BY <1>t, <2>1, <2>3 DEF InHand, Adds, Shape, JobOK
      <4> QED BY <1>u, <4>1
    <3>4. index[o] # Absent => o \in indexed
      BY <3>2, <3>3 DEF Watched, Known
    <3>5. Document(o)' = Document(o)  BY <1>u DEF Document
    <3>6. CASE known = indexed
      <4>1. Deletes(ExpiryJob, o)' <=> o \in indexed
        BY <1>1, <1>g, <1>n, <3>1, <3>6 DEF Deletes
      <4> QED BY <1>1, <1>n, <1>u, <3>1, <3>4, <3>5, <4>1 DEF Progress
    <3>7. CASE known # indexed
      <4>1. o \in expired'  BY <1>6, <1>e, <1>u, <3>1, <3>7 DEF Spared
      <4> QED BY <4>1 DEF Awaited
    <3> QED BY <3>6, <3>7
  <2> QED BY <2>1, <2>2, <2>3
<1>7. accident \subseteq accident' /\ raced \subseteq raced'
  BY <1>u DEF Take
<1> QED BY <1>2, <1>3, <1>5, <1>6, <1>7, <1>t, <1>u, TookKeeps

LEMMA EndExpiredKeeps ==
  ASSUME IInv, EndExpired
  PROVE  IInv'
<1> USE Disjoint, ExpiredKept, IdleFacts
<1>t. Shape /\ Typed /\ ExpiryJob \in Jobs /\ ExpiryJob \in Processes  BY DEF IInv, Shape
<1>u. /\ UNCHANGED <<database, lists, indexed, index, changes, faults, history>>
      /\ job[ExpiryJob].step = "done" /\ job' = [job EXCEPT ![ExpiryJob] = Idle]
  BY DEF EndExpired, At
<1>1. job'[ExpiryJob] = Idle /\ \A p \in Processes \ {ExpiryJob} : job'[p] = job[p]
  BY <1>t, <1>u DEF Typed
<1>2. Takes(ExpiryJob, Idle)
  BY <1>t, <1>u DEF Takes, database, Typed
<1>3. JobOK(ExpiryJob)'
  BY <1>1 DEF JobOK
<1>5. /\ offer_ids' \in Seq(Offers) /\ venue_ids' \in Seq(Venues) /\ in_error' \in Seq(Offers)
      /\ VenuesRead' /\ ErrorsRead'
  BY <1>1, <1>t, <1>u, OthersRead, TypedJobs DEF lists
<1>6. ASSUME NEW o \in Offers
      PROVE  Awaited(o) => Awaited(o)'
  <2>1. job'[VenueJob] = job[VenueJob] /\ job'[ErrorJob] = job[ErrorJob]
    BY <1>1
  <2>2. UNCHANGED <<offer_ids, venue_ids, in_error, expired>>  BY <1>u DEF lists, database
  <2> QED BY <1>1, <1>t, <1>u, <2>1, <2>2, AwaitsKept
<1>7. accident \subseteq accident' /\ raced \subseteq raced'
  BY <1>u DEF history
<1> QED BY <1>2, <1>3, <1>5, <1>6, <1>7, <1>t, <1>u, TookKeeps
-----------------------------------------------------------------------------
(* The theorems.                                                            *)

LEMMA InitHolds == Init => IInv
<1> SUFFICES ASSUME Init PROVE IInv
  OBVIOUS
<1> USE Disjoint, ExpiredKept, IdleFacts
<1>1. Typed
  <2>1. <<>> \in Seq(Offers) /\ <<>> \in Seq(Venues)  OBVIOUS
  <2>2. \A o \in Offers : address[VenueOf[o]] \in Addresses
    BY IndexingAssumption DEF Init
  <2> QED BY <2>1, <2>2 DEF Init, Typed, Window
<1>2. \A p \in Processes : job[p] = Idle  BY DEF Init
<1>3. \A j \in Jobs : JobOK(j)  BY <1>2 DEF JobOK
<1>4. \A r \in Requests : RequestOK(r)  BY <1>2 DEF RequestOK
<1>5. VenuesRead /\ ErrorsRead
  <2>1. job[VenueJob] = Idle /\ job[ErrorJob] = Idle /\ Len(venue_ids) = 0 /\ Len(in_error) = 0
    BY <1>2 DEF Init
  <2> QED BY <2>1 DEF VenuesRead, ErrorsRead
<1>6. \A o \in expired : ~bookable[o]  BY DEF Init, expired
<1>7. ASSUME NEW o \in Offers  PROVE Watched(o)
  <2>1. \A j \in Jobs : ~Has(j, o) /\ job[j].step = "idle"  BY <1>2 DEF Has
  <2>2. index[o] = Document(o) /\ o \in indexed  BY DEF Init, Document
  <2> QED BY <2>1, <2>2 DEF Watched, ByOne, Known, Gone, Followed
<1> QED BY <1>1, <1>3, <1>4, <1>5, <1>6, <1>7 DEF IInv, Shape

LEMMA ProcessKeeps ==
  ASSUME IInv, NEW j \in Jobs, Process(j)
  PROVE  IInv'
BY ReadOffersKeeps, AddObjectsKeeps, AddingFailsKeeps, ExecutePipelineKeeps, DeleteObjectsKeeps,
   DeletingFailsKeeps, DeleteIndexedOffersKeeps DEF Process

LEMMA NextKeeps == IInv /\ [Next]_vars => IInv'
<1> SUFFICES ASSUME IInv, [Next]_vars PROVE IInv'
  OBVIOUS
<1> USE Disjoint, ExpiredKept
<1>1. CASE \E r \in Requests : \/ \E o \in Offers : ChangeOffer(r, o)
                               \/ \E v \in Venues : ChangeVenue(r, v)
                               \/ Push(r)
  BY <1>1, ChangeOfferKeeps, ChangeVenueKeeps, PushKeeps
<1>2. CASE \E o \in Offers : PassLimit(o)
  BY <1>2, PassLimitKeeps
<1>3. CASE \E j \in OfferJobs : IndexByOffer(j)
  BY <1>3, PopOfferIdsKeeps, ProcessKeeps, EndOfferIdsKeeps DEF IndexByOffer
<1>4. CASE IndexByVenue
  BY <1>4, GetVenueIdsKeeps, NextVenueKeeps, ProcessKeeps, DeleteVenueIdsKeeps DEF IndexByVenue
<1>5. CASE IndexInError
  BY <1>5, GetOfferIdsInErrorKeeps, ProcessKeeps, DeleteOfferIdsInErrorKeeps DEF IndexInError
<1>6. CASE DeleteExpired
  BY <1>6, GetExpiredOffersKeeps, ProcessKeeps, EndExpiredKeeps DEF DeleteExpired
<1>7. CASE \E j \in Jobs : Crash(j)
  BY <1>7, CrashKeeps
<1>8. CASE MissNight
  BY <1>8, MissNightKeeps
<1>9. CASE UNCHANGED vars
  BY <1>9, ExpiredKept DEF vars, database, lists, history, IInv, Shape, Typed, JobOK, RequestOK, VenuesRead,
     ErrorsRead, Spared, Watched, ByOne, Known, Gone, Followed, Awaited, Queued, After, Progress,
     Has, Adds, Deletes, Document
<1> QED BY <1>1, <1>2, <1>3, <1>4, <1>5, <1>6, <1>7, <1>8, <1>9 DEF Next

\* Whatever requests, jobs and failures do, the invariant holds.
THEOREM Inductive == Spec => []IInv
BY InitHolds, NextKeeps, PTL DEF Spec

\* What the index says of an offer is what the database says, unless the offer
\* is queued, in error, in hand or to be found by the job of a coming night: no
\* interleaving of the requests with the jobs that read and trim the lists of
\* Redis loses track of one, save for a failure (of the last night of the two,
\* if it expired), an unread element trimmed, or two jobs on it at once.
THEOREM StaleAreTracked == Spec => []StaleOffersAreTracked
<1>1. IInv => StaleOffersAreTracked
  <2> SUFFICES ASSUME IInv, NEW o \in Offers, Spared(o), ~Tracked(o)  PROVE index[o] = Document(o)
    BY DEF StaleOffersAreTracked
  <2>1. Typed /\ Watched(o)  BY DEF IInv, Shape
  <2>2. \A p \in Processes : o \notin job[p].ids /\ VenueOf[o] \notin ToSet(job[p].venues)
    BY DEF Tracked, OffersOf
  <2>3. After(in_error, job[ErrorJob].taken) \subseteq ToSet(in_error)
        /\ After(venue_ids, job[VenueJob].taken) \subseteq ToSet(venue_ids)
    BY <2>1, TypedJobs, Disjoint DEF After, ToSet
  <2>4. /\ o \notin ToSet(offer_ids) \union ToSet(in_error) \union expired
        /\ VenueOf[o] \notin ToSet(venue_ids)
    BY DEF Tracked, OffersOf
  <2>5. ~Awaited(o)  BY <2>2, <2>3, <2>4, Disjoint DEF Awaited, Queued
  <2>6. \A j \in Jobs : ~Has(j, o)  BY <2>2, Disjoint DEF Has
  <2> QED BY <2>1, <2>5, <2>6 DEF Watched, Followed
<1> QED BY <1>1, Inductive, PTL

\* An offer in the index can be deleted from it: the hashmap of indexed offers
\* has it, or a job that has just added it is about to record it.
THEOREM IndexedAreKnown == Spec => []IndexedOffersAreKnown
<1>1. IInv => IndexedOffersAreKnown
  <2> SUFFICES ASSUME IInv, NEW o \in Offers, Spared(o), index[o] # Absent
               PROVE  o \in indexed \/ \E j \in Jobs : o \in job[j].ids
    BY DEF IndexedOffersAreKnown
  <2>1. Watched(o)  BY DEF IInv
  <2>2. \A j \in Jobs : Adds(j, o) => o \in job[j].ids  BY DEF IInv, Shape, JobOK, Adds
  <2> QED BY <2>1, <2>2 DEF Watched, Known
<1> QED BY <1>1, Inductive, PTL
=============================================================================
