------------------------------ MODULE Indexing ------------------------------
(***************************************************************************)
(* The search index.  A request commits a change, then queues the offer,   *)
(* or its venue, in Redis (src/pcapi/connectors/redis.py); cron jobs       *)
(* (src/pcapi/scheduled_tasks/algolia_clock.py) take them from there, read *)
(* the database and add to Algolia or delete from it                       *)
(* (src/pcapi/algolia/usecase/orchestrator.py).                            *)
(***************************************************************************)
EXTENDS Naturals, FiniteSets, SequencesExt

CONSTANTS
  Offers, Venues, VenueOf, \* [Offers -> Venues]
  Addresses,   \* what a document says of the venue of its offer
  Requests,    \* endpoints that change offers and venues
  OfferJobs,   \* index_offers_in_algolia_by_offer, up to max_instances at a time
  Commands,    \* those of them run by hand: stop_only_when_empty
  VenueJob, ErrorJob, ExpiryJob,
  OfferChunk, VenueChunk, ErrorChunk, \* REDIS_..._CHUNK_SIZE
  Absent,      \* from the index
  MaxChanges,  \* bounds the changes of offers and venues
  MaxFaults    \* bounds the failures of Redis and Algolia, and the kills

ASSUME IndexingAssumption ==
  /\ IsFiniteSet(Offers)
  /\ VenueOf \in [Offers -> Venues] /\ Absent \notin Addresses
  /\ Commands \subseteq OfferJobs
  /\ Requests \intersect (OfferJobs \union {VenueJob, ErrorJob, ExpiryJob}) = {}
  /\ {VenueJob, ErrorJob, ExpiryJob} \intersect OfferJobs = {}
  /\ VenueJob # ErrorJob /\ VenueJob # ExpiryJob /\ ErrorJob # ExpiryJob
  /\ OfferChunk \in Nat \ {0} /\ VenueChunk \in Nat \ {0} /\ ErrorChunk \in Nat \ {0}
  /\ MaxChanges \in Nat /\ MaxFaults \in Nat

Jobs == OfferJobs \union {VenueJob, ErrorJob, ExpiryJob}
Processes == Requests \union Jobs

VARIABLES
  bookable, address,               \* the database
  nights,                          \* how many nights more get_expired_offers returns an offer
  offer_ids, venue_ids, in_error,  \* the lists of Redis
  indexed,                         \* its hashmap indexed_offers
  index,                           \* Algolia: [Offers -> Addresses \union {Absent}]
  job,
  changes, faults,
  accident,  \* the offers a failure or a trim has lost
  raced      \* the offers two jobs have had in hand at once

database == <<bookable, address, nights>>
lists == <<offer_ids, venue_ids, in_error>>
history == <<accident, raced>>
vars == <<database, lists, indexed, index, job, changes, faults, history>>

Steps == {"idle", "push", "pop", "venue", "read", "add", "hset", "delete", "hdel", "done"}

\* ids: the offers in hand; docs: the documents to add; gone: the offers to
\* delete; venues: those to go; taken: the length of what was read of a list.
Idle == [step |-> "idle", ids |-> {}, docs |-> <<>>, gone |-> {}, venues |-> <<>>, taken |-> 0]

Document(o) == IF bookable[o] THEN address[VenueOf[o]] ELSE Absent
OffersOf(venues) == {o \in Offers : VenueOf[o] \in venues}

\* batch_deleting_expired_offers_in_algolia: "within the last 2 days".
Window == 2
expired == {o \in Offers : nights[o] > 0}

\* Everything is indexed.
Init ==
  /\ bookable = [o \in Offers |-> TRUE]
  /\ address \in [Venues -> Addresses]
  /\ nights = [o \in Offers |-> 0]
  /\ offer_ids = <<>> /\ venue_ids = <<>> /\ in_error = <<>>
  /\ indexed = Offers /\ index = [o \in Offers |-> address[VenueOf[o]]]
  /\ job = [p \in Processes |-> Idle]
  /\ changes = 0 /\ faults = 0
  /\ accident = {} /\ raced = {}

-----------------------------------------------------------------------------
At(p, step) == job[p].step = step
Goto(p, step) == job' = [job EXCEPT ![p].step = step]

First(q, n) == SubSeq(q, 1, n)

\* lrange(0, n): both ends are included.
LrangeTo(q, n) == First(q, IF Len(q) < n + 1 THEN Len(q) ELSE n + 1)
\* ltrim(n, -1)
TrimmedTwice(q, n) == SubSeq(q, n + 2, Len(q))
Ltrim(q, n) == SubSeq(q, n + 1, Len(q))
\* What a trim drops that nobody has read.
Unread(q, n, taken) == {q[k] : k \in (taken + 1)..(IF Len(q) < n THEN Len(q) ELSE n)}

InHand(p) == UNION {job[q].ids : q \in Jobs \ {p}}
Take(p, record) ==
  /\ job' = [job EXCEPT ![p] = record]
  /\ raced' = raced \union (record.ids \intersect InHand(p))

Fault == faults < MaxFaults /\ faults' = faults + 1
Lose(ids) == accident' = accident \union ids

-----------------------------------------------------------------------------
(* Requests, and time                                                      *)

Change == changes < MaxChanges /\ changes' = changes + 1

\* update_offer, upsert_stocks, book_offer, ...: commit, then queue the offer.
ChangeOffer(r, o) ==
  /\ At(r, "idle") /\ Change
  /\ bookable' = [bookable EXCEPT ![o] = ~@]
  /\ nights' = [nights EXCEPT ![o] = 0]
  /\ job' = [job EXCEPT ![r] = [Idle EXCEPT !.step = "push", !.ids = {o}]]
  /\ UNCHANGED <<address, lists, indexed, index, faults, history>>

\* update_venue
ChangeVenue(r, v) ==
  /\ At(r, "idle") /\ Change
  /\ \E a \in Addresses \ {address[v]} : address' = [address EXCEPT ![v] = a]
  /\ job' = [job EXCEPT ![r] = [Idle EXCEPT !.step = "push", !.venues = <<v>>]]
  /\ UNCHANGED <<bookable, nights, lists, indexed, index, faults, history>>

Forgotten(r) == job[r].ids \union OffersOf(ToSet(job[r].venues))

\* add_offer_id, add_venue_id: an error of Redis is logged.
Push(r) ==
  /\ At(r, "push")
  /\ \/ /\ offer_ids' = offer_ids \o SetToSeq(job[r].ids)
        /\ venue_ids' = venue_ids \o job[r].venues
        /\ UNCHANGED <<in_error, faults, history>>
     \/ Fault /\ Lose(Forgotten(r)) /\ UNCHANGED <<lists, raced>>
  /\ job' = [job EXCEPT ![r] = Idle]
  /\ UNCHANGED <<database, indexed, index, changes>>

\* The booking limit of every stock passes: nothing is queued.
PassLimit(o) ==
  /\ bookable[o] /\ Change
  /\ bookable' = [bookable EXCEPT ![o] = FALSE]
  /\ nights' = [nights EXCEPT ![o] = Window]
  /\ UNCHANGED <<address, lists, indexed, index, job, faults, history>>

-----------------------------------------------------------------------------
(* What jobs take                                                          *)

Reading(ids, taken) == [Idle EXCEPT !.step = "read", !.ids = ids, !.taken = taken]

\* pop_offer_ids reads and trims in one transaction.
PopOfferIds(j) == LET chunk == LrangeTo(offer_ids, OfferChunk - 1) IN
  /\ (At(j, "idle") /\ chunk # <<>>) \/ At(j, "pop")
  /\ IF chunk = <<>> THEN Take(j, Idle) ELSE Take(j, Reading(ToSet(chunk), 0))
  /\ offer_ids' = Ltrim(offer_ids, OfferChunk)
  /\ UNCHANGED <<database, venue_ids, in_error, indexed, index, changes, faults, accident>>

\* A cron job stops when less than a chunk is left.
EndOfferIds(j) ==
  /\ At(j, "done")
  /\ job' = [job EXCEPT ![j] =
       IF j \notin Commands /\ Len(offer_ids) < OfferChunk THEN Idle ELSE [Idle EXCEPT !.step = "pop"]]
  /\ UNCHANGED <<database, lists, indexed, index, changes, faults, history>>

GetVenueIds ==
  /\ At(VenueJob, "idle") /\ venue_ids # <<>>
  /\ LET venues == LrangeTo(venue_ids, VenueChunk) IN
       job' = [job EXCEPT ![VenueJob] =
                 [Idle EXCEPT !.step = "venue", !.venues = venues, !.taken = Len(venues)]]
  /\ UNCHANGED <<database, lists, indexed, index, changes, faults, history>>

NextVenue == LET todo == job[VenueJob].venues IN
  /\ \/ At(VenueJob, "venue") \/ At(VenueJob, "done")
  /\ todo # <<>>
  /\ Take(VenueJob, [Reading(OffersOf({Head(todo)}), job[VenueJob].taken) EXCEPT !.venues = Tail(todo)])
  /\ UNCHANGED <<database, lists, indexed, index, changes, faults, accident>>

DeleteVenueIds ==
  /\ At(VenueJob, "done") /\ job[VenueJob].venues = <<>>
  /\ venue_ids' = Ltrim(venue_ids, VenueChunk)
  /\ Lose(OffersOf(Unread(venue_ids, VenueChunk, job[VenueJob].taken)))
  /\ job' = [job EXCEPT ![VenueJob] = Idle]
  /\ UNCHANGED <<database, offer_ids, in_error, indexed, index, changes, faults, raced>>

\* The offers in error are read by the chunk of the other list.
GetOfferIdsInError ==
  /\ At(ErrorJob, "idle") /\ in_error # <<>>
  /\ LET ids == LrangeTo(in_error, OfferChunk) IN Take(ErrorJob, Reading(ToSet(ids), Len(ids)))
  /\ UNCHANGED <<database, lists, indexed, index, changes, faults, accident>>

DeleteOfferIdsInError ==
  /\ At(ErrorJob, "done")
  /\ in_error' = Ltrim(in_error, ErrorChunk)
  /\ Lose(Unread(in_error, ErrorChunk, job[ErrorJob].taken))
  /\ job' = [job EXCEPT ![ErrorJob] = Idle]
  /\ UNCHANGED <<database, offer_ids, venue_ids, indexed, index, changes, faults, raced>>

\* A night comes, and the limits that passed are as much older.
OneNightLess == nights' = [o \in Offers |-> IF nights[o] > 0 THEN nights[o] - 1 ELSE 0]
LastNight == {o \in Offers : nights[o] = 1}

\* delete_expired_offers, whose check_offer_exists may answer no as well: on
\* the last night it is for ever.
GetExpiredOffers ==
  /\ At(ExpiryJob, "idle") /\ expired # {}
  /\ OneNightLess
  /\ \E known \in {indexed, {}} :
       /\ Take(ExpiryJob, [Idle EXCEPT !.step = "delete", !.ids = expired, !.gone = expired \intersect known])
       /\ IF known = indexed THEN UNCHANGED <<faults, accident>> ELSE Fault /\ Lose(LastNight)
  /\ UNCHANGED <<bookable, address, lists, indexed, index, changes>>

\* A night without the job.
MissNight ==
  /\ At(ExpiryJob, "idle") /\ expired # {} /\ Fault
  /\ OneNightLess /\ Lose(LastNight)
  /\ UNCHANGED <<bookable, address, lists, indexed, index, job, changes, raced>>

EndExpired ==
  /\ At(ExpiryJob, "done")
  /\ job' = [job EXCEPT ![ExpiryJob] = Idle]
  /\ UNCHANGED <<database, lists, indexed, index, changes, faults, history>>

-----------------------------------------------------------------------------
(* process_eligible_offers, and what it shares with delete_expired_offers  *)

Bookable(ids) == {o \in ids : bookable[o]}
ToDelete(ids, known) == (ids \ Bookable(ids)) \intersect known

\* check_offer_exists answers no when Redis fails.
ReadOffers(j) == LET ids == job[j].ids IN
  /\ At(j, "read")
  /\ \E known \in {indexed, {}} :
       /\ job' = [job EXCEPT ![j].step = "add", ![j].gone = ToDelete(ids, known),
                             ![j].docs = [o \in Bookable(ids) |-> Document(o)]]
       /\ IF known = indexed THEN UNCHANGED <<faults, accident>>
          ELSE Fault /\ Lose(ids \ Bookable(ids))
  /\ UNCHANGED <<database, lists, indexed, index, changes, raced>>

ToAdd(j) == DOMAIN job[j].docs

\* _process_adding
AddObjects(j) ==
  /\ At(j, "add")
  /\ index' = [o \in Offers |-> IF o \in ToAdd(j) THEN job[j].docs[o] ELSE index[o]]
  /\ Goto(j, IF ToAdd(j) = {} THEN "delete" ELSE "hset")
  /\ UNCHANGED <<database, lists, indexed, changes, faults, history>>

LogError(ids) ==
  /\ Fault
  /\ UNCHANGED <<database, lists, indexed, index, changes, history>>

\* add_offer_ids_in_error, whose own failure is logged.
PutInError(ids) ==
  /\ Fault
  /\ \/ in_error' = in_error \o SetToSeq(ids) /\ UNCHANGED history
     \/ Lose(ids) /\ UNCHANGED <<in_error, raced>>
  /\ UNCHANGED <<database, offer_ids, venue_ids, indexed, index, changes>>

\* AlgoliaException
AddingFails(j) ==
  /\ At(j, "add") /\ ToAdd(j) # {}
  /\ PutInError(job[j].ids)
  /\ Goto(j, "delete")

ForgetPipeline(j) ==
  /\ At(j, "hset") /\ Goto(j, "delete")
  /\ UNCHANGED <<database, lists, indexed, index, changes, faults, history>>

ExecutePipeline(j) ==
  /\ At(j, "hset")
  /\ indexed' = indexed \union ToAdd(j)
  /\ Goto(j, "delete")
  /\ UNCHANGED <<database, lists, index, changes, faults, history>>

\* _process_deleting
DeleteObjects(j) ==
  /\ At(j, "delete")
  /\ index' = [o \in Offers |-> IF o \in job[j].gone THEN Absent ELSE index[o]]
  /\ Goto(j, IF job[j].gone = {} THEN "done" ELSE "hdel")
  /\ UNCHANGED <<database, lists, indexed, changes, faults, history>>

DeletingFails(j) ==
  /\ At(j, "delete") /\ job[j].gone # {}
  /\ PutInError(job[j].gone)
  /\ Goto(j, "done")

DeleteIndexedOffers(j) ==
  /\ At(j, "hdel")
  /\ indexed' = indexed \ job[j].gone
  /\ Goto(j, "done")
  /\ UNCHANGED <<database, lists, index, changes, faults, history>>

\* Nobody will look at what a job has popped from the queue, at what it has added
\* and not recorded, or at what was to be deleted on its last night.
Abandoned(j) == {o \in job[j].ids :
  \/ j \in OfferJobs
  \/ At(j, "hset") /\ o \in ToAdd(j)
  \/ j = ExpiryJob /\ o \in job[j].gone \ expired}

\* An unexpected exception, or a kill.  Only the job that has popped its offers
\* goes on after an exception.
Crash(j) ==
  /\ job[j].step \in {"read", "add", "hset", "delete"}
  /\ Fault
  /\ Lose(Abandoned(j))
  /\ job' = [job EXCEPT ![j] = Idle] \/ (j \in OfferJobs /\ Goto(j, "done"))
  /\ UNCHANGED <<database, lists, indexed, index, changes, raced>>

-----------------------------------------------------------------------------
Process(j) ==
  \/ ReadOffers(j) \/ AddObjects(j) \/ AddingFails(j) \/ ExecutePipeline(j)
  \/ DeleteObjects(j) \/ DeletingFails(j) \/ DeleteIndexedOffers(j)

IndexByOffer(j) == PopOfferIds(j) \/ Process(j) \/ EndOfferIds(j)
IndexByVenue == GetVenueIds \/ NextVenue \/ Process(VenueJob) \/ DeleteVenueIds
IndexInError == GetOfferIdsInError \/ Process(ErrorJob) \/ DeleteOfferIdsInError
DeleteExpired == GetExpiredOffers \/ Process(ExpiryJob) \/ EndExpired

Next ==
  \/ \E r \in Requests :
       \/ \E o \in Offers : ChangeOffer(r, o)
       \/ \E v \in Venues : ChangeVenue(r, v)
       \/ Push(r)
  \/ \E o \in Offers : PassLimit(o)
  \/ \E j \in OfferJobs : IndexByOffer(j)
  \/ IndexByVenue \/ IndexInError \/ DeleteExpired \/ MissNight
  \/ \E j \in Jobs : Crash(j)

Spec == Init /\ [][Next]_vars

\* Cron starts every job again and again, that of expired offers on every night
\* but those MissNight counts; a request goes on to the push.
Fairness ==
  /\ \A r \in Requests : WF_vars(Push(r))
  /\ \A j \in OfferJobs : WF_vars(IndexByOffer(j))
  /\ WF_vars(IndexByVenue) /\ WF_vars(IndexInError) /\ WF_vars(DeleteExpired)
FairSpec == Spec /\ Fairness

-----------------------------------------------------------------------------
TypeOK ==
  /\ bookable \in [Offers -> BOOLEAN] /\ address \in [Venues -> Addresses]
  /\ nights \in [Offers -> 0..Window] /\ indexed \subseteq Offers
  /\ ToSet(offer_ids) \union ToSet(in_error) \subseteq Offers /\ ToSet(venue_ids) \subseteq Venues
  /\ index \in [Offers -> Addresses \union {Absent}]
  /\ \A p \in Processes :
       /\ job[p].step \in Steps
       /\ job[p].ids \subseteq Offers
       /\ DOMAIN job[p].docs \union job[p].gone \subseteq job[p].ids
       /\ \A o \in DOMAIN job[p].docs : job[p].docs[o] \in Addresses
  /\ accident \union raced \subseteq Offers

Spared(o) == o \notin accident \union raced

\* Somebody will look at the offer again.
Tracked(o) ==
  \/ o \in ToSet(offer_ids) \union ToSet(in_error) \union expired \union OffersOf(ToSet(venue_ids))
  \/ \E p \in Processes : o \in job[p].ids \union OffersOf(ToSet(job[p].venues))

\* The index says of an offer what the database does, or the offer is queued,
\* in error, in hand or to be found by the next night's job: only a failure (of
\* the last such night, if it expired), a trim of the lists that are read and
\* deleted apart, or two jobs at once on one offer can leave it stale.
StaleOffersAreTracked == \A o \in Offers :
  Spared(o) /\ index[o] # Document(o) => Tracked(o)

\* What is in the index can be deleted from it: the hashmap knows it.
IndexedOffersAreKnown == \A o \in Offers :
  Spared(o) /\ index[o] # Absent => o \in indexed \/ \E j \in Jobs : o \in job[j].ids

\* When changes and failures cease, the index catches up.
IndexCatchesUp == \A o \in Offers : <>[](Spared(o) => index[o] = Document(o))

\* indexing.py:32: a cron job that runs beside the previous one is "fine because
\* they both pop from the queue": what is not queued nor in hand is up to date.
ParallelJobsAreFine == \A o \in Offers :
  o \notin accident /\ ~Tracked(o) => index[o] = Document(o)
=============================================================================
