------------------------------ MODULE Allocine ------------------------------
(***************************************************************************)
(* The synchronisation of a cinema with Allocine: LocalProvider.update-    *)
(* Objects builds or updates one stock per announced showing and saves     *)
(* them chunk by chunk, while partners edit and delete these stocks and    *)
(* beneficiaries book them.                                                *)
(*                                                                         *)
(* A chunk is one transaction.  An existing stock is an object of the      *)
(* session: the next query flushes the columns that changed, which locks   *)
(* the row until the chunk is saved.  insert_chunk commits and expires     *)
(* those objects; without anything to insert, update_chunk writes every    *)
(* column of them back, as they were loaded.                               *)
(***************************************************************************)
EXTENDS Integers, FiniteSets

CONSTANTS
  Showings,       \* what Allocine may announce for the cinema
  Popular,        \* bound: the showings that are booked, edited or deleted
  Syncs,          \* the processes that synchronise it
  Cron,           \* the one of Syncs that the clock starts every day
  Amounts,        \* the prices and the quantities
  VenueQuantity,  \* AllocineVenueProvider.quantity
  ChunkSize,      \* CHUNK_MAX_SIZE
  MaxEdits,       \* bound on the editions of stocks and of the price rule
  MaxFaults,      \* bound on the kills and the unreadable movies
  Absent, None

Fields == {"quantity", "price"}
Stock == [values: [Fields -> Amounts], fieldsUpdated: SUBSET Fields,
          dnBookedQuantity: Int, isSoftDeleted: BOOLEAN]

ASSUME AllocineAssumption ==
  /\ IsFiniteSet(Showings) /\ Cron \in Syncs /\ Popular \subseteq Showings
  /\ Amounts \subseteq Nat /\ VenueQuantity \in Amounts
  /\ {ChunkSize, MaxEdits, MaxFaults} \subseteq Nat /\ ChunkSize > 0
  /\ None \notin Showings \union Amounts /\ Absent \notin Stock

VARIABLES
  programme,  \* the showings Allocine announces, of the movies that can be read
  price,      \* the price of the price rule of the cinema
  stock,      \* the stock table, by idAtProviders
  live,       \* the places of the bookings that are not cancelled
  sync,       \* what each process is doing
  form,       \* the stock a partner is saving, as the request loaded it
  edits, faults,
  saved,      \* what the partner last gave each field of a stock
  crossed     \* the stocks changed by another between a load and its flush

vars == <<programme, price, stock, live, sync, form, edits, faults, saved, crossed>>

\* price: the price rule, once it is read; inserts: the new stocks; rows: what
\* is flushed; objects: the stocks of the session.
Resting == [step |-> "idle", price |-> None, todo |-> {}, current |-> None, loaded |-> None,
            inserts |-> <<>>, updates |-> {}, rows |-> <<>>, objects |-> <<>>]

Init ==
  /\ programme \in SUBSET Showings
  /\ price \in Amounts
  /\ stock = [s \in Showings |-> Absent]
  /\ live = [s \in Showings |-> 0]
  /\ sync = [w \in Syncs |-> Resting]
  /\ form = None
  /\ edits = 0 /\ faults = 0
  /\ saved = [s \in Showings |-> [f \in Fields |-> None]]
  /\ crossed = {}

-----------------------------------------------------------------------------
(* The rows                                                                *)

Exists(s) == stock[s] # Absent

Anytime(s) == TRUE
\* No transaction of a synchronisation has flushed the row.
Unlocked(s) == \A w \in Syncs : s \notin DOMAIN sync[w].rows

\* The trigger check_stock.
HoldsBookings(s, row) == live[s] <= row.values["quantity"]

\* The rows of a transaction with one more, or with that one again.
Put(rows, s, row) == [t \in DOMAIN rows \union {s} |-> IF t = s THEN row ELSE rows[t]]
Overlay(rows) == [s \in Showings |-> IF s \in DOMAIN rows THEN rows[s] ELSE stock[s]]

-----------------------------------------------------------------------------
(* AllocineStocks                                                          *)

NoPriceRule(rule) == [f \in Fields |-> IF f = "price" THEN 0 ELSE VenueQuantity]
\* The quantity and the price rule of AllocineVenueProvider.
Defaults(rule) == [f \in Fields |-> IF f = "price" THEN rule ELSE VenueQuantity]

NewStock(rule) == [values |-> Defaults(rule), fieldsUpdated |-> {},
                   dnBookedQuantity |-> 0, isSoftDeleted |-> FALSE]

\* apply_allocine_price_rule loads the rule for the first stock that needs it
\* after a commit, which has expired it.
RuleFor(w, s) ==
  IF sync[w].price = None /\ ~(Exists(s) /\ "price" \in stock[s].fieldsUpdated)
  THEN price ELSE sync[w].price

\* fill_stock_attributes leaves alone what the partner has edited.
EverythingFilled(w, row) == [row EXCEPT !.values = Defaults(sync[w].price)]
OnSaleAgain(w, row) == [row EXCEPT !.isSoftDeleted = FALSE]
Filled(w, row) ==
  [row EXCEPT !.values = [f \in Fields |->
     IF f \in row.fieldsUpdated THEN row.values[f] ELSE Defaults(sync[w].price)[f]]]

-----------------------------------------------------------------------------
(* LocalProvider.updateObjects                                             *)

Do(w, next) == sync' = [sync EXCEPT ![w] = next]
Is(w, step) == sync[w].step = step

\* The exception is logged by do_update and the transaction rolled back.
Abort(w) == Do(w, Resting) /\ UNCHANGED <<stock, crossed>>

\* The clock does it every day; venue_provider_job when the cinema is connected,
\* before anything of it is on sale.
Start(w) ==
  /\ Is(w, "idle") /\ programme # {}
  /\ w = Cron \/ \A s \in Showings : ~Exists(s)
  /\ Do(w, [Resting EXCEPT !.step = "load", !.todo = programme])
  /\ UNCHANGED <<programme, price, stock, live, form, edits, faults, saved, crossed>>

ChunkOf(w) == DOMAIN sync[w].inserts \union sync[w].updates
OnlyFullChunks(w) == Cardinality(ChunkOf(w)) >= ChunkSize
ChunkIsReady(w) == Cardinality(ChunkOf(w)) >= ChunkSize \/ sync[w].todo = {}

\* get_existing_pc_obj, and fill_object_attributes on a new object.
LoadShowing(w, s) ==
  /\ Is(w, "load") /\ ~ChunkIsReady(w) /\ s \in sync[w].todo
  /\ Do(w, IF Exists(s)
           THEN [sync[w] EXCEPT !.todo = @ \ {s}, !.price = RuleFor(w, s), !.step = "flush",
                                !.current = s, !.loaded = stock[s]]
           ELSE [sync[w] EXCEPT !.todo = @ \ {s}, !.price = RuleFor(w, s),
                                !.inserts = Put(@, s, NewStock(RuleFor(w, s)))])
  /\ UNCHANGED <<programme, price, stock, live, form, edits, faults, saved, crossed>>

\* _handle_update: only the columns it changed are flushed.
Flushed(w) == LET old == sync[w].loaded
                  new == Filled(w, old)
                  s == sync[w].current IN
  [stock[s] EXCEPT
     !.values = [f \in Fields |-> IF new.values[f] # old.values[f] THEN new.values[f] ELSE @[f]],
     !.isSoftDeleted = IF new.isSoftDeleted # old.isSoftDeleted THEN new.isSoftDeleted ELSE @]

FlushUpdate(w) == LET s == sync[w].current IN
  /\ Is(w, "flush") /\ Unlocked(s)
  /\ IF HoldsBookings(s, Flushed(w))
     THEN /\ Do(w, [sync[w] EXCEPT
               !.step = "load", !.current = None, !.loaded = None,
               !.updates = @ \union {s},
               !.rows = Put(@, s, Flushed(w)),
               !.objects = Put(@, s, Filled(w, sync[w].loaded))])
          /\ crossed' = IF stock[s] # sync[w].loaded THEN crossed \union {s} ELSE crossed
          /\ UNCHANGED stock
     ELSE Abort(w)
  /\ UNCHANGED <<programme, price, live, form, edits, faults, saved>>

\* PostgreSQL's deadlock detector, or DATABASE_LOCK_TIMEOUT.
FlushFails(w) ==
  /\ Is(w, "flush") /\ ~Unlocked(sync[w].current)
  /\ Abort(w)
  /\ UNCHANGED <<programme, price, live, form, edits, faults, saved>>

ChunkSaved(w) ==
  /\ Do(w, IF sync[w].todo = {} THEN Resting
           ELSE [sync[w] EXCEPT !.price = None, !.inserts = <<>>, !.updates = {},
                                !.rows = <<>>, !.objects = <<>>])
  /\ UNCHANGED crossed

\* insert_chunk: idAtProviders is unique.
InsertChunk(w) == LET new == sync[w].inserts IN
  /\ DOMAIN new # {}
  /\ IF \E s \in DOMAIN new : Exists(s)
     THEN Abort(w)
     ELSE /\ stock' = [s \in Showings |-> IF s \in DOMAIN new THEN new[s]
                                          ELSE Overlay(sync[w].rows)[s]]
          /\ ChunkSaved(w)

\* update_chunk, when nothing has expired the objects.
UpdateChunk(w) ==
  /\ DOMAIN sync[w].inserts = {}
  /\ IF \E s \in DOMAIN sync[w].objects : ~HoldsBookings(s, sync[w].objects[s])
     THEN Abort(w)
     ELSE /\ stock' = Overlay(sync[w].objects)
          /\ ChunkSaved(w)

SaveChunk(w) ==
  /\ Is(w, "load") /\ ChunkIsReady(w)
  /\ InsertChunk(w) \/ UpdateChunk(w)
  /\ UNCHANGED <<programme, price, live, form, edits, faults, saved>>

\* log_provider_event, when the description of a movie cannot be read: it
\* commits what has been flushed and expires the objects.  The showings of that
\* movie are dropped (`programme` has those of the others) and the chunk goes on.
LogError(w) ==
  /\ faults < MaxFaults /\ faults' = faults + 1
  /\ Is(w, "load") /\ ~ChunkIsReady(w)
  /\ stock' = Overlay(sync[w].rows)
  /\ Do(w, [sync[w] EXCEPT !.price = None, !.rows = <<>>, !.objects = <<>>])
  /\ UNCHANGED <<programme, price, live, form, edits, saved, crossed>>

Kill(w) ==
  /\ faults < MaxFaults /\ faults' = faults + 1
  /\ ~Is(w, "idle") /\ Abort(w)
  /\ UNCHANGED <<programme, price, live, form, edits, saved>>

-----------------------------------------------------------------------------
(* Everybody else                                                          *)

\* Bound: a stock is changed between a load and its flush once.
MayChange(s) == Unlocked(s) /\ (s \in crossed => \A w \in Syncs : sync[w].current # s)

\* Bound: editions begin when the job of the connection has ended.
MayEdit == edits < MaxEdits /\ \A w \in Syncs \ {Cron} : Is(w, "idle")

\* upsert_stocks loads the stock, and _edit_stock compares the form with it.
EditLoad(s) ==
  /\ MayEdit /\ edits' = edits + 1
  /\ form = None /\ Exists(s) /\ ~stock[s].isSoftDeleted
  /\ form' = [showing |-> s, loaded |-> stock[s]]
  /\ UNCHANGED <<programme, price, stock, live, sync, faults, saved, crossed>>

EditSave(values) == LET s == form.showing
                        old == form.loaded
                        updates == {f \in Fields : values[f] # old.values[f]}
                        new == [stock[s] EXCEPT
                          !.values = [f \in Fields |-> IF f \in updates THEN values[f] ELSE @[f]],
                          !.fieldsUpdated = IF updates # old.fieldsUpdated THEN updates ELSE @] IN
  /\ form # None /\ form' = None
  /\ values["quantity"] >= old.dnBookedQuantity
  /\ MayChange(s) /\ HoldsBookings(s, new)
  /\ stock' = [stock EXCEPT ![s] = new]
  /\ saved' = [saved EXCEPT ![s] = [f \in Fields |-> IF f \in updates THEN values[f] ELSE @[f]]]
  /\ UNCHANGED <<programme, price, live, sync, edits, faults, crossed>>

\* A check refuses the form, or the trigger does.
EditRefused ==
  /\ form # None /\ form' = None
  /\ UNCHANGED <<programme, price, stock, live, sync, edits, faults, saved, crossed>>

\* delete_stock, which cancels the bookings.
Delete(s) ==
  /\ Exists(s) /\ ~stock[s].isSoftDeleted /\ MayChange(s)
  /\ stock' = [stock EXCEPT ![s].isSoftDeleted = TRUE, ![s].dnBookedQuantity = @ - live[s]]
  /\ live' = [live EXCEPT ![s] = 0]
  /\ UNCHANGED <<programme, price, sync, form, edits, faults, saved, crossed>>

\* book_offer, and _cancel_booking.
Book(s) ==
  /\ Exists(s) /\ ~stock[s].isSoftDeleted /\ MayChange(s)
  /\ stock[s].dnBookedQuantity < stock[s].values["quantity"]
  /\ live[s] < stock[s].values["quantity"]
  /\ stock' = [stock EXCEPT ![s].dnBookedQuantity = @ + 1]
  /\ live' = [live EXCEPT ![s] = @ + 1]
  /\ UNCHANGED <<programme, price, sync, form, edits, faults, saved, crossed>>

Cancel(s) ==
  /\ live[s] > 0 /\ MayChange(s)
  /\ stock' = [stock EXCEPT ![s].dnBookedQuantity = @ - 1]
  /\ live' = [live EXCEPT ![s] = @ - 1]
  /\ UNCHANGED <<programme, price, sync, form, edits, faults, saved, crossed>>

\* modify_allocine_price_rule_for_venue.
ModifyPriceRule ==
  /\ MayEdit /\ edits' = edits + 1
  /\ price' \in Amounts \ {price}
  /\ UNCHANGED <<programme, stock, live, sync, form, faults, saved, crossed>>

Announce(s) ==
  /\ s \notin programme /\ programme' = programme \union {s}
  /\ UNCHANGED <<price, stock, live, sync, form, edits, faults, saved, crossed>>

GoOn(w) ==
  \/ \E s \in Showings : LoadShowing(w, s)
  \/ FlushUpdate(w) \/ FlushFails(w) \/ SaveChunk(w)

Next ==
  \/ \E w \in Syncs : Start(w) \/ GoOn(w) \/ LogError(w) \/ Kill(w)
  \/ \E s \in Popular : EditLoad(s) \/ Delete(s) \/ Book(s) \/ Cancel(s)
  \/ \E s \in Showings : Announce(s)
  \/ \E values \in [Fields -> Amounts] : EditSave(values)
  \/ EditRefused \/ ModifyPriceRule

Spec == Init /\ [][Next]_vars

\* The clock starts the synchronisation every day, and what runs goes on.
Fairness == WF_vars(Start(Cron)) /\ \A w \in Syncs : WF_vars(GoOn(w))

FairSpec == Spec /\ Fairness

-----------------------------------------------------------------------------
\* What each process holds is consistent with its step: in particular a showing
\* is in one place only, and only existing stocks are updated.
TypeOK ==
  /\ programme \subseteq Showings /\ price \in Amounts
  /\ \A s \in Showings : Exists(s) => stock[s] \in Stock
  /\ \A s \in Showings : live[s] \in Nat /\ (~Exists(s) => live[s] = 0)
  /\ \A w \in Syncs : LET j == sync[w] IN
       /\ j.step \in {"idle", "load", "flush"}
       /\ j.step = "flush" <=> j.current # None
       /\ DOMAIN j.inserts \intersect j.updates = {} /\ ChunkOf(w) \intersect j.todo = {}
       /\ j.current \notin ChunkOf(w) \union j.todo
       /\ Cardinality(ChunkOf(w)) <= ChunkSize
       /\ DOMAIN j.rows = DOMAIN j.objects /\ DOMAIN j.rows \subseteq j.updates
       /\ \A s \in DOMAIN j.rows : j.rows[s] \in Stock /\ Exists(s)
       /\ \A s \in DOMAIN j.inserts : j.inserts[s] \in Stock
  /\ form # None => Exists(form.showing)

\* The bookings made during a synchronisation are counted: the only counter that
\* may be lost is that of a stock that changed between its load and its flush.
CountersExact == \A s \in Showings \ crossed :
  Exists(s) => stock[s].dnBookedQuantity = live[s]

\* A deleted showing is not put on sale again by the next synchronisation.
DeletionsStand == [][\A s \in Showings :
  Exists(s) /\ stock[s].isSoftDeleted => stock'[s].isSoftDeleted \/ s \in crossed']_vars

\* What the partner changed the last time a stock was saved is what the stock
\* has, whatever was synchronised since.
LastEditStands == \A s \in Showings \ crossed : Exists(s) =>
  \A f \in stock[s].fieldsUpdated : stock[s].values[f] = saved[s][f]

\* The test test_should_update_stocks_info_after_pro_user_modification: what a
\* partner has changed stays as it is after a synchronisation, be it that no
\* other request crossed it.
EveryEditStands == \A s \in Showings \ crossed, f \in Fields :
  saved[s][f] # None => stock[s].values[f] = saved[s][f]

\* The venue's quantity no longer holds the bookings of a stock whose edited
\* quantity was forgotten: every synchronisation of the cinema fails.
Stuck == \E s \in Showings :
  Exists(s) /\ "quantity" \notin stock[s].fieldsUpdated /\ live[s] > VenueQuantity

\* Everything announced is on sale in the end, unless the cinema is stuck.
AnnouncedAreSold == []<>Stuck \/ <>[](\A s \in programme : Exists(s))
=============================================================================
