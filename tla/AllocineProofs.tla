--------------------------- MODULE AllocineProofs ---------------------------
(* What TLAPS proves of Allocine, for any cinema, any number of processes   *)
(* that synchronise it and chunks of any size.                              *)
EXTENDS Allocine, TLAPS, FiniteSetTheorems

-----------------------------------------------------------------------------
(* The inductive invariant.                                                 *)

Rows == UNION {[S -> Stock] : S \in SUBSET Showings}
Job == [step: {"idle", "load", "flush"}, price: Amounts \union {None}, todo: SUBSET Showings,
        current: Showings \union {None}, loaded: Stock \union {None},
        inserts: Rows, updates: SUBSET Showings, rows: Rows, objects: Rows]

Held(w) == DOMAIN sync[w].rows

World ==
  /\ programme \subseteq Showings /\ price \in Amounts
  /\ stock \in [Showings -> Stock \union {Absent}]
  /\ live \in [Showings -> Nat]
  /\ saved \in [Showings -> [Fields -> Amounts \union {None}]]
  /\ crossed \subseteq Showings

Fresh(row) == row.dnBookedQuantity = 0 /\ row.fieldsUpdated = {}

\* The price rule has been read, if a stock needs it.
Priced(w, row) == "price" \notin row.fieldsUpdated => sync[w].price \in Amounts

\* Where each showing of a process is.
JobOK(w) == LET j == sync[w] IN
  /\ j.step = "flush" <=> j.current # None
  /\ j.step = "flush" => /\ Exists(j.current) /\ j.loaded \in Stock /\ Priced(w, j.loaded)
                         /\ Cardinality(ChunkOf(w)) < ChunkSize
  /\ \A s \in DOMAIN j.inserts : Fresh(j.inserts[s])
  /\ DOMAIN j.inserts \intersect j.updates = {} /\ ChunkOf(w) \intersect j.todo = {}
  /\ j.current \notin ChunkOf(w) \union j.todo
  /\ Cardinality(ChunkOf(w)) <= ChunkSize
  /\ DOMAIN j.rows = DOMAIN j.objects /\ DOMAIN j.rows \subseteq j.updates

\* The columns that only partners and beneficiaries change.
Kept(old, new) ==
  /\ new.fieldsUpdated = old.fieldsUpdated
  /\ new.dnBookedQuantity = old.dnBookedQuantity
  /\ new.isSoftDeleted = old.isSoftDeleted
  /\ \A f \in old.fieldsUpdated : new.values[f] = old.values[f]

\* What has been flushed, and what may be written back, are the row that is in
\* the table, but for the fields that the synchronisation fills: nobody else
\* writes a row that is locked.
RowsOK(w) == \A s \in Held(w) :
  /\ Exists(s)
  /\ s \notin crossed => /\ Kept(stock[s], sync[w].rows[s])
                         /\ Kept(stock[s], sync[w].objects[s])
Apart == \A v, w \in Syncs : v # w => Held(v) \intersect Held(w) = {}

StockOK(s) ==
  /\ ~Exists(s) => live[s] = 0
  /\ Exists(s) /\ s \notin crossed =>
       /\ stock[s].dnBookedQuantity = live[s]
       /\ \A f \in stock[s].fieldsUpdated : stock[s].values[f] = saved[s][f]

\* A form is compared with the fields the stock still has as edited.
FormOK == form # None =>
  /\ form.showing \in Showings /\ Exists(form.showing)
  /\ form.loaded \in Stock
  /\ form.showing \notin crossed => form.loaded.fieldsUpdated = stock[form.showing].fieldsUpdated

IInv ==
  /\ World /\ sync \in [Syncs -> Job]
  /\ \A w \in Syncs : JobOK(w) /\ RowsOK(w)
  /\ Apart
  /\ \A s \in Showings : StockOK(s)
  /\ FormOK

-----------------------------------------------------------------------------
(* Facts about the data.                                                    *)

LEMMA Nothing == <<>> \in Rows /\ DOMAIN <<>> = {}
<1>1. <<>> = [x \in {} |-> 0] /\ DOMAIN <<>> = {}  OBVIOUS
<1>2. [x \in {} |-> 0] \in [{} -> Stock]  OBVIOUS
<1>3. {} \in SUBSET Showings  OBVIOUS
<1> QED BY <1>1, <1>2, <1>3 DEF Rows

LEMMA RowsAre ==
  ASSUME NEW rows \in Rows
  PROVE  DOMAIN rows \subseteq Showings /\ \A s \in DOMAIN rows : rows[s] \in Stock
BY DEF Rows

LEMMA Putting ==
  ASSUME NEW rows \in Rows, NEW s \in Showings, NEW row \in Stock
  PROVE  Put(rows, s, row) \in Rows
<1>1. DOMAIN rows \subseteq Showings /\ \A t \in DOMAIN rows : rows[t] \in Stock  BY RowsAre
<1>2. Put(rows, s, row) \in [DOMAIN rows \union {s} -> Stock]  BY <1>1 DEF Put
<1>3. DOMAIN rows \union {s} \in SUBSET Showings  BY <1>1
<1> QED BY <1>2, <1>3 DEF Rows

LEMMA AllRows ==
  ASSUME World, NEW s \in Showings
  PROVE  Exists(s) <=> stock[s] \in Stock
BY AllocineAssumption DEF World, Exists

LEMMA RestingOK ==
  /\ Resting \in Job
  /\ Resting.step = "idle" /\ Resting.current = None /\ Resting.todo = {}
  /\ Resting.inserts = <<>> /\ Resting.updates = {} /\ Resting.rows = <<>> /\ Resting.objects = <<>>
BY Nothing DEF Resting, Job

LEMMA Counted ==
  ASSUME NEW S \in SUBSET Showings
  PROVE  IsFiniteSet(S) /\ Cardinality(S) \in Nat
BY AllocineAssumption, FS_Subset, FS_CardinalityType

LEMMA DefaultsOK ==
  ASSUME NEW rule \in Amounts
  PROVE  NewStock(rule) \in Stock /\ Fresh(NewStock(rule))
<1>1. Defaults(rule) \in [Fields -> Amounts]  BY AllocineAssumption DEF Defaults
<1> QED BY <1>1 DEF NewStock, Stock, Fresh

LEMMA FillingKeeps ==
  ASSUME NEW w \in Syncs, NEW row \in Stock, Priced(w, row)
  PROVE  Filled(w, row) \in Stock /\ Kept(row, Filled(w, row))
<1> DEFINE rule == sync[w].price
           values == [f \in Fields |-> IF f \in row.fieldsUpdated THEN row.values[f] ELSE Defaults(rule)[f]]
<1>0. \A f \in Fields : f \in row.fieldsUpdated \/ Defaults(rule)[f] \in Amounts
  BY AllocineAssumption DEF Defaults, Priced
<1>1. values \in [Fields -> Amounts]  BY <1>0 DEF Stock
<1>2. \A f \in row.fieldsUpdated : values[f] = row.values[f]  BY DEF Stock
<1> HIDE DEF values
<1>3. [row EXCEPT !.values = values] \in Stock
      /\ [row EXCEPT !.values = values].values = values
      /\ [row EXCEPT !.values = values].fieldsUpdated = row.fieldsUpdated
      /\ [row EXCEPT !.values = values].dnBookedQuantity = row.dnBookedQuantity
      /\ [row EXCEPT !.values = values].isSoftDeleted = row.isSoftDeleted
  BY <1>1 DEF Stock
<1>4. Filled(w, row) = [row EXCEPT !.values = values]  BY DEF Filled, values
<1> QED BY <1>2, <1>3, <1>4 DEF Kept

LEMMA FlushingKeeps ==
  ASSUME NEW w \in Syncs, NEW s \in Showings, stock[s] \in Stock, sync[w].loaded \in Stock,
         sync[w].current = s, Priced(w, sync[w].loaded)
  PROVE  Flushed(w) \in Stock /\ (stock[s] = sync[w].loaded => Kept(stock[s], Flushed(w)))
<1> DEFINE old == sync[w].loaded
           new == Filled(w, old)
           values == [f \in Fields |-> IF new.values[f] # old.values[f] THEN new.values[f] ELSE stock[s].values[f]]
           gone == IF new.isSoftDeleted # old.isSoftDeleted THEN new.isSoftDeleted ELSE stock[s].isSoftDeleted
           row == [stock[s] EXCEPT !.values = values, !.isSoftDeleted = gone]
<1>1. new \in Stock /\ Kept(old, new)  BY FillingKeeps
<1>2. values \in [Fields -> Amounts] /\ gone \in BOOLEAN  BY <1>1 DEF Stock
<1>3. stock[s] = old => gone = stock[s].isSoftDeleted
                        /\ \A f \in stock[s].fieldsUpdated : values[f] = stock[s].values[f]
  BY <1>1 DEF Kept, Stock
<1>4. Flushed(w) = row  BY DEF Flushed
<1> HIDE DEF values, gone
<1>5. row \in Stock /\ row.values = values /\ row.isSoftDeleted = gone
      /\ row.fieldsUpdated = stock[s].fieldsUpdated
      /\ row.dnBookedQuantity = stock[s].dnBookedQuantity
  BY <1>2 DEF Stock
<1> QED BY <1>3, <1>4, <1>5 DEF Kept
-----------------------------------------------------------------------------
(* The steps of a synchronisation.                                          *)

\* What a synchronisation may do to a stock: write a row that it has locked, or
\* insert one.
Written(w, s) ==
  \/ stock'[s] = stock[s]
  \/ /\ s \in Held(w) /\ stock'[s] \in Stock
     /\ s \notin crossed => Kept(stock[s], stock'[s])
  \/ /\ ~Exists(s) /\ stock'[s] \in Stock
     /\ stock'[s].dnBookedQuantity = 0 /\ stock'[s].fieldsUpdated = {}

LEMMA StocksKept ==
  ASSUME IInv, NEW w \in Syncs, stock' \in [Showings -> Stock \union {Absent}],
         \A s \in Showings : Written(w, s),
         crossed \subseteq crossed', UNCHANGED <<live, form, saved>>
  PROVE  /\ \A s \in Showings : Exists(s) => Exists(s)'
         /\ \A s \in Showings : StockOK(s)'
         /\ FormOK'
<1>1. World /\ RowsOK(w) /\ FormOK  BY DEF IInv
<1>2. ASSUME NEW s \in Showings  PROVE (Exists(s) => Exists(s)') /\ StockOK(s)'
  <2>1. StockOK(s) /\ Written(w, s)  BY DEF IInv
  <2>2. CASE stock'[s] = stock[s]
    BY <2>1, <2>2 DEF StockOK, Exists
  <2>3. CASE /\ s \in Held(w) /\ stock'[s] \in Stock
             /\ s \notin crossed => Kept(stock[s], stock'[s])
    <3>1. Exists(s) /\ Exists(s)'  BY <1>1, <2>3, AllocineAssumption DEF RowsOK, Exists
    <3>2. CASE s \in crossed  BY <3>1, <3>2 DEF StockOK
    <3>3. CASE s \notin crossed  BY <2>1, <2>3, <3>1, <3>3 DEF StockOK, Kept
    <3> QED BY <3>2, <3>3
  <2>4. CASE /\ ~Exists(s) /\ stock'[s] \in Stock
             /\ stock'[s].dnBookedQuantity = 0 /\ stock'[s].fieldsUpdated = {}
    BY <2>1, <2>4, AllocineAssumption DEF StockOK, Exists
  <2> QED BY <2>1, <2>2, <2>3, <2>4 DEF Written
<1>3. FormOK'
  <2> SUFFICES ASSUME form # None  PROVE FormOK'
    BY DEF FormOK
  <2>1. form.showing \in Showings /\ Exists(form.showing) /\ Exists(form.showing)' /\ form.loaded \in Stock
    BY <1>1, <1>2 DEF FormOK
  <2>2. Written(w, form.showing)  BY <2>1
  <2>3. form.showing \notin crossed => form.loaded.fieldsUpdated = stock[form.showing].fieldsUpdated
    BY <1>1 DEF FormOK
  <2>4. form.showing \notin crossed => stock'[form.showing].fieldsUpdated = stock[form.showing].fieldsUpdated
    BY <2>1, <2>2 DEF Written, Kept
  <2> QED BY <2>1, <2>3, <2>4 DEF FormOK
<1> QED BY <1>2, <1>3

LEMMA OthersKept ==
  ASSUME IInv, NEW w \in Syncs, NEW v \in Syncs, v # w, sync'[v] = sync[v],
         \A s \in Showings : Written(w, s),
         crossed \subseteq crossed', \A s \in Showings : Exists(s) => Exists(s)'
  PROVE  JobOK(v)' /\ RowsOK(v)'
<1>1. JobOK(v) /\ RowsOK(v) /\ Held(v) \intersect Held(w) = {} /\ sync[v] \in Job
  BY DEF IInv, Apart
<1>2. JobOK(v)'
  <2>1. sync[v].step = "flush" => sync[v].current \in Showings
    BY <1>1 DEF JobOK, Job
  <2>2. ChunkOf(v)' = ChunkOf(v)  BY DEF ChunkOf
  <2> QED BY <1>1, <2>1, <2>2 DEF JobOK, Priced
<1>3. Held(v)' = Held(v) /\ Held(v) \subseteq Showings
  BY <1>1, RowsAre DEF Held, Job
<1>4. ASSUME NEW s \in Held(v)  PROVE stock'[s] = stock[s] /\ Exists(s)'
  BY <1>1, <1>3, <1>4 DEF Written, RowsOK
<1> QED BY <1>1, <1>2, <1>3, <1>4 DEF RowsOK

LEMMA SyncStep ==
  ASSUME IInv, NEW w \in Syncs, NEW new \in Job, Do(w, new),
         stock' \in [Showings -> Stock \union {Absent}], \A s \in Showings : Written(w, s),
         crossed \subseteq crossed', crossed' \subseteq Showings,
         \A v \in Syncs \ {w} : DOMAIN new.rows \intersect Held(v) = {},
         JobOK(w)', RowsOK(w)',
         UNCHANGED <<programme, price, live, form, saved>>
  PROVE  IInv'
<1>1. World /\ sync \in [Syncs -> Job] /\ Apart  BY DEF IInv
<1>2. sync' \in [Syncs -> Job] /\ sync'[w] = new /\ \A v \in Syncs \ {w} : sync'[v] = sync[v]
  BY <1>1 DEF Do
<1>3. \A v \in Syncs : JobOK(v)' /\ RowsOK(v)'
  BY <1>2, StocksKept, OthersKept
<1>4. Apart'
  BY <1>1, <1>2 DEF Apart, Held
<1>5. World'
  BY <1>1 DEF World
<1> QED BY <1>2, <1>3, <1>4, <1>5, StocksKept DEF IInv

\* A process that has nothing flushed.
LEMMA EmptyHanded ==
  ASSUME IInv, NEW w \in Syncs, NEW new \in Job, Do(w, new), new.rows = <<>>, new.objects = <<>>,
         stock' \in [Showings -> Stock \union {Absent}], \A s \in Showings : Written(w, s),
         crossed' = crossed,
         \/ new = Resting
         \/ /\ new.step = "load" /\ new.current = None
            /\ new.todo = sync[w].todo
            /\ \/ new.inserts = <<>> /\ new.updates = {}
               \/ new.inserts = sync[w].inserts /\ new.updates = sync[w].updates,
         UNCHANGED <<programme, price, live, form, saved>>
  PROVE  IInv'
<1>1. World /\ sync \in [Syncs -> Job] /\ JobOK(w)  BY DEF IInv
<1>2. sync'[w] = new  BY <1>1 DEF Do
<1>3. DOMAIN new.rows = {} /\ DOMAIN new.objects = {} /\ DOMAIN <<>> = {}  BY Nothing
<1>4. RowsOK(w)'  BY <1>2, <1>3 DEF RowsOK, Held
<1>5. Cardinality({}) = 0 /\ ChunkSize \in Nat  BY FS_EmptySet, AllocineAssumption
<1>6. JobOK(w)'
  <2>1. CASE new = Resting
    <3>1. ChunkOf(w)' = {}  BY <1>2, <1>3, <2>1, RestingOK DEF ChunkOf
    <3> QED BY <1>2, <1>3, <1>5, <2>1, <3>1, RestingOK DEF JobOK
  <2>2. CASE ~(new = Resting)
    <3>2. None \notin Showings  BY AllocineAssumption
    <3>3. ChunkOf(w)' \subseteq Showings /\ new.todo \subseteq Showings
      <4>1. new.inserts \in Rows /\ new.updates \subseteq Showings /\ new.todo \subseteq Showings  BY DEF Job
      <4> QED BY <1>2, <4>1, RowsAre DEF ChunkOf
    <3>4. new.step = "load" /\ new.current = None /\ new.todo = sync[w].todo
      BY <1>1, <2>2
    <3>5. /\ DOMAIN new.inserts \intersect new.updates = {} /\ ChunkOf(w)' \intersect new.todo = {}
          /\ \A s \in DOMAIN new.inserts : Fresh(new.inserts[s])
          /\ Cardinality(ChunkOf(w)') <= ChunkSize
      <4>1. CASE new.inserts = <<>> /\ new.updates = {}
        <5>1. ChunkOf(w)' = {}  BY <1>2, <1>3, <4>1 DEF ChunkOf
        <5> QED BY <1>3, <1>5, <4>1, <5>1
      <4>2. CASE new.inserts = sync[w].inserts /\ new.updates = sync[w].updates
        <5>1. ChunkOf(w)' = ChunkOf(w)  BY <1>2, <4>2 DEF ChunkOf
        <5> QED BY <1>1, <2>2, <4>2, <5>1 DEF JobOK
      <4> QED BY <2>2, <4>1, <4>2
    <3> QED BY <1>2, <1>3, <3>2, <3>3, <3>4, <3>5 DEF JobOK
  <2> QED BY <2>1, <2>2
<1>7. crossed' \subseteq Showings  BY <1>1 DEF World
<1> QED BY <1>3, <1>4, <1>6, <1>7, SyncStep
\* Nothing is written.
LEMMA SameWritten ==
  ASSUME World, UNCHANGED stock, NEW w \in Syncs
  PROVE  stock' \in [Showings -> Stock \union {Absent}] /\ \A s \in Showings : Written(w, s)
BY DEF World, Written

LEMMA AbortKeeps ==
  ASSUME IInv, NEW w \in Syncs, Abort(w), UNCHANGED <<programme, price, live, form, saved>>
  PROVE  IInv'
<1>1. World  BY DEF IInv
<1> QED BY <1>1, SameWritten, RestingOK, EmptyHanded DEF Abort

LEMMA StartKeeps ==
  ASSUME IInv, NEW w \in Syncs, Start(w)
  PROVE  IInv'
<1> DEFINE new == [Resting EXCEPT !.step = "load", !.todo = programme]
<1>1. World /\ sync \in [Syncs -> Job]  BY DEF IInv
<1>2. Do(w, new) /\ UNCHANGED <<programme, price, stock, live, form, saved, crossed>>  BY DEF Start
<1>3. programme \subseteq Showings  BY <1>1 DEF World
<1>4. /\ new \in Job /\ new.step = "load" /\ new.todo = programme
      /\ new.current = None /\ new.inserts = <<>> /\ new.updates = {}
      /\ new.rows = <<>> /\ new.objects = <<>>
  BY <1>3, Nothing DEF Resting, Job
<1> HIDE DEF new
<1>5. sync'[w] = new  BY <1>1, <1>2 DEF Do
<1>6. RowsOK(w)'  BY <1>4, <1>5, Nothing DEF RowsOK, Held
<1>7. Cardinality({}) = 0 /\ ChunkSize \in Nat  BY FS_EmptySet, AllocineAssumption
<1>8. ChunkOf(w)' = {}  BY <1>4, <1>5, Nothing DEF ChunkOf
<1>9. None \notin programme  BY <1>1, AllocineAssumption DEF World
<1>10. JobOK(w)'  BY <1>4, <1>5, <1>7, <1>8, <1>9, Nothing DEF JobOK
<1>11. DOMAIN new.rows = {} /\ crossed' = crossed /\ crossed \subseteq Showings
  BY <1>1, <1>2, <1>4, Nothing DEF World
<1>12. stock' \in [Showings -> Stock \union {Absent}] /\ \A s \in Showings : Written(w, s)
  BY <1>1, <1>2, SameWritten
<1> QED BY <1>2, <1>4, <1>6, <1>10, <1>11, <1>12, SyncStep

LEMMA LoadKeeps ==
  ASSUME IInv, NEW w \in Syncs, NEW s \in Showings, LoadShowing(w, s)
  PROVE  IInv'
<1> DEFINE j == sync[w]
           rule == RuleFor(w, s)
           added == Put(j.inserts, s, NewStock(rule))
           found == [j EXCEPT !.todo = @ \ {s}, !.price = rule, !.step = "flush", !.current = s,
                              !.loaded = stock[s]]
           missing == [j EXCEPT !.todo = @ \ {s}, !.price = rule, !.inserts = added]
           new == IF Exists(s) THEN found ELSE missing
<1>1. World /\ sync \in [Syncs -> Job] /\ j \in Job /\ JobOK(w) /\ RowsOK(w) /\ Apart  BY DEF IInv
<1>2. /\ Do(w, new) /\ UNCHANGED <<programme, price, stock, live, form, saved, crossed>>
      /\ j.step = "load" /\ s \in j.todo /\ ~ChunkIsReady(w)
  BY DEF LoadShowing, Is
<1>3. j.current = None /\ None \notin Showings /\ s # None
  BY <1>1, <1>2, AllocineAssumption DEF JobOK
<1>r. /\ rule \in Amounts \union {None}
      /\ (Exists(s) /\ "price" \in stock[s].fieldsUpdated) \/ rule \in Amounts
  BY <1>1 DEF RuleFor, World, Job
<1>a. ~Exists(s) =>
        /\ added \in Rows /\ DOMAIN added = DOMAIN j.inserts \union {s}
        /\ \A t \in DOMAIN added : Fresh(added[t])
  <2> SUFFICES ASSUME ~Exists(s)  PROVE /\ added \in Rows /\ DOMAIN added = DOMAIN j.inserts \union {s}
                                       /\ \A t \in DOMAIN added : Fresh(added[t])
    OBVIOUS
  <2>1. NewStock(rule) \in Stock /\ Fresh(NewStock(rule))  BY <1>r, DefaultsOK
  <2>2. j.inserts \in Rows /\ \A t \in DOMAIN j.inserts : Fresh(j.inserts[t])  BY <1>1 DEF Job, JobOK
  <2>3. added \in Rows  BY <2>1, <2>2, Putting
  <2> QED BY <2>1, <2>2, <2>3 DEF Put
<1> HIDE DEF rule, added
<1>4. /\ new \in Job /\ new.price = rule /\ new.todo = j.todo \ {s}
      /\ new.updates = j.updates /\ new.rows = j.rows /\ new.objects = j.objects
      /\ IF Exists(s) THEN new.step = "flush" /\ new.current = s /\ new.loaded = stock[s] /\ new.inserts = j.inserts
                      ELSE new.step = "load" /\ new.current = None /\ new.inserts = added
  <2>1. CASE Exists(s)
    <3>1. stock[s] \in Stock  BY <1>1, <2>1, AllRows
    <3> QED BY <1>1, <1>2, <1>r, <2>1, <3>1 DEF Job
  <2>2. CASE ~Exists(s)  BY <1>1, <1>2, <1>3, <1>r, <1>a, <2>2 DEF Job
  <2> QED BY <2>1, <2>2
<1> HIDE DEF new
<1>5. sync'[w] = new  BY <1>1, <1>2 DEF Do
<1>6. Cardinality(ChunkOf(w)) < ChunkSize /\ ChunkOf(w) \subseteq Showings
  <2>1. ChunkOf(w) \subseteq Showings  BY <1>1, RowsAre DEF ChunkOf, Job
  <2> QED BY <1>2, <2>1, Counted, AllocineAssumption DEF ChunkIsReady
<1>7. JobOK(w)'
  <2>1. CASE Exists(s)
    <3>1. ChunkOf(w)' = ChunkOf(w)  BY <1>4, <1>5, <2>1 DEF ChunkOf
    <3>2. stock[s] \in Stock /\ Exists(s)'  BY <1>1, <1>2, <2>1, AllRows DEF Exists
    <3>3. Priced(w, stock[s])'  BY <1>2, <1>4, <1>5, <1>r, <2>1 DEF Priced
    <3> QED BY <1>1, <1>2, <1>3, <1>4, <1>5, <1>6, <2>1, <3>1, <3>2, <3>3 DEF JobOK, Priced
  <2>2. CASE ~Exists(s)
    <3>1. ChunkOf(w)' = ChunkOf(w) \union {s}  BY <1>4, <1>5, <1>a, <2>2 DEF ChunkOf
    <3>2. s \notin ChunkOf(w)  BY <1>1, <1>2 DEF JobOK
    <3>3. Cardinality(ChunkOf(w) \union {s}) = Cardinality(ChunkOf(w)) + 1
      BY <1>6, <3>2, Counted, FS_AddElement
    <3>4. Cardinality(ChunkOf(w)') <= ChunkSize
      BY <1>6, <3>1, <3>3, Counted, AllocineAssumption
    <3>5. s \notin DOMAIN j.inserts /\ s \notin j.updates  BY <3>2 DEF ChunkOf
    <3>6. /\ ChunkOf(w)' \intersect new.todo = {} /\ DOMAIN new.inserts \intersect new.updates = {}
          /\ \A t \in DOMAIN new.inserts : Fresh(new.inserts[t])
      BY <1>1, <1>4, <1>a, <2>2, <3>1, <3>5 DEF JobOK
    <3>7. None \notin ChunkOf(w)' \union new.todo
      BY <1>3, <1>4, <1>6, <3>1, <1>1 DEF Job
    <3> QED BY <1>1, <1>2, <1>3, <1>4, <1>5, <2>2, <3>4, <3>6, <3>7 DEF JobOK
  <2> QED BY <2>1, <2>2
<1>8. RowsOK(w)'  BY <1>1, <1>2, <1>4, <1>5 DEF RowsOK, Held, Exists
<1>9. \A v \in Syncs \ {w} : DOMAIN new.rows \intersect Held(v) = {}
  BY <1>1, <1>4 DEF Apart, Held
<1>10. stock' \in [Showings -> Stock \union {Absent}] /\ \A t \in Showings : Written(w, t)
  BY <1>1, <1>2, SameWritten
<1> QED BY <1>1, <1>2, <1>4, <1>7, <1>8, <1>9, <1>10, SyncStep DEF World

LEMMA FlushKeeps ==
  ASSUME IInv, NEW w \in Syncs, FlushUpdate(w)
  PROVE  IInv'
<1> DEFINE j == sync[w]
           s == j.current
           flushed == Flushed(w)
           filled == Filled(w, j.loaded)
           new == [j EXCEPT !.step = "load", !.current = None, !.loaded = None,
                     !.updates = @ \union {s}, !.rows = Put(@, s, flushed), !.objects = Put(@, s, filled)]
<1>1. World /\ sync \in [Syncs -> Job] /\ j \in Job /\ JobOK(w) /\ RowsOK(w) /\ Apart  BY DEF IInv
<1>2. CASE ~HoldsBookings(s, flushed)
  BY <1>2, AbortKeeps DEF FlushUpdate
<1>3. CASE HoldsBookings(s, flushed)
  <2>1. /\ Do(w, new) /\ UNCHANGED <<programme, price, stock, live, form, saved>>
        /\ crossed' = IF stock[s] # j.loaded THEN crossed \union {s} ELSE crossed
        /\ j.step = "flush" /\ Unlocked(s)
    BY <1>3 DEF FlushUpdate, Is
  <2>2. /\ s \in Showings /\ s # None /\ Exists(s) /\ stock[s] \in Stock /\ j.loaded \in Stock
        /\ Priced(w, j.loaded) /\ s \notin ChunkOf(w) \union j.todo
        /\ Cardinality(ChunkOf(w)) < ChunkSize
    <3>1. s \in Showings  BY <1>1, <2>1 DEF JobOK, Job
    <3> QED BY <1>1, <2>1, <3>1, AllRows DEF JobOK
  <2>3. /\ flushed \in Stock /\ filled \in Stock
        /\ stock[s] = j.loaded => Kept(stock[s], flushed) /\ Kept(stock[s], filled)
    BY <2>2, FlushingKeeps, FillingKeeps
  <2> HIDE DEF flushed, filled
  <2>4. /\ j.rows \in Rows /\ j.objects \in Rows
        /\ Put(j.rows, s, flushed) \in Rows /\ Put(j.objects, s, filled) \in Rows
    BY <1>1, <2>2, <2>3, Putting DEF Job
  <2>5. /\ new \in Job /\ new.step = "load" /\ new.current = None
        /\ new.todo = j.todo /\ new.inserts = j.inserts /\ new.updates = j.updates \union {s}
    BY <1>1, <2>2, <2>4 DEF Job
  <2>5a. new.rows = Put(j.rows, s, flushed) /\ new.objects = Put(j.objects, s, filled)
    BY <1>1 DEF Job
  <2> HIDE DEF new
  <2>6. sync'[w] = new  BY <1>1, <2>1 DEF Do
  <2>7. /\ DOMAIN new.rows = Held(w) \union {s} /\ DOMAIN new.objects = Held(w) \union {s}
        /\ new.rows[s] = flushed /\ new.objects[s] = filled
        /\ \A t \in Held(w) : t # s => new.rows[t] = j.rows[t] /\ new.objects[t] = j.objects[t]
    <3>1. DOMAIN j.rows = Held(w) /\ DOMAIN j.objects = Held(w)  BY <1>1 DEF JobOK, Held
    <3>2. /\ DOMAIN new.rows = DOMAIN j.rows \union {s} /\ new.rows[s] = flushed
          /\ \A t \in DOMAIN j.rows : t # s => new.rows[t] = j.rows[t]
      <4>1. new.rows = Put(j.rows, s, flushed)  BY <2>5a
      <4>. QED BY ONLY <4>1 DEF Put
    <3>3. /\ DOMAIN new.objects = DOMAIN j.objects \union {s} /\ new.objects[s] = filled
          /\ \A t \in DOMAIN j.objects : t # s => new.objects[t] = j.objects[t]
      <4>1. new.objects = Put(j.objects, s, filled)  BY <2>5a
      <4>. QED BY ONLY <4>1 DEF Put
    <3> QED BY <3>1, <3>2, <3>3
  <2>8. JobOK(w)'
    <3>1. ChunkOf(w)' = ChunkOf(w) \union {s}  BY <2>5, <2>6 DEF ChunkOf
    <3>2. ChunkOf(w) \subseteq Showings /\ j.todo \subseteq Showings  BY <1>1, RowsAre DEF ChunkOf, Job
    <3>3. Cardinality(ChunkOf(w)') <= ChunkSize
      <4>1. Cardinality(ChunkOf(w) \union {s}) = Cardinality(ChunkOf(w)) + 1
        BY <2>2, <3>2, Counted, FS_AddElement
      <4> QED BY <2>2, <3>1, <3>2, <4>1, Counted, AllocineAssumption
    <3>4. s \notin DOMAIN j.inserts /\ s \notin j.updates /\ s \notin j.todo  BY <2>2 DEF ChunkOf
    <3>5. /\ ChunkOf(w)' \intersect new.todo = {} /\ DOMAIN new.inserts \intersect new.updates = {}
          /\ \A t \in DOMAIN new.inserts : Fresh(new.inserts[t])
      BY <1>1, <2>5, <3>1, <3>4 DEF JobOK
    <3>6. None \notin ChunkOf(w)' \union new.todo
      BY <2>2, <2>5, <3>1, <3>2, AllocineAssumption
    <3>7. DOMAIN new.rows \subseteq new.updates  BY <1>1, <2>5, <2>7 DEF JobOK, Held
    <3> QED BY <2>2, <2>5, <2>6, <2>7, <3>3, <3>5, <3>6, <3>7 DEF JobOK
  <2>9. RowsOK(w)'
    <3> SUFFICES ASSUME NEW t \in Held(w) \union {s}
                 PROVE  /\ Exists(t)
                        /\ t \notin crossed' => Kept(stock[t], new.rows[t]) /\ Kept(stock[t], new.objects[t])
      BY <2>1, <2>6, <2>7 DEF RowsOK, Held, Exists
    <3>1. CASE t = s  BY <2>1, <2>2, <2>3, <2>7, <3>1
    <3>2. CASE t # s
      <4>1. t \in Held(w) /\ (t \notin crossed' => t \notin crossed)  BY <2>1, <3>2
      <4> QED BY <1>1, <2>7, <3>2, <4>1 DEF RowsOK
    <3> QED BY <3>1, <3>2
  <2>10. \A v \in Syncs \ {w} : DOMAIN new.rows \intersect Held(v) = {}
    BY <1>1, <2>1, <2>7 DEF Apart, Held, Unlocked
  <2>11. stock' \in [Showings -> Stock \union {Absent}] /\ \A t \in Showings : Written(w, t)
    BY <1>1, <2>1, SameWritten
  <2>12. crossed \subseteq crossed' /\ crossed' \subseteq Showings
    BY <1>1, <2>1, <2>2 DEF World
  <2> QED BY <2>1, <2>5, <2>8, <2>9, <2>10, <2>11, <2>12, SyncStep
<1> QED BY <1>2, <1>3
\* Writing back what a process has flushed, or the objects of its session.
LEMMA Overlaid ==
  ASSUME IInv, NEW w \in Syncs, NEW rows, rows \in {sync[w].rows, sync[w].objects}
  PROVE  /\ Overlay(rows) \in [Showings -> Stock \union {Absent}]
         /\ \A s \in Showings \ Held(w) : Overlay(rows)[s] = stock[s]
         /\ \A s \in Held(w) : /\ s \in Showings /\ Overlay(rows)[s] \in Stock
                               /\ s \notin crossed => Kept(stock[s], Overlay(rows)[s])
<1>1. World /\ sync[w] \in Job /\ JobOK(w) /\ RowsOK(w)  BY DEF IInv
<1>2. rows \in Rows /\ DOMAIN rows = Held(w)  BY <1>1 DEF Job, JobOK, Held
<1>3. Held(w) \subseteq Showings /\ \A s \in Held(w) : rows[s] \in Stock  BY <1>2, RowsAre
<1>4. \A s \in Held(w) : s \notin crossed => Kept(stock[s], rows[s])  BY <1>1 DEF RowsOK
<1>5. stock \in [Showings -> Stock \union {Absent}]  BY <1>1 DEF World
<1> QED BY <1>2, <1>3, <1>4, <1>5 DEF Overlay

LEMMA OverlayWritten ==
  ASSUME IInv, NEW w \in Syncs, NEW rows, rows \in {sync[w].rows, sync[w].objects},
         stock' = Overlay(rows)
  PROVE  stock' \in [Showings -> Stock \union {Absent}] /\ \A s \in Showings : Written(w, s)
BY Overlaid DEF Written

\* A chunk is inserted, or its objects are written back.
LEMMA SaveWritten ==
  ASSUME IInv, NEW w \in Syncs, SaveChunk(w)
  PROVE  \/ Abort(w)
         \/ /\ stock' \in [Showings -> Stock \union {Absent}] /\ \A s \in Showings : Written(w, s)
            /\ ChunkSaved(w)
<1>1. CASE InsertChunk(w) /\ ~\E s \in DOMAIN sync[w].inserts : Exists(s)
  <2> DEFINE rows == sync[w].rows
             inserts == sync[w].inserts
  <2>1. /\ stock' = [s \in Showings |-> IF s \in DOMAIN inserts THEN inserts[s] ELSE Overlay(rows)[s]]
        /\ ChunkSaved(w)
    BY <1>1 DEF InsertChunk
  <2>2. JobOK(w) /\ inserts \in Rows  BY DEF IInv, Job
  <2>3. \A s \in DOMAIN inserts : inserts[s] \in Stock /\ Fresh(inserts[s])
    BY <2>2, RowsAre DEF JobOK
  <2>4. rows \in {sync[w].rows, sync[w].objects}  OBVIOUS
  <2> HIDE DEF rows
  <2>5. /\ Overlay(rows) \in [Showings -> Stock \union {Absent}]
        /\ \A s \in Showings \ Held(w) : Overlay(rows)[s] = stock[s]
        /\ \A s \in Held(w) : Overlay(rows)[s] \in Stock
                              /\ (s \notin crossed => Kept(stock[s], Overlay(rows)[s]))
    BY <2>4, Overlaid
  <2>6. stock' \in [Showings -> Stock \union {Absent}]  BY <2>1, <2>3, <2>5
  <2>7. ASSUME NEW s \in Showings  PROVE Written(w, s)
    <3>1. CASE s \in DOMAIN inserts  BY <1>1, <2>1, <2>3, <3>1 DEF Written, Fresh
    <3>2. CASE s \notin DOMAIN inserts
      <4>1. stock'[s] = Overlay(rows)[s]  BY <2>1, <3>2
      <4> QED BY <2>5, <4>1 DEF Written
    <3> QED BY <3>1, <3>2
  <2> QED BY <2>1, <2>6, <2>7
<1>2. CASE UpdateChunk(w) /\ ~\E s \in DOMAIN sync[w].objects : ~HoldsBookings(s, sync[w].objects[s])
  BY <1>2, OverlayWritten DEF UpdateChunk
<1>3. CASE Abort(w)  BY <1>3
<1> QED BY <1>1, <1>2, <1>3 DEF SaveChunk, InsertChunk, UpdateChunk

LEMMA SaveKeeps ==
  ASSUME IInv, NEW w \in Syncs, SaveChunk(w)
  PROVE  IInv'
<1>1. CASE Abort(w)  BY <1>1, AbortKeeps DEF SaveChunk
<1>2. CASE ChunkSaved(w) /\ stock' \in [Showings -> Stock \union {Absent}] /\ \A s \in Showings : Written(w, s)
  <2> DEFINE rest == [sync[w] EXCEPT !.price = None, !.inserts = <<>>, !.updates = {},
                                   !.rows = <<>>, !.objects = <<>>]
             new == IF sync[w].todo = {} THEN Resting ELSE rest
  <2>1. sync[w] \in Job /\ JobOK(w) /\ sync[w].step = "load"  BY DEF IInv, SaveChunk, Is
  <2>2. /\ rest \in Job /\ rest.step = "load" /\ rest.current = None
        /\ rest.todo = sync[w].todo /\ rest.inserts = <<>> /\ rest.updates = {}
        /\ rest.rows = <<>> /\ rest.objects = <<>>
    BY <2>1, Nothing DEF Job, JobOK
  <2>3. Do(w, new) /\ UNCHANGED <<programme, price, live, form, saved, crossed>>
    BY <1>2 DEF ChunkSaved, SaveChunk
  <2> HIDE DEF rest
  <2>4. new \in Job /\ new.rows = <<>> /\ new.objects = <<>>  BY <2>2, RestingOK
  <2>5. new = Resting \/ new = rest  OBVIOUS
  <2> HIDE DEF new
  <2> QED BY <1>2, <2>1, <2>2, <2>3, <2>4, <2>5, EmptyHanded
<1> QED BY <1>1, <1>2, SaveWritten

LEMMA LogKeeps ==
  ASSUME IInv, NEW w \in Syncs, LogError(w)
  PROVE  IInv'
<1> DEFINE new == [sync[w] EXCEPT !.price = None, !.rows = <<>>, !.objects = <<>>]
<1>1. sync[w] \in Job /\ JobOK(w) /\ sync[w].step = "load"  BY DEF IInv, LogError, Is
<1>2. /\ new \in Job /\ new.step = "load" /\ new.current = None
      /\ new.todo = sync[w].todo /\ new.inserts = sync[w].inserts /\ new.updates = sync[w].updates
      /\ new.rows = <<>> /\ new.objects = <<>>
  BY <1>1, Nothing DEF Job, JobOK
<1>3. /\ Do(w, new) /\ stock' = Overlay(sync[w].rows)
      /\ UNCHANGED <<programme, price, live, form, saved, crossed>>
  BY DEF LogError
<1>4. stock' \in [Showings -> Stock \union {Absent}] /\ \A s \in Showings : Written(w, s)
  BY <1>3, OverlayWritten
<1> HIDE DEF new
<1> QED BY <1>1, <1>2, <1>3, <1>4, EmptyHanded

LEMMA SyncKeeps ==
  ASSUME IInv, NEW w \in Syncs, Start(w) \/ GoOn(w) \/ LogError(w) \/ Kill(w)
  PROVE  IInv'
<1>1. CASE FlushFails(w) \/ Kill(w)  BY <1>1, AbortKeeps DEF FlushFails, Kill
<1>2. CASE GoOn(w)  BY <1>1, <1>2, LoadKeeps, FlushKeeps, SaveKeeps DEF GoOn
<1> QED BY <1>1, <1>2, StartKeeps, LogKeeps
-----------------------------------------------------------------------------
(* Everybody else.                                                          *)

\* A stock that no synchronisation has locked changes.
LEMMA OneChanges ==
  ASSUME IInv, NEW s \in Showings, Exists(s), Unlocked(s), NEW row \in Stock,
         stock' = [stock EXCEPT ![s] = row],
         live' \in [Showings -> Nat], \A t \in Showings \ {s} : live'[t] = live[t],
         saved' \in [Showings -> [Fields -> Amounts \union {None}]],
         \A t \in Showings \ {s} : saved'[t] = saved[t],
         s \notin crossed => /\ row.dnBookedQuantity = live'[s]
                             /\ \A f \in row.fieldsUpdated : row.values[f] = saved'[s][f],
         \/ form' = None
         \/ form' = form /\ row.fieldsUpdated = stock[s].fieldsUpdated,
         UNCHANGED <<programme, price, sync, crossed>>
  PROVE  IInv'
<1>1. World /\ sync \in [Syncs -> Job] /\ Apart /\ FormOK  BY DEF IInv
<1>2. /\ stock' \in [Showings -> Stock \union {Absent}] /\ stock'[s] = row
      /\ \A t \in Showings \ {s} : stock'[t] = stock[t]
  BY <1>1 DEF World
<1>3. row # Absent  BY AllocineAssumption
<1>4. \A t \in Showings : Exists(t)' <=> Exists(t)  BY <1>2, <1>3 DEF Exists
<1>5. World'  BY <1>1, <1>2 DEF World
<1>6. ASSUME NEW w \in Syncs  PROVE JobOK(w)' /\ RowsOK(w)'
  <2>1. JobOK(w) /\ RowsOK(w) /\ sync[w] \in Job  BY <1>1 DEF IInv
  <2>2. sync[w].step = "flush" => sync[w].current \in Showings  BY <2>1 DEF JobOK, Job
  <2>3. ChunkOf(w)' = ChunkOf(w)  BY DEF ChunkOf
  <2>4. JobOK(w)'  BY <1>4, <2>1, <2>2, <2>3 DEF JobOK, Priced
  <2>5. Held(w)' = Held(w) /\ Held(w) \subseteq Showings /\ s \notin Held(w)
    BY <2>1, RowsAre DEF Held, Job, Unlocked
  <2>6. RowsOK(w)'
    <3> SUFFICES ASSUME NEW t \in Held(w)
                 PROVE  /\ Exists(t)'
                        /\ t \notin crossed => /\ Kept(stock'[t], sync[w].rows[t])
                                               /\ Kept(stock'[t], sync[w].objects[t])
      BY <2>5 DEF RowsOK
    <3>1. stock'[t] = stock[t] /\ t \in Showings  BY <1>2, <2>5
    <3> QED BY <1>4, <2>1, <3>1 DEF RowsOK
  <2> QED BY <2>4, <2>6
<1>7. ASSUME NEW t \in Showings  PROVE StockOK(t)'
  <2>1. StockOK(t)  BY DEF IInv
  <2>2. CASE t = s  BY <1>2, <1>4, <2>2 DEF StockOK
  <2>3. CASE t # s  BY <1>2, <1>4, <2>1, <2>3 DEF StockOK
  <2> QED BY <2>2, <2>3
<1>8. FormOK'
  <2>1. CASE form' = None  BY <2>1 DEF FormOK
  <2>2. CASE form' = form /\ row.fieldsUpdated = stock[s].fieldsUpdated
    <3> SUFFICES ASSUME form # None  PROVE FormOK'
      BY <2>2 DEF FormOK
    <3>1. stock'[form.showing].fieldsUpdated = stock[form.showing].fieldsUpdated
      BY <1>1, <1>2, <2>2 DEF FormOK
    <3> QED BY <1>1, <1>4, <2>2, <3>1 DEF FormOK
  <2> QED BY <2>1, <2>2
<1>9. Apart'  BY <1>1 DEF Apart, Held
<1> QED BY <1>1, <1>5, <1>6, <1>7, <1>8, <1>9 DEF IInv

LEMMA EditKeeps ==
  ASSUME IInv, NEW values \in [Fields -> Amounts], EditSave(values)
  PROVE  IInv'
<1> DEFINE s == form.showing
           old == form.loaded
           updates == {f \in Fields : values[f] # old.values[f]}
           written == [f \in Fields |-> IF f \in updates THEN values[f] ELSE stock[s].values[f]]
           fields == IF updates # old.fieldsUpdated THEN updates ELSE stock[s].fieldsUpdated
           row == [stock[s] EXCEPT !.values = written, !.fieldsUpdated = fields]
           said == [f \in Fields |-> IF f \in updates THEN values[f] ELSE saved[s][f]]
<1>1. World /\ FormOK  BY DEF IInv
<1>2. /\ form # None /\ form' = None /\ Unlocked(s)
      /\ stock' = [stock EXCEPT ![s] = row] /\ saved' = [saved EXCEPT ![s] = said]
      /\ UNCHANGED <<programme, price, live, sync, edits, faults, crossed>>
  BY DEF EditSave, MayChange
<1>3. s \in Showings /\ Exists(s) /\ stock[s] \in Stock /\ old \in Stock
      /\ (s \notin crossed => old.fieldsUpdated = stock[s].fieldsUpdated)
  BY <1>1, <1>2, AllRows DEF FormOK
<1>4. saved[s] \in [Fields -> Amounts \union {None}] /\ saved \in [Showings -> [Fields -> Amounts \union {None}]]
      /\ live \in [Showings -> Nat]
  BY <1>1, <1>3 DEF World
<1>5. written \in [Fields -> Amounts] /\ fields \in SUBSET Fields /\ said \in [Fields -> Amounts \union {None}]
  BY <1>3, <1>4 DEF Stock
<1>6. s \notin crossed => \A f \in fields : written[f] = said[f]
  <2> SUFFICES ASSUME s \notin crossed, NEW f \in fields  PROVE written[f] = said[f]
    OBVIOUS
  <2>1. StockOK(s)  BY <1>3 DEF IInv
  <2>2. f \in Fields  BY <1>5
  <2>3. f \in updates \/ f \in stock[s].fieldsUpdated
    BY <1>3
  <2>4. f \in stock[s].fieldsUpdated => stock[s].values[f] = saved[s][f]
    BY <1>3, <2>1 DEF StockOK
  <2> QED BY <2>2, <2>3, <2>4
<1> HIDE DEF written, fields, said
<1>7. row \in Stock /\ row.values = written /\ row.fieldsUpdated = fields
      /\ row.dnBookedQuantity = stock[s].dnBookedQuantity
  BY <1>3, <1>5 DEF Stock
<1> HIDE DEF row
<1>8. /\ saved' \in [Showings -> [Fields -> Amounts \union {None}]] /\ saved'[s] = said
      /\ \A t \in Showings \ {s} : saved'[t] = saved[t]
  BY <1>2, <1>3, <1>4, <1>5
<1>9. s \notin crossed => row.dnBookedQuantity = live'[s]
  <2>1. StockOK(s)  BY <1>3 DEF IInv
  <2> QED BY <1>2, <1>3, <1>7, <2>1 DEF StockOK
<1>10. live' \in [Showings -> Nat] /\ \A t \in Showings \ {s} : live'[t] = live[t]
  BY <1>2, <1>4
<1>11. s \notin crossed => \A f \in row.fieldsUpdated : row.values[f] = saved'[s][f]
  BY <1>6, <1>7, <1>8
<1> HIDE DEF s
<1> QED BY <1>2, <1>3, <1>7, <1>8, <1>9, <1>10, <1>11, OneChanges

\* Bookings and deletions change the counter with the bookings.
LEMMA CounterMoves ==
  ASSUME IInv, NEW s \in Showings, Exists(s), Unlocked(s), NEW n \in Nat, NEW d \in Int, NEW gone \in BOOLEAN,
         s \notin crossed => d = n,
         stock' = [stock EXCEPT ![s] = [stock[s] EXCEPT !.dnBookedQuantity = d, !.isSoftDeleted = gone]],
         live' = [live EXCEPT ![s] = n],
         UNCHANGED <<programme, price, sync, form, saved, crossed>>
  PROVE  IInv'
<1> DEFINE row == [stock[s] EXCEPT !.dnBookedQuantity = d, !.isSoftDeleted = gone]
<1>1. World /\ StockOK(s) /\ stock[s] \in Stock  BY AllRows DEF IInv
<1>2. /\ row \in Stock /\ row.dnBookedQuantity = d /\ row.fieldsUpdated = stock[s].fieldsUpdated
      /\ row.values = stock[s].values
  BY <1>1 DEF Stock
<1> HIDE DEF row
<1>3. stock' = [stock EXCEPT ![s] = row]  BY DEF row
<1>4. live' \in [Showings -> Nat] /\ live'[s] = n /\ \A t \in Showings \ {s} : live'[t] = live[t]
  BY <1>1 DEF World
<1>5. /\ saved' \in [Showings -> [Fields -> Amounts \union {None}]]
      /\ \A t \in Showings \ {s} : saved'[t] = saved[t]
  BY <1>1 DEF World
<1>6. s \notin crossed => row.dnBookedQuantity = live'[s]  BY <1>2, <1>4
<1>7. s \notin crossed => \A f \in row.fieldsUpdated : row.values[f] = saved'[s][f]
  BY <1>1, <1>2 DEF StockOK
<1> QED BY <1>2, <1>3, <1>4, <1>5, <1>6, <1>7, OneChanges
LEMMA DeskKeeps ==
  ASSUME IInv, NEW s \in Popular, Delete(s) \/ Book(s) \/ Cancel(s)
  PROVE  IInv'
<1>1. World /\ s \in Showings /\ StockOK(s) /\ live[s] \in Nat
  BY AllocineAssumption DEF IInv, World
<1>2. Exists(s) /\ Unlocked(s)
  BY <1>1 DEF Delete, Book, Cancel, MayChange, StockOK
<1>3. stock[s] \in Stock /\ stock[s].dnBookedQuantity \in Int /\ stock[s].isSoftDeleted \in BOOLEAN
      /\ (s \notin crossed => stock[s].dnBookedQuantity = live[s])
  BY <1>1, <1>2, AllRows DEF Stock, StockOK
<1> DEFINE Moved(d, gone) == [stock[s] EXCEPT !.dnBookedQuantity = d, !.isSoftDeleted = gone]
<1>4. CASE Delete(s)
  <2> DEFINE d == stock[s].dnBookedQuantity - live[s]
  <2>1. stock' = [stock EXCEPT ![s] = [stock[s] EXCEPT !.dnBookedQuantity = d, !.isSoftDeleted = TRUE]]
    BY <1>1, <1>3, <1>4 DEF Delete, Stock, World
  <2>2. live' = [live EXCEPT ![s] = 0] /\ UNCHANGED <<programme, price, sync, form, saved, crossed>>
    BY <1>4 DEF Delete
  <2>3. d \in Int /\ (s \notin crossed => d = 0)  BY <1>1, <1>3
  <2> HIDE DEF d
  <2> QED BY <1>1, <1>2, <2>1, <2>2, <2>3, CounterMoves
<1>5. CASE Book(s)
  <2> DEFINE d == stock[s].dnBookedQuantity + 1
             gone == stock[s].isSoftDeleted
             n == live[s] + 1
  <2>1. stock' = [stock EXCEPT ![s] = [stock[s] EXCEPT !.dnBookedQuantity = d, !.isSoftDeleted = gone]]
    <3>1. stock' = [stock EXCEPT ![s] = [stock[s] EXCEPT !.dnBookedQuantity = d]]
      BY <1>1, <1>5 DEF Book, World
    <3>2. [stock[s] EXCEPT !.dnBookedQuantity = d] = Moved(d, gone)
      BY <1>3 DEF Stock
    <3> QED BY <3>1, <3>2
  <2>2. live' = [live EXCEPT ![s] = n] /\ UNCHANGED <<programme, price, sync, form, saved, crossed>>
    BY <1>5 DEF Book
  <2>3. d \in Int /\ n \in Nat /\ gone \in BOOLEAN /\ (s \notin crossed => d = n)  BY <1>1, <1>3
  <2> HIDE DEF d, gone, n
  <2> QED BY <1>1, <1>2, <2>1, <2>2, <2>3, CounterMoves
<1>6. CASE Cancel(s)
  <2> DEFINE d == stock[s].dnBookedQuantity - 1
             gone == stock[s].isSoftDeleted
             n == live[s] - 1
  <2>1. stock' = [stock EXCEPT ![s] = [stock[s] EXCEPT !.dnBookedQuantity = d, !.isSoftDeleted = gone]]
    <3>1. stock' = [stock EXCEPT ![s] = [stock[s] EXCEPT !.dnBookedQuantity = d]]
      BY <1>1, <1>6 DEF Cancel, World
    <3>2. [stock[s] EXCEPT !.dnBookedQuantity = d] = Moved(d, gone)
      BY <1>3 DEF Stock
    <3> QED BY <3>1, <3>2
  <2>2. live' = [live EXCEPT ![s] = n] /\ UNCHANGED <<programme, price, sync, form, saved, crossed>>
    BY <1>6 DEF Cancel
  <2>3. d \in Int /\ n \in Nat /\ gone \in BOOLEAN /\ (s \notin crossed => d = n)
    BY <1>1, <1>3, <1>6 DEF Cancel
  <2> HIDE DEF d, gone, n
  <2> QED BY <1>1, <1>2, <2>1, <2>2, <2>3, CounterMoves
<1> QED BY <1>4, <1>5, <1>6

\* Steps that write no stock.
LEMMA NoStockWritten ==
  ASSUME IInv, UNCHANGED <<stock, live, sync, saved, crossed>>,
         programme' \subseteq Showings, price' \in Amounts, FormOK'
  PROVE  IInv'
<1>1. World'  BY DEF IInv, World
<1>2. \A w \in Syncs : JobOK(w)' /\ RowsOK(w)'
  <2> SUFFICES ASSUME NEW w \in Syncs  PROVE JobOK(w)' /\ RowsOK(w)'
    OBVIOUS
  <2>1. JobOK(w) /\ RowsOK(w)  BY DEF IInv
  <2>2. JobOK(w)'  BY <2>1 DEF JobOK, ChunkOf, Exists, Priced
  <2>3. RowsOK(w)'  BY <2>1 DEF RowsOK, Held, Exists
  <2> QED BY <2>2, <2>3
<1>3. \A s \in Showings : StockOK(s)'
  <2> SUFFICES ASSUME NEW s \in Showings  PROVE StockOK(s)'
    OBVIOUS
  <2>1. StockOK(s)  BY DEF IInv
  <2> QED BY <2>1 DEF StockOK, Exists
<1>4. Apart'  BY DEF IInv, Apart, Held
<1>5. sync' \in [Syncs -> Job]  BY DEF IInv
<1> QED BY <1>1, <1>2, <1>3, <1>4, <1>5 DEF IInv

LEMMA FormsKeep ==
  ASSUME IInv, (\E s \in Popular : EditLoad(s)) \/ EditRefused
  PROVE  IInv'
<1>1. World  BY DEF IInv
<1>2. programme' \subseteq Showings /\ price' \in Amounts /\ UNCHANGED <<stock, live, sync, saved, crossed>>
  BY <1>1 DEF EditLoad, EditRefused, World
<1>3. FormOK'
  <2>1. CASE EditRefused  BY <2>1 DEF EditRefused, FormOK
  <2>2. ASSUME NEW s \in Popular, EditLoad(s)  PROVE FormOK'
    <3>1. s \in Showings /\ Exists(s) /\ stock' = stock /\ crossed' = crossed
          /\ form'.showing = s /\ form'.loaded = stock[s]
      BY <2>2, AllocineAssumption DEF EditLoad
    <3>2. stock[s] \in Stock  BY <1>1, <3>1, AllRows
    <3> QED BY <3>1, <3>2 DEF FormOK, Exists
  <2> QED BY <2>1, <2>2
<1> QED BY <1>2, <1>3, NoStockWritten

LEMMA NewsKeep ==
  ASSUME IInv, ModifyPriceRule \/ \E s \in Showings : Announce(s)
  PROVE  IInv'
<1>1. World /\ FormOK  BY DEF IInv
<1>2. /\ programme' \subseteq Showings /\ price' \in Amounts
      /\ UNCHANGED <<stock, live, sync, form, saved, crossed>>
  BY <1>1 DEF ModifyPriceRule, Announce, World
<1>3. FormOK'  BY <1>1, <1>2 DEF FormOK, Exists
<1> QED BY <1>2, <1>3, NoStockWritten

LEMMA NextKeeps == IInv /\ [Next]_vars => IInv'
<1>1. ASSUME IInv, UNCHANGED vars  PROVE IInv'
  <2>1. World /\ FormOK  BY <1>1 DEF IInv
  <2>2. FormOK'  BY <1>1, <2>1 DEF FormOK, Exists, vars
  <2> QED BY <1>1, <2>1, <2>2, NoStockWritten DEF vars, World
<1>2. ASSUME IInv, Next  PROVE IInv'
  BY <1>2, SyncKeeps, EditKeeps, DeskKeeps, FormsKeep, NewsKeep DEF Next
<1> QED BY <1>1, <1>2

LEMMA InitOK == Init => IInv
<1> SUFFICES ASSUME Init  PROVE IInv
  OBVIOUS
<1>1. \A s \in Showings : ~Exists(s)  BY DEF Init, Exists
<1>2. \A w \in Syncs : sync[w] = Resting  BY DEF Init
<1>3. sync \in [Syncs -> Job]  BY RestingOK DEF Init
<1>4. World  BY AllocineAssumption DEF Init, World
<1>5. \A w \in Syncs : Held(w) = {} /\ ChunkOf(w) = {}
  BY <1>2, RestingOK, Nothing DEF Held, ChunkOf
<1>6. ASSUME NEW w \in Syncs  PROVE JobOK(w) /\ RowsOK(w)
  <2>1. Cardinality({}) = 0 /\ ChunkSize \in Nat  BY FS_EmptySet, AllocineAssumption
  <2>2. sync[w] = Resting /\ Held(w) = {} /\ ChunkOf(w) = {}  BY <1>2, <1>5
  <2>3. DOMAIN sync[w].rows = {} /\ DOMAIN sync[w].objects = {}  BY <2>2, RestingOK, Nothing
  <2>4. JobOK(w)  BY <2>1, <2>2, <2>3, RestingOK DEF JobOK
  <2>5. RowsOK(w)  BY <2>2 DEF RowsOK
  <2> QED BY <2>4, <2>5
<1>7. Apart  BY <1>5 DEF Apart
<1>8. \A s \in Showings : StockOK(s)  BY <1>1 DEF StockOK, Init
<1>9. FormOK  BY DEF Init, FormOK
<1> QED BY <1>3, <1>4, <1>6, <1>7, <1>8, <1>9 DEF IInv

-----------------------------------------------------------------------------
(* The theorems.                                                            *)

\* What each process relies on, and what each stock and form still agree on, in
\* every reachable state: the invariant behind the four properties below.
THEOREM Inductive == Spec => []IInv
BY InitOK, NextKeeps, PTL DEF Spec

\* A showing is in one place of a chunk, chunks do not exceed their size, and
\* only rows that exist are updated (LocalProvider.updateObjects).
THEOREM TypeCorrect == Spec => []TypeOK
<1>1. IInv => TypeOK
  <2> SUFFICES ASSUME IInv  PROVE TypeOK
    OBVIOUS
  <2>1. World /\ FormOK  BY DEF IInv
  <2>2. \A s \in Showings : (Exists(s) => stock[s] \in Stock) /\ live[s] \in Nat /\ (~Exists(s) => live[s] = 0)
    <3>1. \A s \in Showings : StockOK(s)  BY DEF IInv
    <3> QED BY <2>1, <3>1, AllRows DEF World, StockOK
  <2>3. ASSUME NEW w \in Syncs
        PROVE LET j == sync[w] IN
       /\ j.step \in {"idle", "load", "flush"}
       /\ j.step = "flush" <=> j.current # None
       /\ DOMAIN j.inserts \intersect j.updates = {} /\ ChunkOf(w) \intersect j.todo = {}
       /\ j.current \notin ChunkOf(w) \union j.todo
       /\ Cardinality(ChunkOf(w)) <= ChunkSize
       /\ DOMAIN j.rows = DOMAIN j.objects /\ DOMAIN j.rows \subseteq j.updates
       /\ \A s \in DOMAIN j.rows : j.rows[s] \in Stock /\ Exists(s)
       /\ \A s \in DOMAIN j.inserts : j.inserts[s] \in Stock
    <3>1. JobOK(w) /\ RowsOK(w) /\ sync[w] \in Job  BY DEF IInv
    <3>2. /\ \A s \in DOMAIN sync[w].rows : sync[w].rows[s] \in Stock
          /\ \A s \in DOMAIN sync[w].inserts : sync[w].inserts[s] \in Stock
      BY <3>1, RowsAre DEF Job
    <3> QED BY <3>1, <3>2 DEF JobOK, RowsOK, Held, Job
  <2> QED BY <2>1, <2>2, <2>3 DEF TypeOK, World, FormOK
<1> QED BY <1>1, Inductive, PTL

\* Bookings made during a synchronisation are counted, however its queries,
\* flushes, commits and rollbacks cross them: it never writes the counter of a
\* stock that did not change between its load and its flush.
THEOREM CountersStayExact == Spec => []CountersExact
<1>1. IInv => CountersExact  BY DEF IInv, StockOK, CountersExact
<1> QED BY <1>1, Inductive, PTL

\* What the last save of a partner gave the fields it changed is what the stock
\* has (fill_stock_attributes, fieldsUpdated).
THEOREM LastEditIsKept == Spec => []LastEditStands
<1>1. IInv => LastEditStands  BY DEF IInv, StockOK, LastEditStands
<1> QED BY <1>1, Inductive, PTL

\* A deleted stock stays deleted: neither a flush nor update_chunk writes
\* isSoftDeleted back, but on a stock that changed between its load and its flush.
THEOREM DeletionsAreKept == Spec => DeletionsStand
<1> DEFINE Stands == \A s \in Showings :
             Exists(s) /\ stock[s].isSoftDeleted => stock'[s].isSoftDeleted \/ s \in crossed'
<1>1. ASSUME IInv, Next  PROVE Stands
  <2>1. World  BY <1>1 DEF IInv
  <2>2. ASSUME NEW w \in Syncs, Start(w) \/ GoOn(w) \/ LogError(w) \/ Kill(w)  PROVE Stands
    <3>1. CASE UNCHANGED stock  BY <3>1
    <3>2. CASE ~UNCHANGED stock
      <4>1. SaveChunk(w) \/ LogError(w)
        BY <2>2, <3>2 DEF Start, GoOn, LoadShowing, FlushUpdate, FlushFails, Kill, Abort
      <4>2. crossed' = crossed /\ \A s \in Showings : Written(w, s)
        BY <1>1, <3>2, <4>1, SaveWritten, OverlayWritten DEF LogError, ChunkSaved, Abort
      <4> QED BY <4>2 DEF Written, Kept
    <3> QED BY <3>1, <3>2
  <2>3. ASSUME NEW values \in [Fields -> Amounts], EditSave(values)  PROVE Stands
    <3> SUFFICES ASSUME NEW s \in Showings, Exists(s), stock[s].isSoftDeleted
                 PROVE  stock'[s].isSoftDeleted
      OBVIOUS
    <3>1. stock[s] \in Stock  BY <2>1, AllRows
    <3>2. CASE s # form.showing  BY <2>1, <2>3, <3>2 DEF EditSave, World
    <3>3. CASE s = form.showing
      <4>1. PICK written, fields :
              stock' = [stock EXCEPT ![s] = [stock[s] EXCEPT !.values = written, !.fieldsUpdated = fields]]
        BY <2>3, <3>3 DEF EditSave
      <4> QED BY <2>1, <3>1, <4>1 DEF World, Stock
    <3> QED BY <3>2, <3>3
  <2>4. ASSUME NEW t \in Popular, Delete(t) \/ Book(t) \/ Cancel(t)  PROVE Stands
    <3> SUFFICES ASSUME NEW s \in Showings, Exists(s), stock[s].isSoftDeleted
                 PROVE  stock'[s].isSoftDeleted
      OBVIOUS
    <3>1. stock[s] \in Stock  BY <2>1, AllRows
    <3> QED BY <2>1, <2>4, <3>1 DEF Delete, Book, Cancel, World, Stock
  <2>5. CASE UNCHANGED stock  BY <2>5
  <2> QED BY <1>1, <2>2, <2>3, <2>4, <2>5 DEF Next, EditLoad, EditRefused, ModifyPriceRule, Announce
<1>2. IInv /\ [Next]_vars => [Stands]_vars
  BY <1>1
<1> QED BY <1>2, Inductive, PTL DEF Spec, DeletionsStand
=============================================================================
