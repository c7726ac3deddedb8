------------------------ MODULE BeneficiariesProofs ------------------------
(* What TLAPS proves of Beneficiaries, for any number of accounts, requests *)
(* and applications, and any limits.                                        *)
EXTENDS Beneficiaries, TLAPS, FiniteSetTheorems

-----------------------------------------------------------------------------
(* The inductive invariant.                                                 *)

Activating == {"steps:activate", "steps:lock", "activate", "lock", "credit"}

\* What a process has read or chosen, step by step.
JobOK(p) ==
  /\ job[p].step \notin {"idle", "dms:next"} => job[p].user \in Users
  /\ job[p].step \in {"change:flush", "change:delete"} => job[p].input \in Phones
  /\ job[p].step \in {"jouve:save", "dms:save", "dms:import"} =>
       job[p].app \in Applications /\ job[p].user = UserOf[job[p].app]
  /\ job[p].step = "jouve:save" => job[p].app \in JouveApplications
  /\ job[p].step \in {"dms:next", "dms:save", "dms:import"} => p = Batch
  /\ p = Batch => job[p].step \in {"idle", "dms:next", "dms:save", "dms:import"} \union Activating
  /\ job[p].step \in {"activate", "lock"} => job[p].loaded \in BOOLEAN

\* What an activation relies on: the steps stay done, and a row once read as
\* that of a beneficiary still is.  The last step owns the row.
Grounded(p) ==
  /\ job[p].step \in {"activate", "lock", "credit"} => StepsDone(job[p].user)
  /\ job[p].step \in {"activate", "lock"} /\ job[p].loaded = TRUE => user[job[p].user].beneficiary
  /\ job[p].step = "credit" => lock[job[p].user] = p /\ deposits[job[p].user] = 0

\* The import is the only one to decide on what it has yet to process, and
\* Jouve's applications are not among that.
TodoOpen ==
  /\ \A a \in JouveApplications : import[a] \in {"none", "CREATED", "REJECTED"}
  /\ \A a \in batch.todo : import[a] \in {"none", "RETRY"} /\ a \notin JouveApplications
  /\ job[Batch].step \in {"dms:save", "dms:import"} => job[Batch].app \notin batch.todo
  /\ job[Batch].step = "idle" => batch.todo = {}

\* The requests between the reading of a counter and its increment.
Attempting(u) == {p \in Requests : job[p].step = "validate:count" /\ job[p].user = u}
Sending(u) == {p \in Requests : job[p].step \in {"send:save", "send:count"} /\ job[p].user = u}
Counted(u) ==
  /\ attempts[u] + Cardinality(Attempting(u)) < MaxAttempts + Cardinality(Requests)
  /\ sms[u] + Cardinality(Sending(u)) < MaxSms + Cardinality(Requests)

\* Whoever is ready is a beneficiary, or about to be looked at.
Ready(u) == Imported(u) /\ (ForcePhone => user[u].validated) /\ user[u].completed = "submitted"
LookedAt(u) == \E p \in Processes : job[p].user = u /\ job[p].step \in Activating
Followed(u) == Ready(u) => user[u].beneficiary \/ LookedAt(u)

Batches == [todo: SUBSET Applications, retry: SUBSET Applications]

IInv ==
  /\ TypeOK /\ batch \in Batches
  /\ \A p \in Processes : JobOK(p) /\ Grounded(p)
  /\ TodoOpen
  /\ CreditedOnce /\ BeneficiariesDidEveryStep
  /\ \A u \in Users : Counted(u) /\ Followed(u)

-----------------------------------------------------------------------------
(* What every step owes the invariant.                                      *)

\* Everything but the processes.
DataOK ==
  /\ user \in [Users -> User]
  /\ deposits \in [Users -> Nat]
  /\ token \subseteq Users \X Codes
  /\ import \in [Applications -> ImportStatus]
  /\ attempts \in [Users -> Nat] /\ sms \in [Users -> Nat]
  /\ lock \in [Users -> Processes \union {None}]
  /\ batch \in Batches

LEMMA Typed ==
  /\ TypeOK /\ batch \in Batches <=> DataOK /\ job \in [Processes -> Job]
BY DEF TypeOK, DataOK, Batches

LEMMA Constants ==
  /\ Batch \notin Requests /\ None \notin Processes /\ Batch \in Processes /\ Requests \subseteq Processes
  /\ None \notin Users /\ None \notin Applications /\ None \notin Phones /\ None \notin Codes
  /\ \A a \in Applications : UserOf[a] \in Users
  /\ \A u \in Users : PhoneOf[u] \in Phones
  /\ IsFiniteSet(Requests) /\ Cardinality(Requests) \in Nat
  /\ MaxAttempts \in Nat \ {0} /\ MaxSms \in Nat \ {0}
<1>1. Cardinality(Requests) \in Nat  BY BeneficiariesAssumption, FS_CardinalityType
<1> QED BY <1>1, BeneficiariesAssumption DEF Processes

\* What is left to show of a step of process p that credits nobody.
LEMMA StepKeeps ==
  ASSUME IInv, NEW p \in Processes, NEW new \in Job, job' = [job EXCEPT ![p] = new], DataOK',
         JobOK(p)', Grounded(p)', TodoOpen',
         \A u \in Users : /\ user'[u].beneficiary = user[u].beneficiary
                          /\ StepsDone(u) => StepsDone(u)',
         deposits' = deposits,
         \A q \in Processes \ {p}, u \in Users : lock[u] = q => lock'[u] = q,
         \A u \in Users : Counted(u)',
         \A u \in Users : Ready(u)' => Ready(u) \/ LookedAt(u)',
         \A u \in Users : job[p].user = u /\ job[p].step \in Activating /\ Ready(u)' /\ ~user[u].beneficiary =>
                            new.user = u /\ new.step \in Activating
  PROVE  IInv'
<1>t. DataOK /\ job \in [Processes -> Job]  BY Typed DEF IInv
<1>1. job'[p] = new /\ \A q \in Processes \ {p} : job'[q] = job[q]
  BY <1>t
<1>2. (TypeOK /\ batch \in Batches)'
  <2>1. job' \in [Processes -> Job]  BY <1>t
  <2> QED BY <2>1 DEF TypeOK, DataOK, Batches
<1>3. \A q \in Processes : JobOK(q)'
  <2> TAKE q \in Processes
  <2>1. CASE q = p  BY <2>1
  <2>2. CASE q # p  BY <1>1, <2>2 DEF IInv, JobOK
  <2> QED BY <2>1, <2>2
<1>4. \A q \in Processes : Grounded(q)'
  <2> TAKE q \in Processes
  <2>1. CASE q = p  BY <2>1
  <2>2. CASE q # p
    <3>1. job'[q] = job[q] /\ Grounded(q) /\ JobOK(q)  BY <1>1, <2>2 DEF IInv
    <3>2. job[q].step \in {"activate", "lock", "credit"} => job[q].user \in Users
      BY <3>1 DEF JobOK
    <3> QED BY <2>2, <3>1, <3>2 DEF Grounded, StepsDone, Imported
  <2> QED BY <2>1, <2>2
<1>5. CreditedOnce' /\ BeneficiariesDidEveryStep'
  BY DEF IInv, CreditedOnce, BeneficiariesDidEveryStep, StepsDone
<1>6. \A u \in Users : Followed(u)'
  <2> SUFFICES ASSUME NEW u \in Users, Ready(u)', ~user'[u].beneficiary  PROVE LookedAt(u)'
    BY DEF Followed
  <2>1. CASE Ready(u)
    <3>1. PICK q \in Processes : job[q].user = u /\ job[q].step \in Activating
      BY <2>1 DEF IInv, Followed, LookedAt
    <3>2. job'[q].user = u /\ job'[q].step \in Activating
      BY <1>1, <3>1
    <3> QED BY <3>2 DEF LookedAt
  <2>2. CASE ~Ready(u)  BY <2>2
  <2> QED BY <2>1, <2>2
<1> QED BY <1>2, <1>3, <1>4, <1>5, <1>6 DEF IInv

\* The requests that are counting, at the step of one process.
LEMMA CountingKept ==
  ASSUME IInv, NEW p \in Processes, NEW new \in Job, job' = [job EXCEPT ![p] = new],
         new.step = "validate:count" => job[p].step = "validate:count" /\ new.user = job[p].user,
         new.step \in {"send:save", "send:count"} =>
            job[p].step \in {"send:save", "send:count"} /\ new.user = job[p].user,
         attempts' \in [Users -> Nat], sms' \in [Users -> Nat],
         \A u \in Users : attempts'[u] <= attempts[u] /\ sms'[u] <= sms[u]
  PROVE  \A u \in Users : Counted(u)'
<1> TAKE u \in Users
<1>t. DataOK /\ job \in [Processes -> Job]  BY Typed DEF IInv
<1>1. job'[p] = new /\ \A q \in Processes \ {p} : job'[q] = job[q]
  BY <1>t
<1>2. Attempting(u)' \subseteq Attempting(u) /\ Sending(u)' \subseteq Sending(u)
  BY <1>1, Constants DEF Attempting, Sending
<1>3. IsFiniteSet(Attempting(u)) /\ IsFiniteSet(Sending(u))
  <2>1. Attempting(u) \subseteq Requests /\ Sending(u) \subseteq Requests
    BY DEF Attempting, Sending
  <2> QED BY <2>1, Constants, FS_Subset
<1>4. /\ Cardinality(Attempting(u)') <= Cardinality(Attempting(u))
      /\ Cardinality(Sending(u)') <= Cardinality(Sending(u))
      /\ Cardinality(Attempting(u)') \in Nat /\ Cardinality(Sending(u)') \in Nat
      /\ Cardinality(Attempting(u)) \in Nat /\ Cardinality(Sending(u)) \in Nat
  BY <1>2, <1>3, FS_Subset, FS_CardinalityType
<1>5. /\ attempts[u] \in Nat /\ attempts'[u] \in Nat /\ sms[u] \in Nat /\ sms'[u] \in Nat
      /\ Cardinality(Requests) \in Nat /\ MaxAttempts \in Nat /\ MaxSms \in Nat
  BY <1>t, Constants DEF DataOK
<1>6. Cardinality(Attempting(u)') = Cardinality(Attempting(u))' /\ Cardinality(Sending(u)') = Cardinality(Sending(u))'
  OBVIOUS
<1>7. Counted(u)  BY DEF IInv
<1>8. attempts'[u] <= attempts[u] /\ sms'[u] <= sms[u]  OBVIOUS
<1> QED BY <1>4, <1>5, <1>6, <1>7, <1>8 DEF Counted

\* Steps that only concern the process and the locks.
LEMMA QuietStepKeeps ==
  ASSUME IInv, NEW p \in Processes, NEW new \in Job, job' = [job EXCEPT ![p] = new], DataOK',
         UNCHANGED <<user, deposits, import>>,
         JobOK(p)', Grounded(p)', TodoOpen',
         \A q \in Processes \ {p}, u \in Users : lock[u] = q => lock'[u] = q,
         \A u \in Users : Counted(u)',
         \A u \in Users : job[p].user = u /\ job[p].step \in Activating /\ Ready(u) /\ ~user[u].beneficiary =>
                            new.user = u /\ new.step \in Activating
  PROVE  IInv'
<1>1. \A u \in Users : Ready(u)' = Ready(u) /\ StepsDone(u)' = StepsDone(u)
  BY DEF Ready, StepsDone, Imported
<1> QED BY <1>1, StepKeeps
-----------------------------------------------------------------------------
(* Steps of no process.                                                     *)

LEMMA DataStepKeeps ==
  ASSUME IInv, job' = job, DataOK', TodoOpen', deposits' = deposits, lock' = lock,
         \A u \in Users : attempts'[u] <= attempts[u] /\ sms'[u] <= sms[u],
         \A u \in Users : /\ user'[u].beneficiary = user[u].beneficiary
                          /\ StepsDone(u) => StepsDone(u)'
                          /\ Ready(u)' => Ready(u)
  PROVE  IInv'
<1>t. DataOK /\ job \in [Processes -> Job] /\ Batch \in Processes  BY Typed, Constants DEF IInv
<1>1. job[Batch] \in Job /\ job' = [job EXCEPT ![Batch] = job[Batch]]
  BY <1>t
<1>2. JobOK(Batch)'
  BY <1>t DEF IInv, JobOK
<1>3. Grounded(Batch)'
  <2>1. Grounded(Batch) /\ JobOK(Batch)  BY <1>t DEF IInv
  <2>2. job[Batch].step \in {"activate", "lock", "credit"} => job[Batch].user \in Users
    BY <2>1 DEF JobOK
  <2> QED BY <2>1, <2>2 DEF Grounded, StepsDone, Imported
<1>4. \A u \in Users : Counted(u)'
  <2>1. attempts' \in [Users -> Nat] /\ sms' \in [Users -> Nat]  BY DEF DataOK
  <2> QED BY <1>1, <1>t, <2>1, CountingKept
<1>5. \A u \in Users : /\ user'[u].beneficiary = user[u].beneficiary
                       /\ StepsDone(u) => StepsDone(u)'
  OBVIOUS
<1>6. \A u \in Users : Ready(u)' => Ready(u) \/ LookedAt(u)'
  OBVIOUS
<1>7. \A u \in Users : job[Batch].user = u /\ job[Batch].step \in Activating /\ Ready(u)' /\ ~user[u].beneficiary =>
                         job[Batch].user = u /\ job[Batch].step \in Activating
  OBVIOUS
<1>8. \A q \in Processes \ {Batch}, u \in Users : lock[u] = q => lock'[u] = q
  OBVIOUS
<1> QED BY <1>t, <1>1, <1>2, <1>3, <1>4, <1>5, <1>6, <1>7, <1>8, StepKeeps

LEMMA CreateAccountKeeps ==
  ASSUME IInv, NEW u \in Users, CreateAccount(u)
  PROVE  IInv'
<1>t. DataOK  BY Typed DEF IInv
<1>u. UNCHANGED <<deposits, token, import, attempts, sms, lock, job, batch>>
  BY DEF CreateAccount, redis
<1>1. DataOK'
  <2>1. user' \in [Users -> User]  BY <1>t, ZenonT(40) DEF CreateAccount, DataOK, User
  <2> QED BY <1>t, <1>u, <2>1 DEF DataOK
<1>2. TodoOpen'  BY <1>u DEF IInv, TodoOpen
<1>3. \A v \in Users : /\ user'[v].beneficiary = user[v].beneficiary
                       /\ user'[v].validated = user[v].validated
                       /\ user'[v].completed = user[v].completed
  BY <1>t DEF CreateAccount, DataOK, User
<1>4. \A v \in Users : Ready(v)' = Ready(v) /\ StepsDone(v)' = StepsDone(v)
  BY <1>u, <1>3 DEF Ready, StepsDone, Imported
<1>5. \A v \in Users : attempts'[v] <= attempts[v] /\ sms'[v] <= sms[v]
  BY <1>t, <1>u DEF DataOK
<1> QED BY <1>u, <1>1, <1>2, <1>3, <1>4, <1>5, DataStepKeeps

LEMMA ValidateEmailKeeps ==
  ASSUME IInv, NEW u \in Users, ValidateEmail(u)
  PROVE  IInv'
<1>t. DataOK  BY Typed DEF IInv
<1>u. UNCHANGED <<deposits, token, import, attempts, sms, lock, job, batch>>
  BY DEF ValidateEmail, redis
<1>1. DataOK'
  <2>1. user' \in [Users -> User]  BY <1>t, ZenonT(40) DEF ValidateEmail, DataOK, User
  <2> QED BY <1>t, <1>u, <2>1 DEF DataOK
<1>2. TodoOpen'  BY <1>u DEF IInv, TodoOpen
<1>3. \A v \in Users : /\ user'[v].beneficiary = user[v].beneficiary
                       /\ user'[v].validated = user[v].validated
                       /\ user'[v].completed = user[v].completed
  BY <1>t DEF ValidateEmail, DataOK, User
<1>4. \A v \in Users : Ready(v)' = Ready(v) /\ StepsDone(v)' = StepsDone(v)
  BY <1>u, <1>3 DEF Ready, StepsDone, Imported
<1>5. \A v \in Users : attempts'[v] <= attempts[v] /\ sms'[v] <= sms[v]
  BY <1>t, <1>u DEF DataOK
<1> QED BY <1>u, <1>1, <1>2, <1>3, <1>4, <1>5, DataStepKeeps

LEMMA CompleteIdCheckKeeps ==
  ASSUME IInv, NEW u \in Users, CompleteIdCheck(u)
  PROVE  IInv'
<1>t. DataOK  BY Typed DEF IInv
<1>u. UNCHANGED <<deposits, token, import, attempts, sms, lock, job, batch>>
  BY DEF CompleteIdCheck, redis
<1>1. DataOK'
  <2>1. user' \in [Users -> User]  BY <1>t, ZenonT(40) DEF CompleteIdCheck, DataOK, User
  <2> QED BY <1>t, <1>u, <2>1 DEF DataOK
<1>2. TodoOpen'  BY <1>u DEF IInv, TodoOpen
<1>3. \A v \in Users : /\ user'[v].beneficiary = user[v].beneficiary
                       /\ user'[v].validated = user[v].validated
                       /\ user'[v].completed = user[v].completed \/ user'[v].completed = "flagged"
  BY <1>t DEF CompleteIdCheck, DataOK, User
<1>4. \A v \in Users : (Ready(v)' => Ready(v)) /\ StepsDone(v)' = StepsDone(v)
  BY <1>u, <1>3 DEF Ready, StepsDone, Imported
<1>5. \A v \in Users : attempts'[v] <= attempts[v] /\ sms'[v] <= sms[v]
  BY <1>t, <1>u DEF DataOK
<1> QED BY <1>u, <1>1, <1>2, <1>3, <1>4, <1>5, DataStepKeeps

LEMMA ExpireKeeps ==
  ASSUME IInv, NEW u \in Users, Expire(u)
  PROVE  IInv'
<1>t. DataOK  BY Typed DEF IInv
<1>u. UNCHANGED <<user, deposits, import, lock, job, batch>>
  BY DEF Expire
<1>1. DataOK'  BY <1>t, <1>u DEF Expire, DataOK, redis
<1>2. TodoOpen'  BY <1>u DEF IInv, TodoOpen
<1>4. \A v \in Users : Ready(v)' = Ready(v) /\ StepsDone(v)' = StepsDone(v)
  BY <1>u DEF Ready, StepsDone, Imported
<1>5. \A v \in Users : attempts'[v] <= attempts[v] /\ sms'[v] <= sms[v]
  BY <1>t DEF DataOK, Expire, redis
<1> QED BY <1>u, <1>1, <1>2, <1>4, <1>5, DataStepKeeps

LEMMA StutterKeeps ==
  ASSUME IInv, UNCHANGED vars
  PROVE  IInv'
<1>u. UNCHANGED <<user, deposits, token, import, attempts, sms, lock, job, batch>>
  BY DEF vars
<1>t. DataOK  BY Typed DEF IInv
<1>1. DataOK'  BY <1>t, <1>u DEF DataOK
<1>2. TodoOpen'  BY <1>u DEF IInv, TodoOpen
<1>3. \A v \in Users : Ready(v)' = Ready(v) /\ StepsDone(v)' = StepsDone(v)
  BY <1>u DEF Ready, StepsDone, Imported
<1>4. \A v \in Users : attempts'[v] <= attempts[v] /\ sms'[v] <= sms[v]
  BY <1>t, <1>u DEF DataOK
<1> QED BY <1>1, <1>2, <1>3, <1>4, <1>u, DataStepKeeps

\* An import is rejected, or one to be decided on.
LEMMA RecordKeeps ==
  ASSUME IInv, NEW a \in Applications, NEW status \in {"ERROR", "REJECTED", "DUPLICATE", "RETRY"},
         Record(a, status), import[a] # "CREATED", a \notin batch'.todo,
         status = "REJECTED" \/ a \notin JouveApplications,
         batch' \in Batches, batch'.todo \subseteq batch.todo,
         UNCHANGED <<user, deposits, token, redis, lock, job>>
  PROVE  IInv'
<1>t. DataOK  BY Typed DEF IInv
<1>u. UNCHANGED <<user, deposits, token, attempts, sms, lock, job>>
  BY DEF redis
<1>i. \A b \in Applications : import'[b] = IF b = a THEN status ELSE import[b]
  BY <1>t DEF Record, DataOK
<1>1. DataOK'
  <2>1. import' \in [Applications -> ImportStatus]  BY <1>t DEF Record, DataOK, ImportStatus
  <2> QED BY <1>t, <1>u, <2>1 DEF DataOK
<1>2. TodoOpen'
  <2>1. batch'.todo \subseteq Applications /\ JouveApplications \subseteq Applications
    BY BeneficiariesAssumption DEF Batches
  <2> QED BY <1>u, <1>i, <2>1 DEF IInv, TodoOpen
<1>4. \A v \in Users : Ready(v)' = Ready(v) /\ StepsDone(v)' = StepsDone(v)
  BY <1>u, <1>i DEF Ready, StepsDone, Imported
<1>5. \A v \in Users : attempts'[v] <= attempts[v] /\ sms'[v] <= sms[v]
  BY <1>t, <1>u DEF DataOK
<1> QED BY <1>u, <1>1, <1>2, <1>4, <1>5, DataStepKeeps

LEMMA DecideDuplicateKeeps ==
  ASSUME IInv, NEW a \in Applications, DecideDuplicate(a)
  PROVE  IInv'
<1>1. a \notin batch.todo /\ a \notin JouveApplications  BY DEF IInv, TodoOpen, DecideDuplicate
<1>2. batch \in Batches  BY DEF IInv
<1>3. \E status \in {"ERROR", "REJECTED", "DUPLICATE", "RETRY"} : Record(a, status)
  BY DEF DecideDuplicate
<1> QED BY <1>1, <1>2, <1>3, RecordKeeps DEF DecideDuplicate
-----------------------------------------------------------------------------
(* Steps of a process that leave the accounts as they are.                  *)

\* The record of a process that goes on, as the actions write it.
Moves(p, new, step) ==
  /\ new \in Job /\ job' = [job EXCEPT ![p] = new] /\ job'[p] = new /\ new.step = step

Went(p, new, step) ==
  /\ Moves(p, new, step) /\ new.user = job[p].user /\ new.loaded = job[p].loaded
  /\ new.app = job[p].app /\ new.input = job[p].input
Ended(p, new) == Moves(p, new, IF p = Batch THEN "dms:next" ELSE "idle") /\ new.user = None

LEMMA GotoRecord ==
  ASSUME DataOK, job \in [Processes -> Job], NEW p \in Processes, NEW step \in Steps, Goto(p, step)
  PROVE  \E new : Went(p, new, step)
<1> DEFINE new == [job[p] EXCEPT !.step = step]
<1>1. job[p] \in Job  OBVIOUS
<1>2. /\ new \in Job /\ new.step = step /\ new.user = job[p].user /\ new.loaded = job[p].loaded
      /\ new.app = job[p].app /\ new.input = job[p].input
  BY <1>1 DEF Job
<1>3. job' = [job EXCEPT ![p] = new]  BY DEF Goto
<1> HIDE DEF new
<1>4. job'[p] = new  BY <1>3
<1> QED BY <1>2, <1>3, <1>4 DEF Moves, Went

LEMMA IdleOK ==
  /\ Idle \in Job /\ Idle.step = "idle" /\ Idle.user = None /\ [Idle EXCEPT !.step = "dms:next"] \in Job
  /\ [Idle EXCEPT !.step = "dms:next"].step = "dms:next" /\ [Idle EXCEPT !.step = "dms:next"].user = None
BY DEF Idle, Job, Steps

LEMMA FinishRecord ==
  ASSUME DataOK, job \in [Processes -> Job], NEW p \in Processes, Finish(p)
  PROVE  \E new : Ended(p, new)
<1> DEFINE new == IF p = Batch THEN [Idle EXCEPT !.step = "dms:next"] ELSE Idle
<1>1. job' = [job EXCEPT ![p] = new]  BY DEF Finish
<1>2. new \in Job /\ new.step = (IF p = Batch THEN "dms:next" ELSE "idle") /\ new.user = None
  BY IdleOK
<1> HIDE DEF new
<1>3. job'[p] = new  BY <1>1
<1> QED BY <1>1, <1>2, <1>3 DEF Moves, Ended

Begun(p, new, step, u, loaded, input) ==
  Moves(p, new, step) /\ new.user = u /\ new.loaded = loaded /\ new.input = input

LEMMA BeginRecord ==
  ASSUME DataOK, job \in [Processes -> Job], NEW p \in Processes, NEW step \in Steps, NEW u \in Users,
         NEW loaded \in Phones \union BOOLEAN \union {None}, NEW input \in Phones \union Codes \union {None},
         job' = [job EXCEPT ![p] = [Idle EXCEPT !.step = step, !.user = u, !.loaded = loaded, !.input = input]]
  PROVE  \E new : Begun(p, new, step, u, loaded, input)
<1> DEFINE new == [Idle EXCEPT !.step = step, !.user = u, !.loaded = loaded, !.input = input]
<1>1. new \in Job /\ new.step = step /\ new.user = u /\ new.loaded = loaded /\ new.input = input
  BY IdleOK, ZenonT(40) DEF Job
<1> HIDE DEF new
<1>2. job' = [job EXCEPT ![p] = new]  BY DEF new
<1>3. job'[p] = new  BY <1>2
<1> QED BY <1>1, <1>2, <1>3 DEF Moves, Begun

LEMMA TodoKept ==
  ASSUME IInv, NEW p \in Processes, NEW new, job' = [job EXCEPT ![p] = new], UNCHANGED <<import, batch>>,
         p = Batch => new.step \notin {"idle", "dms:save", "dms:import"}
  PROVE  TodoOpen'
<1>1. job \in [Processes -> Job] /\ Batch \in Processes  BY Typed, Constants DEF IInv
<1>2. job'[p] = new /\ \A q \in Processes \ {p} : job'[q] = job[q]  BY <1>1
<1> QED BY <1>1, <1>2 DEF IInv, TodoOpen

\* Nothing but the process moves.
LEMMA MoveKeeps ==
  ASSUME IInv, NEW p \in Processes, NEW new, NEW step, Moves(p, new, step),
         UNCHANGED <<user, deposits, token, import, attempts, sms, lock, batch>>,
         JobOK(p)', Grounded(p)', TodoOpen',
         step = "validate:count" => job[p].step = "validate:count" /\ new.user = job[p].user,
         step \in {"send:save", "send:count"} =>
            job[p].step \in {"send:save", "send:count"} /\ new.user = job[p].user,
         \A u \in Users : job[p].user = u /\ job[p].step \in Activating /\ Ready(u) /\ ~user[u].beneficiary =>
                            new.user = u /\ new.step \in Activating
  PROVE  IInv'
<1>t. DataOK /\ job \in [Processes -> Job]  BY Typed DEF IInv
<1>1. DataOK'  BY <1>t DEF DataOK
<1>2. new \in Job /\ job' = [job EXCEPT ![p] = new] /\ new.step = step  BY DEF Moves
<1>3. \A u \in Users : attempts'[u] <= attempts[u] /\ sms'[u] <= sms[u]
  BY <1>t DEF DataOK
<1>4. \A u \in Users : Counted(u)'
  <2>1. attempts' \in [Users -> Nat] /\ sms' \in [Users -> Nat]  BY <1>1 DEF DataOK
  <2> QED BY <1>2, <1>3, <2>1, CountingKept
<1>5. \A q \in Processes \ {p}, u \in Users : lock[u] = q => lock'[u] = q
  OBVIOUS
<1> QED BY <1>1, <1>2, <1>4, <1>5, QuietStepKeeps

LEMMA ChangePhoneKeeps ==
  ASSUME IInv, NEW p \in Requests, NEW u \in Users, NEW number \in Phones, ChangePhone(p, u, number)
  PROVE  IInv'
<1>t. DataOK /\ job \in [Processes -> Job] /\ p \in Processes /\ p # Batch  BY Typed, Constants DEF IInv
<1>u. UNCHANGED <<user, deposits, token, import, attempts, sms, lock, batch>> /\ job[p].step = "idle"
  BY DEF ChangePhone, redis, Begin, At
<1>1. PICK new : Moves(p, new, "change:flush") /\ new.user = u /\ new.input = number
  <2>1. Idle.loaded = None  BY DEF Idle
  <2>2. job' = [job EXCEPT ![p] = [Idle EXCEPT !.step = "change:flush", !.user = u, !.loaded = None, !.input = number]]
    BY <2>1 DEF ChangePhone, Begin, Idle
  <2>3. /\ "change:flush" \in Steps /\ None \in Phones \union BOOLEAN \union {None}
        /\ number \in Phones \union Codes \union {None}
    BY DEF Steps
  <2>4. \E new : Begun(p, new, "change:flush", u, None, number)
    BY <1>t, <2>2, <2>3, BeginRecord
  <2> QED BY <2>4 DEF Begun
<1>2. JobOK(p)' /\ Grounded(p)'
  BY <1>1, <1>t DEF JobOK, Grounded, Moves, Activating
<1>3. TodoOpen'  BY <1>1, <1>t, <1>u, TodoKept DEF Moves
<1> QED BY <1>1, <1>2, <1>3, <1>t, <1>u, MoveKeeps DEF Activating
\* A process that is done with what it was at.
LEMMA EndKeeps ==
  ASSUME IInv, NEW p \in Processes, Finish(p),
         UNCHANGED <<user, deposits, token, import, attempts, sms, lock, batch>>,
         job[p].step \in Activating => ~Ready(job[p].user) \/ user[job[p].user].beneficiary
  PROVE  IInv'
<1>t. DataOK /\ job \in [Processes -> Job]  BY Typed DEF IInv
<1>1. PICK new : Ended(p, new)  BY <1>t, FinishRecord
<1>2. JobOK(p)' /\ Grounded(p)'
  BY <1>1 DEF JobOK, Grounded, Moves, Ended, Activating
<1>3. TodoOpen'  BY <1>1, TodoKept DEF Moves, Ended
<1> DEFINE step == IF p = Batch THEN "dms:next" ELSE "idle"
<1>4. Moves(p, new, step) /\ step \notin {"validate:count", "send:save", "send:count"}
  BY <1>1 DEF Ended
<1> HIDE DEF step
<1> QED BY <1>2, <1>3, <1>4, MoveKeeps

LEMMA ChangeFlushKeeps ==
  ASSUME IInv, NEW p \in Processes, ChangeFlush(p)
  PROVE  IInv'
<1>t. DataOK /\ job \in [Processes -> Job]  BY Typed DEF IInv
<1>u. UNCHANGED <<user, deposits, token, import, attempts, sms, batch>> /\ job[p].step = "change:flush"
  BY DEF ChangeFlush, redis, At
<1>o. JobOK(p) /\ job[p].user \in Users /\ job[p].input \in Phones /\ p # Batch
  BY <1>u DEF IInv, JobOK, Activating
<1>1. PICK new : Went(p, new, "change:delete")
  BY <1>t, GotoRecord DEF ChangeFlush, Steps
<1>m. new \in Job /\ job' = [job EXCEPT ![p] = new] /\ job'[p] = new /\ new.step = "change:delete"
      /\ new.user = job[p].user /\ new.input = job[p].input
  BY <1>1 DEF Went, Moves
<1>2. DataOK'
  <2>1. lock' \in [Users -> Processes \union {None}]  BY <1>o, <1>t DEF ChangeFlush, Lock, DataOK
  <2> QED BY <1>t, <1>u, <2>1 DEF DataOK
<1>3. JobOK(p)' /\ Grounded(p)'
  BY <1>m, <1>o DEF JobOK, Grounded, Activating
<1>4. TodoOpen'  BY <1>m, <1>u, TodoKept
<1>5. \A q \in Processes \ {p}, u \in Users : lock[u] = q => lock'[u] = q
  BY <1>o, <1>t, Constants DEF ChangeFlush, Lock, RowFree, DataOK
<1>6. \A u \in Users : Counted(u)'
  <2>1. /\ attempts' \in [Users -> Nat] /\ sms' \in [Users -> Nat]
        /\ \A u \in Users : attempts'[u] <= attempts[u] /\ sms'[u] <= sms[u]
    BY <1>t, <1>u DEF DataOK
  <2> QED BY <1>m, <2>1, CountingKept
<1>7. job[p].step \notin Activating  BY <1>u DEF Activating
<1> QED BY <1>2, <1>3, <1>4, <1>5, <1>6, <1>7, <1>m, <1>u, QuietStepKeeps

LEMMA SendCodeKeeps ==
  ASSUME IInv, NEW p \in Requests, NEW u \in Users, SendCode(p, u)
  PROVE  IInv'
<1>t. DataOK /\ job \in [Processes -> Job] /\ p \in Processes /\ p # Batch  BY Typed, Constants DEF IInv
<1>u. UNCHANGED <<user, deposits, token, import, attempts, sms, lock, batch>> /\ job[p].step = "idle"
  BY DEF SendCode, redis, Begin, At
<1>1. PICK new : Moves(p, new, "send:check") /\ new.user = u
  <2>1. Idle.loaded = None  BY DEF Idle
  <2>2. job' = [job EXCEPT ![p] = [Idle EXCEPT !.step = "send:check", !.user = u, !.loaded = None, !.input = None]]
    BY <2>1 DEF SendCode, Begin, Idle
  <2>3. /\ "send:check" \in Steps /\ None \in Phones \union BOOLEAN \union {None}
        /\ None \in Phones \union Codes \union {None}
    BY DEF Steps
  <2>4. \E new : Begun(p, new, "send:check", u, None, None)
    BY <1>t, <2>2, <2>3, BeginRecord
  <2> QED BY <2>4 DEF Begun
<1>2. JobOK(p)' /\ Grounded(p)'
  BY <1>1, <1>t DEF JobOK, Grounded, Moves, Activating
<1>3. TodoOpen'  BY <1>1, <1>t, <1>u, TodoKept DEF Moves
<1> QED BY <1>1, <1>2, <1>3, <1>t, <1>u, MoveKeeps DEF Activating

\* The requests that count are no more than the requests there are.
LEMMA CountingBounds ==
  ASSUME NEW u \in Users
  PROVE  /\ IsFiniteSet(Attempting(u)) /\ IsFiniteSet(Sending(u))
         /\ Cardinality(Attempting(u)) \in 0..Cardinality(Requests)
         /\ Cardinality(Sending(u)) \in 0..Cardinality(Requests)
<1>1. Attempting(u) \subseteq Requests /\ Sending(u) \subseteq Requests
  BY DEF Attempting, Sending
<1>2. /\ IsFiniteSet(Attempting(u)) /\ IsFiniteSet(Sending(u))
      /\ Cardinality(Attempting(u)) <= Cardinality(Requests)
      /\ Cardinality(Sending(u)) <= Cardinality(Requests)
  BY <1>1, Constants, FS_Subset
<1>3. Cardinality(Attempting(u)) \in Nat /\ Cardinality(Sending(u)) \in Nat
  BY <1>2, FS_CardinalityType
<1> QED BY <1>2, <1>3, Constants

\* A step that changes what is counted of one user.
LEMMA CountingOfOthers ==
  ASSUME IInv, NEW p \in Processes, NEW new, job' = [job EXCEPT ![p] = new], NEW u \in Users,
         new.user = u \/ new.step \notin {"validate:count", "send:save", "send:count"},
         attempts' \in [Users -> Nat], sms' \in [Users -> Nat],
         \A v \in Users \ {u} : attempts'[v] = attempts[v] /\ sms'[v] = sms[v],
         Counted(u)'
  PROVE  \A v \in Users : Counted(v)'
<1> SUFFICES ASSUME NEW v \in Users, v # u  PROVE Counted(v)'
  OBVIOUS
<1>t. DataOK /\ job \in [Processes -> Job]  BY Typed DEF IInv
<1>1. job'[p] = new /\ \A q \in Processes \ {p} : job'[q] = job[q]
  BY <1>t
<1>2. Attempting(v)' \subseteq Attempting(v) /\ Sending(v)' \subseteq Sending(v)
  BY <1>1, Constants DEF Attempting, Sending
<1>3. /\ Cardinality(Attempting(v)') <= Cardinality(Attempting(v))
      /\ Cardinality(Sending(v)') <= Cardinality(Sending(v))
      /\ Cardinality(Attempting(v)') \in Nat /\ Cardinality(Sending(v)') \in Nat
      /\ Cardinality(Attempting(v)) \in Nat /\ Cardinality(Sending(v)) \in Nat
  BY <1>2, CountingBounds, FS_Subset, FS_CardinalityType
<1>4. Cardinality(Attempting(v)') = Cardinality(Attempting(v))' /\ Cardinality(Sending(v)') = Cardinality(Sending(v))'
  OBVIOUS
<1>5. attempts[v] \in Nat /\ sms[v] \in Nat /\ attempts'[v] = attempts[v] /\ sms'[v] = sms[v]
  BY <1>t DEF DataOK
<1>6. Counted(v)  BY DEF IInv
<1> QED BY <1>3, <1>4, <1>5, <1>6, Constants DEF Counted

LEMMA SendCheckKeeps ==
  ASSUME IInv, NEW p \in Processes, SendCheck(p)
  PROVE  IInv'
<1>t. DataOK /\ job \in [Processes -> Job]  BY Typed DEF IInv
<1>u. UNCHANGED <<user, deposits, token, import, attempts, sms, lock, batch>> /\ job[p].step = "send:check"
  BY DEF SendCheck, redis, At
<1>o. JobOK(p) /\ job[p].user \in Users /\ p # Batch /\ p \in Requests
  BY <1>u DEF IInv, JobOK, Activating, Processes
<1>1. CASE Finish(p)
  BY <1>1, <1>u, EndKeeps DEF Activating
<1>2. CASE Goto(p, "send:save") /\ sms[job[p].user] < MaxSms
  <2> PICK u \in Users : u = job[p].user  BY <1>o
  <2>1. PICK new : Went(p, new, "send:save")  BY <1>2, <1>t, GotoRecord DEF Steps
  <2>m. new \in Job /\ job' = [job EXCEPT ![p] = new] /\ job'[p] = new /\ new.step = "send:save"
        /\ new.user = job[p].user
    BY <2>1 DEF Went, Moves
  <2>2. DataOK'  BY <1>t, <1>u DEF DataOK
  <2>3. JobOK(p)' /\ Grounded(p)'
    BY <1>o, <2>m DEF JobOK, Grounded, Activating
  <2>4. TodoOpen'  BY <1>o, <1>u, <2>m, TodoKept
  <2>5. \A v \in Users : Counted(v)'
    <3>1. attempts'[u] \in Nat /\ sms'[u] \in Nat /\ attempts' = attempts /\ sms'[u] < MaxSms
      BY <1>2, <1>t, <1>u DEF DataOK
    <3>2. Attempting(u)' \subseteq Attempting(u)
      BY <1>t, <2>m, Constants DEF Attempting
    <3>3. Cardinality(Attempting(u)') <= Cardinality(Attempting(u)) /\ Cardinality(Attempting(u)') \in Nat
          /\ Cardinality(Attempting(u)) \in Nat
      BY <3>2, CountingBounds, FS_Subset, FS_CardinalityType
    <3>4. Sending(u)' \subseteq Requests  BY DEF Sending
    <3>5. Cardinality(Sending(u)') <= Cardinality(Requests) /\ Cardinality(Sending(u)') \in Nat
      BY <3>4, Constants, FS_Subset, FS_CardinalityType
    <3>6. Cardinality(Attempting(u)') = Cardinality(Attempting(u))' /\ Cardinality(Sending(u)') = Cardinality(Sending(u))'
      OBVIOUS
    <3>7. Counted(u)  BY DEF IInv
    <3>8. Counted(u)'  BY <3>1, <3>3, <3>5, <3>6, <3>7, Constants DEF Counted
    <3>9. /\ attempts' \in [Users -> Nat] /\ sms' \in [Users -> Nat]
          /\ \A v \in Users \ {u} : attempts'[v] = attempts[v] /\ sms'[v] = sms[v]
      BY <1>t, <1>u DEF DataOK
    <3> QED BY <2>m, <3>8, <3>9, CountingOfOthers
  <2>6. job[p].step \notin Activating /\ lock' = lock  BY <1>u DEF Activating
  <2> QED BY <1>u, <2>2, <2>3, <2>4, <2>5, <2>6, <2>m, QuietStepKeeps
<1> QED BY <1>1, <1>2 DEF SendCheck, BelowLimit
LEMMA OneLess ==
  ASSUME NEW S, NEW T, NEW x \in S, IsFiniteSet(S), T = S \ {x}
  PROVE  Cardinality(T) = Cardinality(S) - 1
BY FS_RemoveElement

LEMMA SaveCodeKeeps ==
  ASSUME IInv, NEW p \in Processes, SaveCode(p)
  PROVE  IInv'
<1>t. DataOK /\ job \in [Processes -> Job]  BY Typed DEF IInv
<1>u. UNCHANGED <<user, deposits, import, attempts, sms, lock, batch>> /\ job[p].step = "send:save"
  BY DEF SaveCode, redis, At
<1>o. JobOK(p) /\ job[p].user \in Users /\ p # Batch
  BY <1>u DEF IInv, JobOK, Activating
<1>1. CASE Finish(p) /\ UNCHANGED token
  BY <1>1, <1>u, EndKeeps DEF Activating
<1>2. CASE Goto(p, "send:count") /\ \E c \in Codes : token' = token \union {<<job[p].user, c>>}
  <2>1. PICK new : Went(p, new, "send:count")  BY <1>2, <1>t, GotoRecord DEF Steps
  <2>m. new \in Job /\ job' = [job EXCEPT ![p] = new] /\ job'[p] = new /\ new.step = "send:count"
        /\ new.user = job[p].user
    BY <2>1 DEF Went, Moves
  <2>2. DataOK'
    <3>1. token' \subseteq Users \X Codes  BY <1>2, <1>o, <1>t DEF DataOK
    <3> QED BY <1>t, <1>u, <3>1 DEF DataOK
  <2>3. JobOK(p)' /\ Grounded(p)'
    BY <1>o, <2>m DEF JobOK, Grounded, Activating
  <2>4. TodoOpen'  BY <1>o, <1>u, <2>m, TodoKept
  <2>5. \A v \in Users : Counted(v)'
    <3>1. /\ attempts' \in [Users -> Nat] /\ sms' \in [Users -> Nat]
          /\ \A v \in Users : attempts'[v] <= attempts[v] /\ sms'[v] <= sms[v]
      BY <1>t, <1>u DEF DataOK
    <3> QED BY <1>u, <2>m, <3>1, CountingKept
  <2>6. job[p].step \notin Activating /\ lock' = lock  BY <1>u DEF Activating
  <2> QED BY <1>u, <2>2, <2>3, <2>4, <2>5, <2>6, <2>m, QuietStepKeeps
<1> QED BY <1>1, <1>2 DEF SaveCode

LEMMA CountSmsKeeps ==
  ASSUME IInv, NEW p \in Processes, CountSms(p)
  PROVE  IInv'
<1>t. DataOK /\ job \in [Processes -> Job]  BY Typed DEF IInv
<1>u. UNCHANGED <<user, deposits, token, import, attempts, lock, batch>> /\ job[p].step = "send:count"
      /\ Finish(p)
  BY DEF CountSms, At
<1>o. JobOK(p) /\ job[p].user \in Users /\ p # Batch /\ p \in Requests
  BY <1>u DEF IInv, JobOK, Activating, Processes
<1>1. CASE UNCHANGED sms
  BY <1>1, <1>u, EndKeeps DEF Activating
<1>2. CASE sms' = [sms EXCEPT ![job[p].user] = @ + 1]
  <2> PICK u \in Users : u = job[p].user  BY <1>o
  <2>1. PICK new : Ended(p, new)  BY <1>t, <1>u, FinishRecord
  <2>m. new \in Job /\ job' = [job EXCEPT ![p] = new] /\ job'[p] = new /\ new.step = "idle"
        /\ new.user = None
    BY <1>o, <2>1 DEF Ended, Moves
  <2>s. sms' \in [Users -> Nat] /\ sms'[u] = sms[u] + 1 /\ \A v \in Users \ {u} : sms'[v] = sms[v]
    BY <1>2, <1>t DEF DataOK
  <2>2. DataOK'  BY <1>t, <1>u, <2>s DEF DataOK
  <2>3. JobOK(p)' /\ Grounded(p)'
    BY <1>o, <2>m DEF JobOK, Grounded, Activating
  <2>4. TodoOpen'  BY <1>o, <1>u, <2>m, TodoKept
  <2>5. \A v \in Users : Counted(v)'
    <3>1. Attempting(u)' \subseteq Attempting(u) /\ Sending(u)' = Sending(u) \ {p} /\ p \in Sending(u)
      BY <1>o, <1>t, <1>u, <2>m, Constants DEF Attempting, Sending
    <3>2. Cardinality(Attempting(u)') <= Cardinality(Attempting(u)) /\ Cardinality(Attempting(u)') \in Nat
          /\ Cardinality(Attempting(u)) \in Nat
      BY <3>1, CountingBounds, FS_Subset, FS_CardinalityType
    <3>3. Cardinality(Sending(u)') = Cardinality(Sending(u)) - 1 /\ Cardinality(Sending(u)) \in Nat
      BY <3>1, CountingBounds, OneLess
    <3>4. Cardinality(Attempting(u)') = Cardinality(Attempting(u))' /\ Cardinality(Sending(u)') = Cardinality(Sending(u))'
      OBVIOUS
    <3>5. Counted(u) /\ attempts[u] \in Nat /\ sms[u] \in Nat  BY <1>t DEF IInv, DataOK
    <3>6. Counted(u)'  BY <1>u, <2>s, <3>2, <3>3, <3>4, <3>5, Constants DEF Counted
    <3>7. attempts' \in [Users -> Nat] /\ \A v \in Users \ {u} : attempts'[v] = attempts[v]
      BY <1>t, <1>u DEF DataOK
    <3>8. new.step \notin {"validate:count", "send:save", "send:count"}  BY <2>m
    <3> QED BY <2>m, <2>s, <3>6, <3>7, <3>8, CountingOfOthers
  <2>6. job[p].step \notin Activating /\ lock' = lock  BY <1>u DEF Activating
  <2> QED BY <1>u, <2>2, <2>3, <2>4, <2>5, <2>6, <2>m, QuietStepKeeps
<1> QED BY <1>1, <1>2 DEF CountSms

LEMMA ValidatePhoneKeeps ==
  ASSUME IInv, NEW p \in Requests, NEW u \in Users, NEW c \in Codes, ValidatePhone(p, u, c)
  PROVE  IInv'
<1>t. DataOK /\ job \in [Processes -> Job] /\ p \in Processes /\ p # Batch  BY Typed, Constants DEF IInv
<1>u. UNCHANGED <<user, deposits, token, import, attempts, sms, lock, batch>> /\ job[p].step = "idle"
      /\ attempts[u] < MaxAttempts
  BY DEF ValidatePhone, redis, At, BelowLimit
<1>1. PICK new : Moves(p, new, "validate:count") /\ new.user = u
  <2> DEFINE phone == user[u].phone
  <2>2. job' = [job EXCEPT ![p] = [Idle EXCEPT !.step = "validate:count", !.user = u, !.loaded = phone, !.input = c]]
    BY DEF ValidatePhone
  <2>3. /\ "validate:count" \in Steps /\ phone \in Phones \union BOOLEAN \union {None}
        /\ c \in Phones \union Codes \union {None}
    BY <1>t DEF Steps, DataOK, User
  <2> HIDE DEF phone
  <2>4. \E new : Begun(p, new, "validate:count", u, phone, c)
    BY <1>t, <2>2, <2>3, BeginRecord
  <2> QED BY <2>4 DEF Begun
<1>m. new \in Job /\ job' = [job EXCEPT ![p] = new] /\ job'[p] = new /\ new.step = "validate:count"
  BY <1>1 DEF Moves
<1>2. DataOK'  BY <1>t, <1>u DEF DataOK
<1>3. JobOK(p)' /\ Grounded(p)'
  BY <1>1, <1>m, <1>t DEF JobOK, Grounded, Activating
<1>4. TodoOpen'  BY <1>m, <1>t, <1>u, TodoKept
<1>5. \A v \in Users : Counted(v)'
  <2>1. attempts'[u] \in Nat /\ sms'[u] \in Nat /\ sms' = sms /\ attempts'[u] < MaxAttempts
    BY <1>t, <1>u DEF DataOK
  <2>2. Sending(u)' \subseteq Sending(u)
    BY <1>t, <1>m, Constants DEF Sending
  <2>3. Cardinality(Sending(u)') <= Cardinality(Sending(u)) /\ Cardinality(Sending(u)') \in Nat
        /\ Cardinality(Sending(u)) \in Nat
    BY <2>2, CountingBounds, FS_Subset, FS_CardinalityType
  <2>4. Attempting(u)' \subseteq Requests  BY DEF Attempting
  <2>5. Cardinality(Attempting(u)') <= Cardinality(Requests) /\ Cardinality(Attempting(u)') \in Nat
    BY <2>4, Constants, FS_Subset, FS_CardinalityType
  <2>6. Cardinality(Attempting(u)') = Cardinality(Attempting(u))' /\ Cardinality(Sending(u)') = Cardinality(Sending(u))'
    OBVIOUS
  <2>7. Counted(u)  BY DEF IInv
  <2>8. Counted(u)'  BY <2>1, <2>3, <2>5, <2>6, <2>7, Constants DEF Counted
  <2>9. /\ attempts' \in [Users -> Nat] /\ sms' \in [Users -> Nat]
        /\ \A v \in Users \ {u} : attempts'[v] = attempts[v] /\ sms'[v] = sms[v]
    BY <1>t, <1>u DEF DataOK
  <2> QED BY <1>1, <1>m, <1>t, <2>8, <2>9, CountingOfOthers
<1>6. job[p].step \notin Activating /\ lock' = lock  BY <1>u DEF Activating
<1> QED BY <1>t, <1>u, <1>2, <1>3, <1>4, <1>5, <1>6, <1>m, QuietStepKeeps

LEMMA CountAttemptKeeps ==
  ASSUME IInv, NEW p \in Processes, CountAttempt(p)
  PROVE  IInv'
<1>t. DataOK /\ job \in [Processes -> Job]  BY Typed DEF IInv
<1>u. UNCHANGED <<user, deposits, token, import, sms, lock, batch>> /\ job[p].step = "validate:count"
      /\ Goto(p, "validate:token") /\ attempts' = [attempts EXCEPT ![job[p].user] = @ + 1]
  BY DEF CountAttempt, At
<1>o. JobOK(p) /\ job[p].user \in Users /\ p # Batch /\ p \in Requests
  BY <1>u DEF IInv, JobOK, Activating, Processes
<1> PICK u \in Users : u = job[p].user  BY <1>o
<1>1. PICK new : Went(p, new, "validate:token")  BY <1>t, <1>u, GotoRecord DEF Steps
<1>m. new \in Job /\ job' = [job EXCEPT ![p] = new] /\ job'[p] = new /\ new.step = "validate:token"
      /\ new.user = u
  BY <1>1 DEF Went, Moves
<1>s. attempts' \in [Users -> Nat] /\ attempts'[u] = attempts[u] + 1
      /\ \A v \in Users \ {u} : attempts'[v] = attempts[v]
  BY <1>t, <1>u DEF DataOK
<1>2. DataOK'  BY <1>t, <1>u, <1>s DEF DataOK
<1>3. JobOK(p)' /\ Grounded(p)'
  BY <1>o, <1>m DEF JobOK, Grounded, Activating
<1>4. TodoOpen'  BY <1>o, <1>u, <1>m, TodoKept
<1>5. \A v \in Users : Counted(v)'
  <2>1. Sending(u)' \subseteq Sending(u) /\ Attempting(u)' = Attempting(u) \ {p} /\ p \in Attempting(u)
    BY <1>o, <1>t, <1>u, <1>m, Constants DEF Attempting, Sending
  <2>2. Cardinality(Sending(u)') <= Cardinality(Sending(u)) /\ Cardinality(Sending(u)') \in Nat
        /\ Cardinality(Sending(u)) \in Nat
    BY <2>1, CountingBounds, FS_Subset, FS_CardinalityType
  <2>3. Cardinality(Attempting(u)') = Cardinality(Attempting(u)) - 1 /\ Cardinality(Attempting(u)) \in Nat
    BY <2>1, CountingBounds, OneLess
  <2>4. Cardinality(Attempting(u)') = Cardinality(Attempting(u))' /\ Cardinality(Sending(u)') = Cardinality(Sending(u))'
    OBVIOUS
  <2>5. Counted(u) /\ attempts[u] \in Nat /\ sms[u] \in Nat  BY <1>t DEF IInv, DataOK
  <2>6. Counted(u)'  BY <1>u, <1>s, <2>2, <2>3, <2>4, <2>5, Constants DEF Counted
  <2>7. sms' \in [Users -> Nat] /\ \A v \in Users \ {u} : sms'[v] = sms[v]
    BY <1>t, <1>u DEF DataOK
  <2>8. new.step \notin {"validate:count", "send:save", "send:count"}  BY <1>m
  <2> QED BY <1>m, <1>s, <2>6, <2>7, <2>8, CountingOfOthers
<1>6. job[p].step \notin Activating /\ lock' = lock  BY <1>u DEF Activating
<1> QED BY <1>u, <1>2, <1>3, <1>4, <1>5, <1>6, <1>m, QuietStepKeeps

LEMMA UseTokenKeeps ==
  ASSUME IInv, NEW p \in Processes, UseToken(p)
  PROVE  IInv'
<1>t. DataOK /\ job \in [Processes -> Job]  BY Typed DEF IInv
<1>u. UNCHANGED <<user, deposits, token, import, attempts, sms, lock, batch>> /\ job[p].step = "validate:token"
  BY DEF UseToken, redis, At
<1>o. JobOK(p) /\ job[p].user \in Users /\ p # Batch
  BY <1>u DEF IInv, JobOK, Activating
<1>1. CASE Finish(p)
  BY <1>1, <1>u, EndKeeps DEF Activating
<1>2. CASE Goto(p, "validate:save")
  <2>1. PICK new : Went(p, new, "validate:save")  BY <1>2, <1>t, GotoRecord DEF Steps
  <2>2. Moves(p, new, "validate:save") /\ new.user = job[p].user  BY <2>1 DEF Went
  <2>3. JobOK(p)' /\ Grounded(p)'
    BY <1>o, <2>2 DEF JobOK, Grounded, Activating, Moves
  <2>4. TodoOpen'  BY <1>o, <1>u, <2>2, TodoKept DEF Moves
  <2> QED BY <1>u, <2>2, <2>3, <2>4, MoveKeeps DEF Activating
<1> QED BY <1>1, <1>2 DEF UseToken
-----------------------------------------------------------------------------
(* Failures.                                                                *)

LEMMA FailKeeps ==
  ASSUME IInv, NEW p \in Processes, Fail(p),
         job[p].step \in Activating => ~Ready(job[p].user) \/ user[job[p].user].beneficiary
  PROVE  IInv'
<1>t. DataOK /\ job \in [Processes -> Job] /\ Batch \in Processes /\ None \notin Processes
  BY Typed, Constants DEF IInv
<1>u. UNCHANGED <<user, deposits, token, import, attempts, sms>>
  BY DEF Fail, redis
<1>1. Idle \in Job /\ job' = [job EXCEPT ![p] = Idle] /\ job'[p] = Idle
      /\ Idle.step = "idle" /\ Idle.user = None
      /\ \A q \in Processes \ {p} : job'[q] = job[q]
  BY <1>t, IdleOK DEF Fail
<1>2. lock' \in [Users -> Processes \union {None}]
      /\ \A q \in Processes \ {p}, u \in Users : lock[u] = q => lock'[u] = q
  BY <1>t DEF Fail, Unlocked, DataOK
<1>b. batch' = batch \/ (p = Batch /\ batch' = NoBatch)  BY DEF Fail
<1>3. DataOK'
  <2>1. NoBatch \in Batches  BY DEF NoBatch, Batches
  <2> QED BY <1>t, <1>u, <1>2, <1>b, <2>1 DEF DataOK
<1>4. JobOK(p)' /\ Grounded(p)'
  BY <1>1 DEF JobOK, Grounded, Activating
<1>5. TodoOpen'
  <2>1. NoBatch.todo = {}  BY DEF NoBatch
  <2>2. CASE p = Batch
    <3>1. batch'.todo = {}  BY <2>1, <2>2 DEF Fail
    <3> QED BY <3>1, <2>2, <1>1, <1>u DEF IInv, TodoOpen
  <2>3. CASE p # Batch
    BY <2>3, <1>1, <1>b, <1>t, <1>u DEF IInv, TodoOpen
  <2> QED BY <2>2, <2>3
<1>6. \A u \in Users : Counted(u)'
  <2>1. /\ attempts' \in [Users -> Nat] /\ sms' \in [Users -> Nat]
        /\ \A u \in Users : attempts'[u] <= attempts[u] /\ sms'[u] <= sms[u]
    BY <1>t, <1>u DEF DataOK
  <2> QED BY <1>1, <2>1, CountingKept
<1> HIDE DEF Idle
<1>7. \A u \in Users : job[p].user = u /\ job[p].step \in Activating /\ Ready(u) /\ ~user[u].beneficiary =>
                         Idle.user = u /\ Idle.step \in Activating
  OBVIOUS
<1>8. UNCHANGED <<user, deposits, import>>  BY <1>u
<1> QED BY <1>1, <1>2, <1>3, <1>4, <1>5, <1>6, <1>7, <1>8, QuietStepKeeps

LEMMA DeadlockKeeps ==
  ASSUME IInv, NEW p \in Processes, NEW q \in Processes, Deadlock(p, q)
  PROVE  IInv'
<1>1. job[p].step \notin Activating /\ job[q].step \notin Activating
  BY DEF Deadlock, At, TokenHolders, Activating
<1> QED BY <1>1, FailKeeps DEF Deadlock

-----------------------------------------------------------------------------
(* Activation.                                                              *)

LEMMA CheckStepsKeeps ==
  ASSUME IInv, NEW p \in Processes, CheckSteps(p)
  PROVE  IInv'
<1>t. DataOK /\ job \in [Processes -> Job]  BY Typed DEF IInv
<1>u. UNCHANGED <<user, deposits, token, import, attempts, sms, lock, batch>>
      /\ job[p].step \in {"steps:activate", "steps:lock"}
  BY DEF CheckSteps, redis
<1>o. JobOK(p) /\ job[p].user \in Users
  BY <1>u DEF IInv, JobOK
<1> PICK u \in Users : u = job[p].user  BY <1>o
<1>1. CASE ~StepsDone(u)
  <2>1. Finish(p)  BY <1>1 DEF CheckSteps
  <2>2. ~Ready(job[p].user)  BY <1>1 DEF Ready, StepsDone
  <2> QED BY <1>u, <2>1, <2>2, EndKeeps
<1>2. CASE StepsDone(u)
  <2> DEFINE step == IF At(p, "steps:lock") THEN "lock" ELSE "activate"
             new == [job[p] EXCEPT !.step = step, !.loaded = user[u].beneficiary]
  <2>1. step \in {"lock", "activate"} /\ step \in Steps /\ job[p] \in Job /\ user[u].beneficiary \in BOOLEAN
    BY <1>t DEF Steps, DataOK, User
  <2>2. job' = [job EXCEPT ![p] = new]
    <3>1. job' = [job EXCEPT ![p].step = step, ![p].loaded = user[u].beneficiary]
      BY <1>2 DEF CheckSteps
    <3> HIDE DEF step
    <3> QED BY <3>1, <1>t
  <2> HIDE DEF step
  <2>3. new \in Job /\ new.step = step /\ new.user = u /\ new.loaded = user[u].beneficiary
    BY <2>1 DEF Job
  <2> HIDE DEF new
  <2>4. Moves(p, new, step)
    BY <2>2, <2>3, <1>t DEF Moves
  <2>5. JobOK(p)'
    BY <2>1, <2>3, <2>4, <1>o DEF JobOK, Moves, Activating
  <2>6. Grounded(p)'
    <3>2. job'[p].user = u /\ job'[p].loaded = user[u].beneficiary /\ job'[p].step \in {"lock", "activate"}
      BY <2>1, <2>3, <2>4 DEF Moves
    <3> QED BY <3>2, <1>2, <1>u DEF Grounded, StepsDone, Imported
  <2>7. TodoOpen'
    <3>1. new.step \notin {"idle", "dms:save", "dms:import"}  BY <2>1, <2>3
    <3> QED BY <3>1, <2>2, <1>u, TodoKept
  <2>8. step \in Activating /\ step \notin {"validate:count", "send:save", "send:count"}
    BY <2>1 DEF Activating
  <2> QED BY <1>u, <2>3, <2>4, <2>5, <2>6, <2>7, <2>8, MoveKeeps
<1> QED BY <1>1, <1>2

\* A process that takes the row of the user it activates.
LEMMA TakeRowKeeps ==
  ASSUME IInv, NEW p \in Processes, NEW u \in Users, u = job[p].user, job[p].step \in Activating,
         StepsDone(u), lock[u] \in {None, p}, ~user[u].beneficiary,
         NEW step \in {"activate", "credit"}, Goto(p, step), Lock(p, u),
         step = "activate" => job[p].step = "lock",
         UNCHANGED <<user, deposits, token, import, attempts, sms, batch>>
  PROVE  IInv'
<1>t. DataOK /\ job \in [Processes -> Job] /\ None \notin Processes  BY Typed, Constants DEF IInv
<1>o. JobOK(p) /\ Grounded(p)  BY DEF IInv
<1>1. PICK new : Went(p, new, step)  BY <1>t, GotoRecord DEF Steps
<1>m. new \in Job /\ job' = [job EXCEPT ![p] = new] /\ job'[p] = new /\ new.step = step
      /\ new.user = u /\ new.loaded = job[p].loaded
  BY <1>1 DEF Went, Moves
<1>l. lock' \in [Users -> Processes \union {None}] /\ lock'[u] = p /\ \A v \in Users \ {u} : lock'[v] = lock[v]
  BY <1>t DEF Lock, DataOK
<1>2. DataOK'  BY <1>t, <1>l DEF DataOK
<1>3. JobOK(p)'  BY <1>m, <1>o DEF JobOK, Activating
<1>4. Grounded(p)'
  <2>1. deposits[u] = 0  BY DEF IInv, CreditedOnce
  <2> QED BY <2>1, <1>l, <1>m, <1>o DEF Grounded, StepsDone, Imported
<1>5. TodoOpen'
  <2>1. new.step \notin {"idle", "dms:save", "dms:import"}  BY <1>m
  <2> QED BY <2>1, <1>m, TodoKept
<1>6. \A q \in Processes \ {p}, v \in Users : lock[v] = q => lock'[v] = q
  BY <1>l, <1>t
<1>7. \A v \in Users : Counted(v)'
  <2>1. /\ attempts' \in [Users -> Nat] /\ sms' \in [Users -> Nat]
        /\ \A v \in Users : attempts'[v] <= attempts[v] /\ sms'[v] <= sms[v]
    BY <1>t DEF DataOK
  <2> QED BY <1>m, <2>1, CountingKept
<1>8. \A v \in Users : job[p].user = v /\ job[p].step \in Activating /\ Ready(v) /\ ~user[v].beneficiary =>
                         new.user = v /\ new.step \in Activating
  BY <1>m DEF Activating
<1>9. UNCHANGED <<user, deposits, import>>  OBVIOUS
<1>10. new \in Job /\ job' = [job EXCEPT ![p] = new]  BY <1>m
<1> QED BY <1>2, <1>3, <1>4, <1>5, <1>6, <1>7, <1>8, <1>9, <1>10, QuietStepKeeps

LEMMA LockUserKeeps ==
  ASSUME IInv, NEW p \in Processes, LockUser(p)
  PROVE  IInv'
<1>u. UNCHANGED <<user, deposits, token, import, attempts, sms, batch>>
      /\ job[p].step = "lock" /\ job[p].step \in Activating
  BY DEF LockUser, redis, At, Activating
<1>o. JobOK(p) /\ job[p].user \in Users /\ StepsDone(job[p].user)
  BY <1>u DEF IInv, JobOK, Grounded
<1> PICK u \in Users : u = job[p].user  BY <1>o
<1>1. CASE user[u].beneficiary \/ user[u].completed = "no"
  <2>1. Finish(p) /\ lock' = lock  BY <1>1 DEF LockUser
  <2>2. ~Ready(job[p].user) \/ user[job[p].user].beneficiary  BY <1>1 DEF Ready
  <2> QED BY <1>u, <2>1, <2>2, EndKeeps
<1>2. CASE ~(user[u].beneficiary \/ user[u].completed = "no")
  <2>1. lock[u] \in {None, p} /\ Lock(p, u) /\ Goto(p, "activate")
    BY <1>2 DEF LockUser, RowFree
  <2> QED BY <1>2, <1>o, <1>u, <2>1, TakeRowKeeps
<1> QED BY <1>1, <1>2

LEMMA ActivateKeeps ==
  ASSUME IInv, NEW p \in Processes, Activate(p)
  PROVE  IInv'
<1>t. DataOK /\ job \in [Processes -> Job]  BY Typed DEF IInv
<1>u. job[p].step = "activate" /\ job[p].step \in Activating
  BY DEF Activate, At, Activating
<1>o. JobOK(p) /\ job[p].user \in Users /\ StepsDone(job[p].user) /\ job[p].loaded \in BOOLEAN
      /\ (job[p].loaded = TRUE => user[job[p].user].beneficiary)
  BY <1>u DEF IInv, JobOK, Grounded
<1> PICK u \in Users : u = job[p].user  BY <1>o
<1>b. user[u].beneficiary <=> deposits[u] > 0  BY DEF IInv, CreditedOnce
<1>1. CASE deposits[u] > 0
  <2>1. Fail(p)  BY <1>1 DEF Activate
  <2> QED BY <1>1, <1>b, <2>1, FailKeeps
<1>2. CASE ~(deposits[u] > 0)
  <2>1. Lock(p, u) /\ Goto(p, "credit") /\ UNCHANGED <<user, deposits, token, import, attempts, sms, batch>>
    BY <1>2 DEF Activate, redis
  <2>2. lock[u] \in {None, p}  BY <1>2, <1>b, <1>o DEF Activate
  <2> QED BY <1>2, <1>b, <1>o, <1>u, <2>1, <2>2, TakeRowKeeps
<1> QED BY <1>1, <1>2

LEMMA CreditKeeps ==
  ASSUME IInv, NEW p \in Processes, Credit(p)
  PROVE  IInv'
<1>t. DataOK /\ job \in [Processes -> Job]  BY Typed DEF IInv
<1>u. UNCHANGED <<token, import, attempts, sms, batch>> /\ job[p].step = "credit" /\ Finish(p)
  BY DEF Credit, redis, At
<1>o. JobOK(p) /\ job[p].user \in Users /\ StepsDone(job[p].user) /\ lock[job[p].user] = p
      /\ deposits[job[p].user] = 0
  BY <1>u DEF IInv, JobOK, Grounded
<1> PICK u \in Users : u = job[p].user  BY <1>o
<1>1. PICK new : Ended(p, new)  BY <1>t, <1>u, FinishRecord
<1>m. new \in Job /\ job' = [job EXCEPT ![p] = new] /\ job'[p] = new /\ new.user = None
      /\ new.step = (IF p = Batch THEN "dms:next" ELSE "idle")
      /\ \A q \in Processes \ {p} : job'[q] = job[q]
  BY <1>1, <1>t DEF Ended, Moves
<1>a. /\ user' \in [Users -> User] /\ user'[u].beneficiary = TRUE
      /\ user'[u].validated = user[u].validated
      /\ \A v \in Users \ {u} : user'[v] = user[v]
  <2> DEFINE row == [user[u] EXCEPT !.beneficiary = TRUE]
  <2>1. user' = [user EXCEPT ![u] = row]  BY DEF Credit
  <2>2. user[u] \in User  BY <1>t DEF DataOK
  <2>3. row \in User /\ row.beneficiary = TRUE /\ row.validated = user[u].validated
    BY <2>2 DEF User
  <2> HIDE DEF row
  <2> QED BY <1>t, <2>1, <2>3 DEF DataOK
<1>d. /\ deposits' \in [Users -> Nat] /\ deposits'[u] = 1
      /\ \A v \in Users \ {u} : deposits'[v] = deposits[v]
  BY <1>t, <1>o DEF Credit, DataOK
<1>l. /\ lock' \in [Users -> Processes \union {None}]
      /\ \A q \in Processes \ {p}, v \in Users : lock[v] = q => lock'[v] = q
  BY <1>t, Constants DEF Credit, Unlocked, DataOK
<1>s. \A v \in Users : StepsDone(v)' = StepsDone(v)
  BY <1>a, <1>u DEF StepsDone, Imported
<1>2. (TypeOK /\ batch \in Batches)'
  <2>1. job' \in [Processes -> Job]  BY <1>m, <1>t
  <2> QED BY <2>1, <1>a, <1>d, <1>l, <1>t, <1>u DEF TypeOK, DataOK, Batches
<1>3. \A q \in Processes : JobOK(q)'
  BY <1>m DEF IInv, JobOK, Activating
<1>4. \A q \in Processes : Grounded(q)'
  <2> TAKE q \in Processes
  <2>1. CASE q = p  BY <2>1, <1>m DEF Grounded
  <2>2. CASE q # p
    <3>1. job'[q] = job[q] /\ Grounded(q) /\ JobOK(q)  BY <1>m, <2>2 DEF IInv
    <3>2. job[q].step \in {"activate", "lock", "credit"} => job[q].user \in Users
      BY <3>1 DEF JobOK
    <3>3. \A v \in Users : user[v].beneficiary => user'[v].beneficiary
      BY <1>a
    <3>4. job[q].step = "credit" => job[q].user # u /\ lock'[job[q].user] = q
      BY <1>l, <1>o, <2>2, <3>1, <3>2 DEF Grounded
    <3> QED BY <3>1, <3>2, <3>3, <3>4, <1>d, <1>s DEF Grounded, StepsDone, Imported
  <2> QED BY <2>1, <2>2
<1>5. TodoOpen'
  <2>1. p = Batch => new.step \notin {"idle", "dms:save", "dms:import"}  BY <1>m
  <2> QED BY <2>1, <1>m, <1>u, TodoKept
<1>6. CreditedOnce'  BY <1>a, <1>d DEF IInv, CreditedOnce
<1>7. BeneficiariesDidEveryStep'
  <2>1. \A v \in Users : user'[v].beneficiary => StepsDone(v)
    BY <1>a, <1>o DEF IInv, BeneficiariesDidEveryStep, StepsDone
  <2> QED BY <2>1, <1>s DEF BeneficiariesDidEveryStep, StepsDone
<1>8. \A v \in Users : Counted(v)'
  <2>1. /\ attempts' \in [Users -> Nat] /\ sms' \in [Users -> Nat]
        /\ \A v \in Users : attempts'[v] <= attempts[v] /\ sms'[v] <= sms[v]
    BY <1>t, <1>u DEF DataOK
  <2> QED BY <1>m, <2>1, CountingKept
<1>9. \A v \in Users : Followed(v)'
  <2> SUFFICES ASSUME NEW v \in Users, v # u, Ready(v)', ~user'[v].beneficiary  PROVE LookedAt(v)'
    BY <1>a DEF Followed
  <2>1. Ready(v) /\ ~user[v].beneficiary  BY <1>a, <1>u DEF Ready, Imported
  <2>2. PICK q \in Processes : job[q].user = v /\ job[q].step \in Activating
    BY <2>1 DEF IInv, Followed, LookedAt
  <2>3. job'[q] = job[q]  BY <1>m, <2>2
  <2> QED BY <2>2, <2>3 DEF LookedAt
<1> QED BY <1>2, <1>3, <1>4, <1>5, <1>6, <1>7, <1>8, <1>9 DEF IInv
-----------------------------------------------------------------------------
(* The steps of an account, and those that look whether they are done.      *)

Looks(p, new, step, u) == Moves(p, new, step) /\ new.user = u

LEMMA LookRecord ==
  ASSUME job \in [Processes -> Job], NEW p \in Processes, NEW u \in Users, NEW step \in Steps,
         job' = [job EXCEPT ![p] = [Idle EXCEPT !.step = step, !.user = u]]
  PROVE  \E new : Looks(p, new, step, u)
<1> DEFINE new == [Idle EXCEPT !.step = step, !.user = u]
<1>1. new \in Job /\ new.step = step /\ new.user = u  BY IdleOK DEF Job
<1>2. job' = [job EXCEPT ![p] = new]  OBVIOUS
<1> HIDE DEF new
<1>3. job'[p] = new  BY <1>2
<1> QED BY <1>1, <1>2, <1>3 DEF Moves, Looks

\* Whoever does a step of a user goes on to look at that user.
LEMMA LookKeeps ==
  ASSUME IInv, NEW p \in Processes, NEW new, NEW u \in Users, NEW step \in {"steps:activate", "steps:lock"},
         Looks(p, new, step, u), job[p].step \notin Activating, DataOK', TodoOpen',
         UNCHANGED <<deposits, attempts, sms, lock>>,
         \A v \in Users : /\ user'[v].beneficiary = user[v].beneficiary
                          /\ StepsDone(v) => StepsDone(v)',
         \A v \in Users \ {u} : Ready(v)' => Ready(v)
  PROVE  IInv'
<1>t. DataOK /\ job \in [Processes -> Job]  BY Typed DEF IInv
<1>m. new \in Job /\ job' = [job EXCEPT ![p] = new] /\ job'[p] = new /\ new.step = step /\ new.user = u
  BY DEF Looks, Moves
<1>1. JobOK(p)' /\ Grounded(p)'  BY <1>m DEF JobOK, Grounded, Activating
<1>2. \A v \in Users : Counted(v)'
  <2>1. /\ attempts' \in [Users -> Nat] /\ sms' \in [Users -> Nat]
        /\ \A v \in Users : attempts'[v] <= attempts[v] /\ sms'[v] <= sms[v]
    BY <1>t DEF DataOK
  <2> QED BY <1>m, <2>1, CountingKept
<1>3. LookedAt(u)'  BY <1>m DEF LookedAt, Activating
<1>4. \A v \in Users : Ready(v)' => Ready(v) \/ LookedAt(v)'
  BY <1>3
<1>5. \A q \in Processes \ {p}, v \in Users : lock[v] = q => lock'[v] = q
  OBVIOUS
<1>6. deposits' = deposits  OBVIOUS
<1>7. \A v \in Users : /\ user'[v].beneficiary = user[v].beneficiary
                       /\ StepsDone(v) => StepsDone(v)'
  OBVIOUS
<1>8. \A v \in Users : job[p].user = v /\ job[p].step \in Activating /\ Ready(v)' /\ ~user[v].beneficiary =>
                         new.user = v /\ new.step \in Activating
  OBVIOUS
<1> QED BY <1>1, <1>2, <1>4, <1>5, <1>6, <1>7, <1>8, <1>m, StepKeeps

LEMMA SubmitProfileKeeps ==
  ASSUME IInv, NEW p \in Requests, NEW u \in Users, SubmitProfile(p, u)
  PROVE  IInv'
<1>t. DataOK /\ job \in [Processes -> Job] /\ p \in Processes /\ p # Batch  BY Typed, Constants DEF IInv
<1>u. UNCHANGED <<deposits, token, import, attempts, sms, lock, batch>> /\ job[p].step = "idle"
      /\ job[p].step \notin Activating
  BY DEF SubmitProfile, redis, Begin, At, Activating
<1>1. PICK new : Looks(p, new, "steps:lock", u)
  <2>1. Idle.input = None  BY DEF Idle
  <2>2. job' = [job EXCEPT ![p] = [Idle EXCEPT !.step = "steps:lock", !.user = u]]
    BY <2>1 DEF SubmitProfile, Begin, Idle
  <2> QED BY <2>2, <1>t, LookRecord DEF Steps
<1>a. /\ user' \in [Users -> User]
      /\ \A v \in Users : user'[v].beneficiary = user[v].beneficiary /\ user'[v].validated = user[v].validated
      /\ \A v \in Users \ {u} : user'[v] = user[v]
  BY <1>t, SMTT(30) DEF SubmitProfile, DataOK, User
<1>2. DataOK'  BY <1>a, <1>t, <1>u DEF DataOK
<1>3. TodoOpen'  BY <1>1, <1>t, <1>u, TodoKept DEF Looks, Moves
<1>4. \A v \in Users : StepsDone(v)' = StepsDone(v)  BY <1>a, <1>u DEF StepsDone, Imported
<1>5. \A v \in Users \ {u} : Ready(v)' => Ready(v)  BY <1>a, <1>u DEF Ready, Imported
<1> QED BY <1>1, <1>2, <1>3, <1>4, <1>5, <1>a, <1>t, <1>u, LookKeeps

LEMMA SaveValidationKeeps ==
  ASSUME IInv, NEW p \in Processes, SaveValidation(p)
  PROVE  IInv'
<1>t. DataOK /\ job \in [Processes -> Job]  BY Typed DEF IInv
<1>u. UNCHANGED <<deposits, import, attempts, sms, lock, batch>> /\ job[p].step = "validate:save"
      /\ job[p].step \notin Activating
  BY DEF SaveValidation, redis, At, Activating
<1>o. JobOK(p) /\ job[p].user \in Users /\ p # Batch
  BY <1>u DEF IInv, JobOK, Activating
<1> PICK u \in Users : u = job[p].user  BY <1>o
<1>1. PICK new : Looks(p, new, "steps:activate", u)
  <2>1. job' = [job EXCEPT ![p] = [Idle EXCEPT !.step = "steps:activate", !.user = u]]
    BY DEF SaveValidation
  <2> QED BY <2>1, <1>t, LookRecord DEF Steps
<1>a. /\ user' \in [Users -> User]
      /\ \A v \in Users : /\ user'[v].beneficiary = user[v].beneficiary
                          /\ user[v].validated => user'[v].validated
                          /\ user'[v].completed = user[v].completed
      /\ \A v \in Users \ {u} : user'[v] = user[v]
  <2> DEFINE row == [user[u] EXCEPT !.validated = TRUE]
  <2>1. user' = [user EXCEPT ![u] = row]  BY DEF SaveValidation
  <2>2. user[u] \in User  BY <1>t DEF DataOK
  <2>3. /\ row \in User /\ row.beneficiary = user[u].beneficiary /\ row.validated = TRUE
        /\ row.completed = user[u].completed
    BY <2>2 DEF User
  <2> HIDE DEF row
  <2> QED BY <1>t, <2>1, <2>3 DEF DataOK
<1>2. DataOK'
  <2>1. token' \subseteq Users \X Codes  BY <1>t DEF SaveValidation, DataOK
  <2> QED BY <1>a, <1>t, <1>u, <2>1 DEF DataOK
<1>3. TodoOpen'  BY <1>1, <1>o, <1>u, TodoKept DEF Looks, Moves
<1>4. \A v \in Users : StepsDone(v) => StepsDone(v)'  BY <1>a, <1>u DEF StepsDone, Imported
<1>5. \A v \in Users \ {u} : Ready(v)' => Ready(v)  BY <1>a, <1>u DEF Ready, Imported
<1> QED BY <1>1, <1>2, <1>3, <1>4, <1>5, <1>a, <1>u, LookKeeps

LEMMA ChangeCommitKeeps ==
  ASSUME IInv, NEW p \in Processes, ChangeCommit(p)
  PROVE  IInv'
<1>t. DataOK /\ job \in [Processes -> Job]  BY Typed DEF IInv
<1>u. UNCHANGED <<deposits, import, attempts, sms, batch>> /\ job[p].step = "change:delete"
      /\ job[p].step \notin Activating
  BY DEF ChangeCommit, redis, At, Activating
<1>o. JobOK(p) /\ job[p].user \in Users /\ job[p].input \in Phones /\ p # Batch
  BY <1>u DEF IInv, JobOK, Activating
<1> PICK u \in Users : u = job[p].user  BY <1>o
<1> DEFINE new == [job[p] EXCEPT !.step = "send:check", !.input = None]
<1>m. new \in Job /\ new.step = "send:check" /\ new.user = u
  <2>1. job[p] \in Job  BY <1>t
  <2> QED BY <2>1 DEF Job, Steps
<1>1. job' = [job EXCEPT ![p] = new]  BY <1>t DEF ChangeCommit
<1> HIDE DEF new
<1>2. job'[p] = new  BY <1>1, <1>t
<1>a. /\ user' \in [Users -> User]
      /\ \A v \in Users : /\ user'[v].beneficiary = user[v].beneficiary
                          /\ user'[v].validated = user[v].validated
                          /\ user'[v].completed = user[v].completed
  BY <1>o, <1>t, SMTT(30) DEF ChangeCommit, DataOK, User
<1>l. /\ lock' \in [Users -> Processes \union {None}]
      /\ \A q \in Processes \ {p}, v \in Users : lock[v] = q => lock'[v] = q
  BY <1>t, Constants DEF ChangeCommit, Unlocked, DataOK
<1>3. DataOK'
  <2>1. token' \subseteq Users \X Codes  BY <1>t DEF ChangeCommit, DataOK
  <2> QED BY <1>a, <1>l, <1>t, <1>u, <2>1 DEF DataOK
<1>4. JobOK(p)' /\ Grounded(p)'  BY <1>2, <1>m, <1>o DEF JobOK, Grounded, Activating
<1>5. TodoOpen'  BY <1>1, <1>o, <1>u, TodoKept
<1>6. \A v \in Users : Ready(v)' = Ready(v) /\ StepsDone(v)' = StepsDone(v)
  BY <1>a, <1>u DEF Ready, StepsDone, Imported
<1>7. \A v \in Users : Counted(v)'
  <2>1. /\ attempts' \in [Users -> Nat] /\ sms' \in [Users -> Nat]
        /\ \A v \in Users : attempts'[v] <= attempts[v] /\ sms'[v] <= sms[v]
    BY <1>t, <1>u DEF DataOK
  <2> QED BY <1>1, <1>m, <2>1, CountingKept
<1> QED BY <1>1, <1>3, <1>4, <1>5, <1>6, <1>7, <1>a, <1>l, <1>m, <1>u, StepKeeps

-----------------------------------------------------------------------------
(* Applications.                                                            *)

\* The account of an application that is accepted.
LEMMA RegisteredRow ==
  ASSUME DataOK, NEW a \in Applications, NEW u \in Users, u = UserOf[a],
         NEW completed \in {"no", "flagged", "submitted"}, user' = Registered(a, completed)
  PROVE  /\ user' \in [Users -> User]
         /\ user'[u].completed = completed
         /\ \A v \in Users : user'[v].beneficiary = user[v].beneficiary /\ user'[v].validated = user[v].validated
         /\ \A v \in Users \ {u} : user'[v] = user[v]
<1> DEFINE phone == IF user[u].phone = None THEN PhoneOf[u] ELSE user[u].phone
           row == [user[u] EXCEPT !.account = TRUE, !.details = a, !.completed = completed, !.phone = phone]
<1>1. user[u] \in User  BY DEF DataOK
<1>2. phone \in Phones \union {None}  BY <1>1, Constants DEF User
<1>3. user' = [user EXCEPT ![u] = row]  BY DEF Registered, DataOK
<1> HIDE DEF phone
<1>4. /\ row \in User /\ row.beneficiary = user[u].beneficiary /\ row.validated = user[u].validated
      /\ row.completed = completed
  BY <1>1, <1>2 DEF User
<1> HIDE DEF row
<1> QED BY <1>3, <1>4 DEF DataOK

Processed(p, new, step, a) == Moves(p, new, step) /\ new.user = UserOf[a] /\ new.app = a

LEMMA ProcessRecord ==
  ASSUME DataOK, job \in [Processes -> Job], NEW p \in Processes, NEW a \in Applications, NEW step \in Steps,
         Process(p, step, a)
  PROVE  \E new : Processed(p, new, step, a)
<1> DEFINE loaded == user[UserOf[a]].account
           new == [Idle EXCEPT !.step = step, !.user = UserOf[a], !.loaded = loaded, !.app = a]
<1>1. UserOf[a] \in Users /\ loaded \in BOOLEAN  BY Constants DEF DataOK, User
<1>2. job' = [job EXCEPT ![p] = new]  BY DEF Process
<1> HIDE DEF loaded
<1>3. new \in Job /\ new.step = step /\ new.user = UserOf[a] /\ new.app = a
  BY <1>1, IdleOK, ZenonT(40) DEF Job
<1> HIDE DEF new
<1>4. job'[p] = new  BY <1>2
<1> QED BY <1>2, <1>3, <1>4 DEF Moves, Processed

LEMMA JouveResultKeeps ==
  ASSUME IInv, NEW p \in Requests, NEW a \in Applications, JouveResult(p, a)
  PROVE  IInv'
<1>t. DataOK /\ job \in [Processes -> Job] /\ p \in Processes /\ p # Batch  BY Typed, Constants DEF IInv
<1>u. UNCHANGED <<user, deposits, token, attempts, sms, lock, batch>> /\ a \in JouveApplications
  BY DEF JouveResult, redis
<1>1. CASE At(p, "idle") /\ Process(p, "jouve:save", a) /\ UNCHANGED import
  <2>1. PICK new : Processed(p, new, "jouve:save", a)
    BY <1>1, <1>t, ProcessRecord DEF Steps
  <2>m. Moves(p, new, "jouve:save") /\ job'[p] = new /\ job' = [job EXCEPT ![p] = new]
        /\ new.step = "jouve:save" /\ new.user = UserOf[a] /\ new.app = a /\ job[p].step = "idle"
    BY <1>1, <2>1 DEF Processed, Moves, At
  <2>2. JobOK(p)' /\ Grounded(p)'
    BY <1>t, <1>u, <2>m, Constants DEF JobOK, Grounded, Activating
  <2>3. TodoOpen'  BY <1>1, <1>t, <1>u, <2>m, TodoKept
  <2>4. job[p].step \notin Activating  BY <2>m DEF Activating
  <2> QED BY <1>1, <1>t, <1>u, <2>m, <2>2, <2>3, <2>4, MoveKeeps
<1>2. CASE import' = Rejected(a) /\ UNCHANGED job /\ import[a] = "CREATED"
  <2>1. import' = import  BY <1>2, <1>t DEF Rejected, DataOK
  <2> QED BY <1>2, <1>u, <2>1, StutterKeeps DEF vars, redis
<1>3. CASE import' = Rejected(a) /\ UNCHANGED job /\ import[a] # "CREATED"
  <2>1. Record(a, "REJECTED")  BY <1>3 DEF Record, Rejected
  <2>2. a \notin batch'.todo  BY <1>u DEF IInv, TodoOpen
  <2>3. batch' \in Batches /\ batch'.todo \subseteq batch.todo  BY <1>u DEF IInv
  <2>4. UNCHANGED <<user, deposits, token, redis, lock, job>>  BY <1>3, <1>u DEF redis
  <2> QED BY <1>3, <2>1, <2>2, <2>3, <2>4, RecordKeeps
<1> QED BY <1>1, <1>2, <1>3 DEF JouveResult

LEMMA JouveSaveKeeps ==
  ASSUME IInv, NEW p \in Processes, JouveSave(p)
  PROVE  IInv'
<1>t. DataOK /\ job \in [Processes -> Job]  BY Typed DEF IInv
<1>u. job[p].step = "jouve:save" /\ job[p].step \notin Activating
  BY DEF JouveSave, At, Activating
<1>o. JobOK(p) /\ job[p].user \in Users /\ job[p].app \in JouveApplications /\ job[p].app \in Applications
      /\ job[p].user = UserOf[job[p].app] /\ p # Batch
  BY <1>u DEF IInv, JobOK, Activating
<1> PICK u \in Users : u = job[p].user  BY <1>o
<1> PICK a \in Applications : a = job[p].app  BY <1>o
<1>1. CASE Fail(p)  BY <1>1, <1>u, FailKeeps
<1>2. CASE /\ import' = [import EXCEPT ![a] = "CREATED"]
           /\ user' = Registered(a, "submitted") \/ user' = Registered(a, user[u].completed)
           /\ job' = [job EXCEPT ![p] = [Idle EXCEPT !.step = "steps:lock", !.user = u]]
           /\ UNCHANGED <<deposits, token, redis, lock, batch>>
  <2>u. UNCHANGED <<deposits, token, attempts, sms, lock, batch>>  BY <1>2 DEF redis
  <2>1. PICK new : Looks(p, new, "steps:lock", u)
    BY <1>2, <1>t, LookRecord DEF Steps
  <2>i. /\ import' \in [Applications -> ImportStatus] /\ import'[a] = "CREATED"
        /\ \A b \in Applications \ {a} : import'[b] = import[b]
    BY <1>2, <1>t DEF DataOK, ImportStatus
  <2>a. /\ user' \in [Users -> User]
        /\ \A v \in Users : user'[v].beneficiary = user[v].beneficiary /\ user'[v].validated = user[v].validated
        /\ \A v \in Users \ {u} : user'[v] = user[v]
    <3>1. u = UserOf[a]  BY <1>o
    <3>2. user[u].completed \in {"no", "flagged", "submitted"}  BY <1>t DEF DataOK, User
    <3>3. CASE user' = Registered(a, "submitted")  BY <3>1, <3>3, <1>t, RegisteredRow
    <3>4. CASE user' = Registered(a, user[u].completed)
      <4> DEFINE completed == user[u].completed
      <4>1. completed \in {"no", "flagged", "submitted"} /\ user' = Registered(a, completed)  BY <3>2, <3>4
      <4> HIDE DEF completed
      <4> QED BY <3>1, <4>1, <1>t, RegisteredRow
    <3> QED BY <1>2, <3>3, <3>4
  <2>2. DataOK'  BY <1>t, <2>a, <2>i, <2>u DEF DataOK
  <2>3. TodoOpen'
    <3>1. \A q \in Processes \ {p} : job'[q] = job[q]  BY <1>t, <2>1 DEF Looks, Moves
    <3>2. a \notin batch.todo  BY <1>o DEF IInv, TodoOpen
    <3>3. batch.todo \subseteq Applications /\ JouveApplications \subseteq Applications
      BY <1>t, BeneficiariesAssumption DEF DataOK, Batches
    <3>4. job'[Batch] = job[Batch]  BY <1>o, <3>1, Constants
    <3> QED BY <2>i, <2>u, <3>2, <3>3, <3>4 DEF IInv, TodoOpen
  <2>4. \A v \in Users : Imported(v) => Imported(v)'  BY <2>i DEF Imported
  <2>5. \A v \in Users \ {u} : Imported(v)' => Imported(v)  BY <1>o, <2>i DEF Imported
  <2>6. \A v \in Users : StepsDone(v) => StepsDone(v)'  BY <2>4, <2>a DEF StepsDone
  <2>7. \A v \in Users \ {u} : Ready(v)' => Ready(v)  BY <2>5, <2>a DEF Ready
  <2> QED BY <1>u, <2>1, <2>2, <2>3, <2>6, <2>7, <2>a, <2>u, LookKeeps
<1> QED BY <1>1, <1>2 DEF JouveSave
-----------------------------------------------------------------------------
(* The import of DMS.                                                       *)

LEMMA BatchMoveKeeps ==
  ASSUME IInv, NEW new, NEW step \in {"idle", "dms:next", "dms:save"}, Moves(Batch, new, step),
         UNCHANGED <<user, deposits, token, import, attempts, sms, lock>>, batch' \in Batches,
         JobOK(Batch)', TodoOpen', job[Batch].step \notin Activating
  PROVE  IInv'
<1>t. DataOK /\ job \in [Processes -> Job] /\ Batch \in Processes  BY Typed, Constants DEF IInv
<1>m. new \in Job /\ job' = [job EXCEPT ![Batch] = new] /\ job'[Batch] = new /\ new.step = step
  BY DEF Moves
<1>1. DataOK'  BY <1>t DEF DataOK
<1>2. Grounded(Batch)'  BY <1>m DEF Grounded
<1>3. \A v \in Users : Counted(v)'
  <2>1. /\ attempts' \in [Users -> Nat] /\ sms' \in [Users -> Nat]
        /\ \A v \in Users : attempts'[v] <= attempts[v] /\ sms'[v] <= sms[v]
    BY <1>t DEF DataOK
  <2> QED BY <1>m, <1>t, <2>1, CountingKept
<1>4. \A q \in Processes \ {Batch}, v \in Users : lock[v] = q => lock'[v] = q
  OBVIOUS
<1>5. UNCHANGED <<user, deposits, import>>  OBVIOUS
<1>6. \A u \in Users : job[Batch].user = u /\ job[Batch].step \in Activating /\ Ready(u) /\ ~user[u].beneficiary =>
                         new.user = u /\ new.step \in Activating
  OBVIOUS
<1> QED BY <1>1, <1>2, <1>3, <1>4, <1>5, <1>6, <1>m, <1>t, QuietStepKeeps

LEMMA StartBatchKeeps ==
  ASSUME IInv, StartBatch
  PROVE  IInv'
<1>t. DataOK /\ job \in [Processes -> Job] /\ Batch \in Processes  BY Typed, Constants DEF IInv
<1>u. UNCHANGED <<user, deposits, token, import, attempts, sms, lock>> /\ job[Batch].step \notin Activating
  BY DEF StartBatch, redis, At, Activating
<1>1. PICK new : Went(Batch, new, "dms:next")  BY <1>t, GotoRecord DEF StartBatch, Steps
<1>m. Moves(Batch, new, "dms:next") /\ job'[Batch] = new /\ new.step = "dms:next"
  BY <1>1 DEF Went, Moves
<1>2. batch' \in Batches
      /\ \A a \in batch'.todo : import[a] \in {"none", "RETRY"} /\ a \notin JouveApplications
  <2>1. \A a \in JouveApplications : import[a] # "RETRY"  BY DEF IInv, TodoOpen
  <2> QED BY <2>1 DEF StartBatch, Batches
<1>3. JobOK(Batch)'  BY <1>m DEF JobOK
<1>4. TodoOpen'  BY <1>2, <1>m, <1>u DEF IInv, TodoOpen
<1> QED BY <1>2, <1>3, <1>4, <1>m, <1>u, BatchMoveKeeps

LEMMA EndBatchKeeps ==
  ASSUME IInv, EndBatch
  PROVE  IInv'
<1>t. DataOK /\ job \in [Processes -> Job] /\ Batch \in Processes  BY Typed, Constants DEF IInv
<1>u. UNCHANGED <<user, deposits, token, import, attempts, sms, lock>> /\ job[Batch].step \notin Activating
  BY DEF EndBatch, redis, At, Activating
<1>1. Moves(Batch, Idle, "idle") /\ job'[Batch].step = "idle"
  <2>1. job' = [job EXCEPT ![Batch] = Idle] /\ job'[Batch] = Idle  BY <1>t DEF EndBatch
  <2> QED BY <2>1, IdleOK DEF Moves
<1>2. batch' \in Batches /\ batch'.todo = {}  BY DEF EndBatch, NoBatch, Batches
<1>3. JobOK(Batch)'  BY <1>1 DEF JobOK
<1>4. TodoOpen'  BY <1>2, <1>1, <1>u DEF IInv, TodoOpen
<1> QED BY <1>1, <1>2, <1>3, <1>4, <1>u, BatchMoveKeeps

LEMMA NextApplicationKeeps ==
  ASSUME IInv, NEW a \in Applications, NextApplication(a)
  PROVE  IInv'
<1>t. DataOK /\ job \in [Processes -> Job] /\ Batch \in Processes  BY Typed, Constants DEF IInv
<1>u. UNCHANGED <<user, deposits, token, attempts, sms, lock>> /\ job[Batch].step = "dms:next" /\ a \in batch.todo
  BY DEF NextApplication, redis, At
<1>b. batch' \in Batches /\ batch'.todo = batch.todo \ {a}
  BY <1>t DEF NextApplication, DataOK, Batches
<1>i. \A b \in batch.todo : import[b] \in {"none", "RETRY"} /\ b \notin JouveApplications
  BY DEF IInv, TodoOpen
<1>1. CASE \E status \in {"ERROR", "REJECTED", "DUPLICATE", "RETRY"} : Record(a, status) /\ UNCHANGED job
  <2>1. import[a] # "CREATED" /\ a \notin batch'.todo /\ batch'.todo \subseteq batch.todo /\ a \notin JouveApplications
    BY <1>b, <1>i, <1>u
  <2>2. UNCHANGED <<user, deposits, token, redis, lock, job>>  BY <1>1, <1>u DEF redis
  <2> QED BY <1>1, <1>b, <2>1, <2>2, RecordKeeps
<1>2. CASE Process(Batch, "dms:save", a) /\ UNCHANGED import
  <2>1. PICK new : Processed(Batch, new, "dms:save", a)
    BY <1>2, <1>t, ProcessRecord DEF Steps
  <2>m. Moves(Batch, new, "dms:save") /\ job'[Batch] = new /\ new.step = "dms:save"
        /\ new.user = UserOf[a] /\ new.app = a
    BY <2>1 DEF Processed, Moves
  <2>2. JobOK(Batch)'  BY <2>m, Constants DEF JobOK, Activating
  <2>3. TodoOpen'  BY <1>2, <1>b, <1>i, <2>m DEF IInv, TodoOpen
  <2>4. job[Batch].step \notin Activating  BY <1>u DEF Activating
  <2> QED BY <1>2, <1>b, <1>u, <2>m, <2>2, <2>3, <2>4, BatchMoveKeeps
<1> QED BY <1>1, <1>2 DEF NextApplication

LEMMA DmsSaveKeeps ==
  ASSUME IInv, DmsSave
  PROVE  IInv'
<1>t. DataOK /\ job \in [Processes -> Job] /\ Batch \in Processes  BY Typed, Constants DEF IInv
<1>u. UNCHANGED <<deposits, token, import, attempts, sms, lock, batch>> /\ job[Batch].step = "dms:save"
      /\ job[Batch].step \notin Activating
  BY DEF DmsSave, redis, At, Activating
<1>o. JobOK(Batch) /\ job[Batch].user \in Users /\ job[Batch].app \in Applications
      /\ job[Batch].user = UserOf[job[Batch].app]
  BY <1>t, <1>u DEF IInv, JobOK
<1> PICK u \in Users : u = job[Batch].user  BY <1>o
<1> PICK a \in Applications : a = job[Batch].app  BY <1>o
<1>1. CASE Finish(Batch) /\ UNCHANGED user
  BY <1>1, <1>t, <1>u, EndKeeps
<1>2. CASE Goto(Batch, "dms:import") /\ user' = Registered(a, user[u].completed)
  <2>1. PICK new : Went(Batch, new, "dms:import")  BY <1>2, <1>t, GotoRecord DEF Steps
  <2>m. new \in Job /\ job' = [job EXCEPT ![Batch] = new] /\ job'[Batch] = new /\ new.step = "dms:import"
        /\ new.user = u /\ new.app = a
    BY <2>1 DEF Went, Moves
  <2>a. /\ user' \in [Users -> User]
        /\ \A v \in Users : /\ user'[v].beneficiary = user[v].beneficiary
                            /\ user'[v].validated = user[v].validated
                            /\ user'[v].completed = user[v].completed
    <3> DEFINE completed == user[u].completed
    <3>1. completed \in {"no", "flagged", "submitted"} /\ user' = Registered(a, completed)
      BY <1>2, <1>t DEF DataOK, User
    <3>2. u = UserOf[a]  BY <1>o
    <3> HIDE DEF completed
    <3>3. /\ user' \in [Users -> User]
          /\ user'[u].completed = completed
          /\ \A v \in Users : user'[v].beneficiary = user[v].beneficiary /\ user'[v].validated = user[v].validated
          /\ \A v \in Users \ {u} : user'[v] = user[v]
      BY <3>1, <3>2, <1>t, RegisteredRow
    <3> USE DEF completed
    <3> QED BY <3>3
  <2>2. DataOK'  BY <1>t, <1>u, <2>a DEF DataOK
  <2>3. JobOK(Batch)' /\ Grounded(Batch)'
    BY <1>o, <2>m DEF JobOK, Grounded, Activating
  <2>4. TodoOpen'  BY <1>u, <2>m DEF IInv, TodoOpen
  <2>5. \A v \in Users : Ready(v)' = Ready(v) /\ StepsDone(v)' = StepsDone(v)
    BY <1>u, <2>a DEF Ready, StepsDone, Imported
  <2>6. \A v \in Users : Counted(v)'
    <3>1. /\ attempts' \in [Users -> Nat] /\ sms' \in [Users -> Nat]
          /\ \A v \in Users : attempts'[v] <= attempts[v] /\ sms'[v] <= sms[v]
      BY <1>t, <1>u DEF DataOK
    <3> QED BY <1>t, <2>m, <3>1, CountingKept
  <2>7. \A q \in Processes \ {Batch}, v \in Users : lock[v] = q => lock'[v] = q
    BY <1>u
  <2> QED BY <1>t, <1>u, <2>2, <2>3, <2>4, <2>5, <2>6, <2>7, <2>a, <2>m, StepKeeps
<1> QED BY <1>1, <1>2 DEF DmsSave

LEMMA DmsImportKeeps ==
  ASSUME IInv, DmsImport
  PROVE  IInv'
<1>t. DataOK /\ job \in [Processes -> Job] /\ Batch \in Processes  BY Typed, Constants DEF IInv
<1>u. UNCHANGED <<user, deposits, token, attempts, sms, lock, batch>> /\ job[Batch].step = "dms:import"
      /\ job[Batch].step \notin Activating
  BY DEF DmsImport, redis, At, Activating
<1>o. JobOK(Batch) /\ job[Batch].user \in Users /\ job[Batch].app \in Applications
      /\ job[Batch].user = UserOf[job[Batch].app] /\ job[Batch].app \notin batch.todo
  BY <1>t, <1>u DEF IInv, JobOK, TodoOpen
<1> PICK u \in Users : u = job[Batch].user  BY <1>o
<1> PICK a \in Applications : a = job[Batch].app  BY <1>o
<1>1. PICK new : Looks(Batch, new, "steps:activate", u)
  <2>1. job' = [job EXCEPT ![Batch] = [Idle EXCEPT !.step = "steps:activate", !.user = u]]
    BY DEF DmsImport
  <2> QED BY <2>1, <1>t, LookRecord DEF Steps
<1>i. /\ import' \in [Applications -> ImportStatus] /\ import'[a] = "CREATED"
      /\ \A b \in Applications \ {a} : import'[b] = import[b]
  <2>1. import' = [import EXCEPT ![a] = "CREATED"]  BY DEF DmsImport, Record
  <2> QED BY <2>1, <1>t DEF DataOK, ImportStatus
<1>2. DataOK'  BY <1>t, <1>i, <1>u DEF DataOK
<1>3. TodoOpen'
  <2>1. /\ job'[Batch].step = "steps:activate"
        /\ batch.todo \subseteq Applications /\ JouveApplications \subseteq Applications
    BY <1>1, <1>t, BeneficiariesAssumption DEF Looks, Moves, DataOK, Batches
  <2> QED BY <2>1, <1>i, <1>o, <1>u DEF IInv, TodoOpen
<1>4. \A v \in Users : Imported(v) => Imported(v)'  BY <1>i DEF Imported
<1>5. \A v \in Users \ {u} : Imported(v)' => Imported(v)  BY <1>o, <1>i DEF Imported
<1>6. \A v \in Users : StepsDone(v) => StepsDone(v)'  BY <1>4, <1>u DEF StepsDone
<1>7. \A v \in Users \ {u} : Ready(v)' => Ready(v)  BY <1>5, <1>u DEF Ready
<1>8. \A v \in Users : user'[v].beneficiary = user[v].beneficiary  BY <1>u
<1> QED BY <1>1, <1>2, <1>3, <1>6, <1>7, <1>8, <1>t, <1>u, LookKeeps
-----------------------------------------------------------------------------
(* The theorems.                                                            *)

\* Nobody has made two of the applications that were accepted before.
LEMMA TreatedOnce ==
  ASSUME NEW u \in Users
  PROVE  Cardinality(TreatedOf(u)) = IF TreatedOf(u) = {} THEN 0 ELSE 1
<1>1. CASE TreatedOf(u) = {}  BY <1>1, FS_EmptySet
<1>2. CASE TreatedOf(u) # {}
  <2>1. PICK a : a \in TreatedOf(u)  BY <1>2
  <2>2. TreatedOf(u) = {a}  BY <2>1, BeneficiariesAssumption DEF TreatedOf
  <2>3. Cardinality(TreatedOf(u)) = 1  BY <2>2, FS_Singleton
  <2> QED BY <1>2, <2>3
<1> QED BY <1>1, <1>2

LEMMA InitInv == Init => IInv
<1> SUFFICES ASSUME Init  PROVE IInv
  OBVIOUS
<1>r. \A u \in Users : /\ TreatedOf(u) = {} => user[u] = Nobody
                       /\ TreatedOf(u) # {} => \E a \in TreatedOf(u) : user[u] = Beneficiary(a)
  BY DEF Init
<1>1. \A u \in Users : /\ user[u] \in User
                       /\ user[u].beneficiary <=> TreatedOf(u) # {}
                       /\ user[u].completed = "submitted" => user[u].beneficiary
                       /\ user[u].beneficiary => user[u].validated
  <2> TAKE u \in Users
  <2>1. CASE TreatedOf(u) = {}
    <3>1. Nobody \in User /\ Nobody.beneficiary = FALSE /\ Nobody.completed = "no"  BY DEF Nobody, User
    <3> QED BY <1>r, <2>1, <3>1
  <2>2. CASE TreatedOf(u) # {}
    <3>1. PICK a \in TreatedOf(u) : user[u] = Beneficiary(a)  BY <1>r, <2>2
    <3>2. a \in Applications /\ UserOf[a] = u  BY <3>1, BeneficiariesAssumption DEF TreatedOf
    <3>3. Beneficiary(a) \in User /\ Beneficiary(a).beneficiary = TRUE /\ Beneficiary(a).validated = TRUE
      BY <3>2, Constants DEF Beneficiary, User
    <3> QED BY <2>2, <3>1, <3>3
  <2> QED BY <2>1, <2>2
<1>2. \A u \in Users : Imported(u) <=> TreatedOf(u) # {}
  BY BeneficiariesAssumption DEF Init, Imported, TreatedOf
<1>3. \A p \in Processes : job[p] = Idle  BY DEF Init
<1>4. (TypeOK /\ batch \in Batches)
  <2>1. user \in [Users -> User]  BY <1>1 DEF Init
  <2>2. deposits \in [Users -> Nat]  BY TreatedOnce DEF Init
  <2>3. import \in [Applications -> ImportStatus]  BY DEF Init, ImportStatus
  <2>4. /\ attempts \in [Users -> Nat] /\ sms \in [Users -> Nat] /\ token \subseteq Users \X Codes
        /\ lock \in [Users -> Processes \union {None}]
    BY DEF Init
  <2>5. job \in [Processes -> Job]  BY IdleOK DEF Init
  <2>6. batch \in Batches  BY DEF Init, NoBatch, Batches
  <2> QED BY <2>1, <2>2, <2>3, <2>4, <2>5, <2>6 DEF TypeOK, Batches
<1>5. \A p \in Processes : JobOK(p) /\ Grounded(p)
  BY <1>3, IdleOK DEF JobOK, Grounded
<1>6. TodoOpen
  <2>1. batch.todo = {} /\ job[Batch].step = "idle"  BY <1>3, IdleOK, Constants DEF Init, NoBatch
  <2>2. \A a \in JouveApplications : import[a] \in {"none", "CREATED"}
    BY BeneficiariesAssumption DEF Init
  <2> QED BY <2>1, <2>2 DEF TodoOpen
<1>7. CreditedOnce
  <2>1. \A u \in Users : deposits[u] = Cardinality(TreatedOf(u))  BY DEF Init
  <2> QED BY <1>1, <2>1, TreatedOnce DEF CreditedOnce
<1>8. BeneficiariesDidEveryStep  BY <1>1, <1>2 DEF BeneficiariesDidEveryStep
<1>9. \A u \in Users : Counted(u)
  <2> TAKE u \in Users
  <2>1. Attempting(u) = {} /\ Sending(u) = {}
    BY <1>3, IdleOK, Constants DEF Attempting, Sending
  <2>2. Cardinality(Attempting(u)) = 0 /\ Cardinality(Sending(u)) = 0
    BY <2>1, FS_EmptySet
  <2>3. attempts[u] = 0 /\ sms[u] = 0  BY DEF Init
  <2> QED BY <2>2, <2>3, Constants DEF Counted
<1>10. \A u \in Users : Followed(u)
  BY <1>1 DEF Followed, Ready
<1> QED BY <1>4, <1>5, <1>6, <1>7, <1>8, <1>9, <1>10 DEF IInv

LEMMA ArrivalKeeps ==
  ASSUME IInv, NEW p \in Requests, Arrival(p)
  PROVE  IInv'
BY SubmitProfileKeeps, SendCodeKeeps, ChangePhoneKeeps, ValidatePhoneKeeps, JouveResultKeeps DEF Arrival

LEMMA ProceedKeeps ==
  ASSUME IInv, NEW p \in Processes, Proceed(p)
  PROVE  IInv'
BY ChangeFlushKeeps, ChangeCommitKeeps, SendCheckKeeps, SaveCodeKeeps, CountSmsKeeps, CountAttemptKeeps,
   UseTokenKeeps, SaveValidationKeeps, JouveSaveKeeps, CheckStepsKeeps, ActivateKeeps, LockUserKeeps, CreditKeeps
DEF Proceed

LEMMA NextKeeps == IInv /\ [Next]_vars => IInv'
<1> SUFFICES ASSUME IInv, [Next]_vars  PROVE IInv'
  OBVIOUS
<1>1. CASE \E u \in Users : CreateAccount(u) \/ ValidateEmail(u) \/ CompleteIdCheck(u) \/ Expire(u)
  BY <1>1, CreateAccountKeeps, ValidateEmailKeeps, CompleteIdCheckKeeps, ExpireKeeps
<1>2. CASE \E p \in Requests : Arrival(p)  BY <1>2, ArrivalKeeps
<1>3. CASE \E p \in Processes : Proceed(p)  BY <1>3, ProceedKeeps
<1>4. CASE Import
  BY <1>4, StartBatchKeeps, DmsSaveKeeps, DmsImportKeeps, EndBatchKeeps, NextApplicationKeeps DEF Import
<1>5. CASE \E a \in Applications : DecideDuplicate(a)  BY <1>5, DecideDuplicateKeeps
<1>6. CASE \E p, q \in Processes : Deadlock(p, q)  BY <1>6, DeadlockKeeps
<1>7. CASE UNCHANGED vars  BY <1>7, StutterKeeps
<1> QED BY <1>1, <1>2, <1>3, <1>4, <1>5, <1>6, <1>7 DEF Next

\* The invariant that the others follow from: what the processes have read, who
\* holds a row, how many requests are counting, and who is being looked at.
THEOREM Inductive == Spec => []IInv
<1>1. Init => IInv  BY InitInv
<1>2. IInv /\ [Next]_vars => IInv'  BY NextKeeps
<1> QED BY <1>1, <1>2, PTL DEF Spec

\* Every row, token, import and process is what the code may have made of it.
THEOREM TypeCorrect == Spec => []TypeOK
<1>1. IInv => TypeOK  BY DEF IInv
<1> QED BY <1>1, Inductive, PTL

\* A beneficiary has one deposit and nobody else has any, however many requests
\* and imports activate the same account at the same time.
THEOREM NobodyIsCreditedTwice == Spec => []CreditedOnce
<1>1. IInv => CreditedOnce  BY DEF IInv
<1> QED BY <1>1, Inductive, PTL

\* A beneficiary has an accepted application of their own, and a validated phone
\* number where it is asked for.
THEOREM BeneficiariesQualify == Spec => []BeneficiariesDidEveryStep
<1>1. IInv => BeneficiariesDidEveryStep  BY DEF IInv
<1> QED BY <1>1, Inductive, PTL

\* The counters of Redis pass their limits by less than the requests there are.
THEOREM LimitsAlmostHold == Spec => []LimitsHold
<1>1. IInv => LimitsHold
  <2> SUFFICES ASSUME IInv, NEW u \in Users
               PROVE  /\ attempts[u] < MaxAttempts + Cardinality(Requests)
                      /\ sms[u] < MaxSms + Cardinality(Requests)
    BY DEF LimitsHold
  <2>1. Counted(u) /\ attempts[u] \in Nat /\ sms[u] \in Nat  BY DEF IInv, TypeOK
  <2> QED BY <2>1, CountingBounds, Constants DEF Counted
<1> QED BY <1>1, Inductive, PTL

\* An account that has done every step is a beneficiary, unless somebody is
\* still at work on it: no two last steps each miss the other.
THEOREM LastStepActivates == Spec => []NobodyIsForgotten
<1>1. IInv => NobodyIsForgotten
  BY DEF IInv, Followed, Ready, LookedAt, NobodyIsForgotten
<1> QED BY <1>1, Inductive, PTL
=============================================================================
