---------------------------- MODULE Beneficiaries ----------------------------
(***************************************************************************)
(* How an account becomes a beneficiary (src/pcapi/core/users/api.py): a   *)
(* phone number is validated with a code, an application comes back from   *)
(* Jouve or from Demarches Simplifiees (DMS), the profile is filled in,    *)
(* and whichever is last credits the deposit.  HTTP requests, the workers  *)
(* of Jouve's notifications and the hourly import of DMS all do so.        *)
(***************************************************************************)
EXTENDS Integers, FiniteSets

CONSTANTS
  Users,            \* accounts: somebody may have two
  Phones, PhoneOf,  \* [Users -> Phones]: the number given on an application
  Codes,            \* the values of phone validation tokens
  Requests, Batch,  \* requests and workers; the import of DMS
  Applications, UserOf, JouveApplications,
  PieceOf, PersonOf,\* [Applications -> identity pieces, and civil statuses]
  Treated,          \* the applications that have already made a beneficiary
  ForcePhone,       \* FeatureToggle.FORCE_PHONE_VALIDATION
  MaxAttempts,      \* MAX_PHONE_VALIDATION_ATTEMPTS
  MaxSms,           \* MAX_SMS_SENT_FOR_PHONE_VALIDATION
  None

ASSUME BeneficiariesAssumption ==
  /\ PhoneOf \in [Users -> Phones] /\ UserOf \in [Applications -> Users]
  /\ JouveApplications \subseteq Applications /\ Treated \subseteq Applications
  /\ \A a, b \in Treated : UserOf[a] = UserOf[b] => a = b
  /\ None \notin Applications
  /\ ForcePhone \in BOOLEAN
  /\ MaxAttempts \in Nat \ {0} /\ MaxSms \in Nat \ {0}
  /\ IsFiniteSet(Requests) /\ Batch \notin Requests
  /\ None \notin Requests \union {Batch} /\ None \notin Phones \union Users \union Codes

Processes == Requests \union {Batch}

Steps == {"idle", "change:flush", "change:delete", "send:check", "send:save", "send:count",
          "validate:count", "validate:token", "validate:save", "jouve:save", "dms:next", "dms:save",
          "dms:import", "steps:activate", "steps:lock", "activate", "lock", "credit"}

\* completed: hasCompletedIdCheck, set alone by "flagged", with the profile by
\* "submitted"; details: the application the civil status and piece come from.
User == [account: BOOLEAN, email: BOOLEAN, phone: Phones \union {None}, validated: BOOLEAN,
         completed: {"no", "flagged", "submitted"}, details: Applications \union {None}, beneficiary: BOOLEAN]

\* loaded: what a process uses later of the row it has read: the number to
\* validate, whether there is an account, whether it is a beneficiary's.
Job == [step: Steps, user: Users \union {None}, loaded: Phones \union BOOLEAN \union {None},
        app: Applications \union {None}, input: Phones \union Codes \union {None}]

ImportStatus == {"none", "DUPLICATE", "ERROR", "CREATED", "REJECTED", "RETRY"}

VARIABLES
  user, deposits, token, import,
  attempts, sms, \* the counters of Redis
  lock,          \* the process with an uncommitted UPDATE, or FOR UPDATE, of a user
  job,
  batch          \* the applications the import has yet to process, and those to retry

vars == <<user, deposits, token, import, attempts, sms, lock, job, batch>>
redis == <<attempts, sms>>

Idle == [step |-> "idle", user |-> None, loaded |-> None, app |-> None, input |-> None]
NoBatch == [todo |-> {}, retry |-> {}]

\* An empty phone number instead of none.
EmptyPhone == [account |-> FALSE, email |-> FALSE, phone |-> "", validated |-> FALSE,
               completed |-> "no", details |-> None, beneficiary |-> FALSE]
Nobody == [account |-> FALSE, email |-> FALSE, phone |-> None, validated |-> FALSE,
           completed |-> "no", details |-> None, beneficiary |-> FALSE]
Beneficiary(a) == [account |-> TRUE, email |-> TRUE, phone |-> PhoneOf[UserOf[a]], validated |-> TRUE,
                   completed |-> "submitted", details |-> a, beneficiary |-> TRUE]
TreatedOf(u) == {a \in Treated : UserOf[a] = u}

Init ==
  /\ user = [u \in Users |-> IF TreatedOf(u) = {} THEN Nobody
                             ELSE Beneficiary(CHOOSE a \in TreatedOf(u) : TRUE)]
  /\ deposits = [u \in Users |-> Cardinality(TreatedOf(u))]
  /\ token = {}
  /\ import = [a \in Applications |-> IF a \in Treated THEN "CREATED" ELSE "none"]
  /\ attempts = [u \in Users |-> 0] /\ sms = [u \in Users |-> 0]
  /\ lock = [u \in Users |-> None]
  /\ job = [p \in Processes |-> Idle]
  /\ batch = NoBatch

-----------------------------------------------------------------------------
(* Processes and the rows they lock.                                       *)

At(p, step) == job[p].step = step
Begin(p, step, u, input) ==
  At(p, "idle") /\ job' = [job EXCEPT ![p] = [Idle EXCEPT !.step = step, !.user = u, !.input = input]]
Goto(p, step) == job' = [job EXCEPT ![p].step = step]

NoRowLock(u) == TRUE
RowFree(u) == lock[u] = None
Lock(p, u) == lock' = [lock EXCEPT ![u] = p]
Unlocked(p) == [u \in Users |-> IF lock[u] = p THEN None ELSE lock[u]]

\* An application is done with: the import goes to the next one.
Finish(p) == job' = [job EXCEPT ![p] = IF p = Batch THEN [Idle EXCEPT !.step = "dms:next"] ELSE Idle]

\* An exception ends a request, and the whole import.
Fail(p) ==
  /\ job' = [job EXCEPT ![p] = Idle]
  /\ lock' = Unlocked(p)
  /\ batch' = IF p = Batch THEN NoBatch ELSE batch
  /\ UNCHANGED <<user, deposits, token, import, redis>>

-----------------------------------------------------------------------------
(* Accounts                                                                *)

CreateAccount(u) ==
  /\ ~user[u].account
  /\ user' = [user EXCEPT ![u].account = TRUE]
  /\ UNCHANGED <<deposits, token, import, redis, lock, job, batch>>

ValidateEmail(u) ==
  /\ user[u].account /\ ~user[u].email /\ RowFree(u)
  /\ user' = [user EXCEPT ![u].email = TRUE]
  /\ UNCHANGED <<deposits, token, import, redis, lock, job, batch>>

\* has_completed_id_check, and remote_tag_has_completed.
CompleteIdCheck(u) ==
  /\ user[u].account /\ user[u].completed = "no" /\ RowFree(u)
  /\ user' = [user EXCEPT ![u].completed = "flagged"]
  /\ UNCHANGED <<deposits, token, import, redis, lock, job, batch>>

\* update_beneficiary_mandatory_information
SubmitProfile(p, u) ==
  /\ user[u].account /\ RowFree(u)
  /\ Begin(p, "steps:lock", u, None)
  /\ user' = [user EXCEPT ![u].completed = "submitted"]
  /\ UNCHANGED <<deposits, token, import, redis, lock, batch>>

-----------------------------------------------------------------------------
(* Phone numbers                                                           *)

\* _check_phone_number_validation_is_authorized
Authorized(row) == ~row.validated /\ row.email /\ ~row.beneficiary

\* does_validated_phone_exist
ValidatedPhones == {user[u].phone : u \in {v \in Users : user[v].validated}}

ChangePhone(p, u, number) ==
  /\ user[u].account /\ Authorized(user[u])
  /\ number \notin ValidatedPhones
  /\ Begin(p, "change:flush", u, number)
  /\ UNCHANGED <<user, deposits, token, import, redis, lock, batch>>

\* The query that deletes the tokens flushes UPDATE user first.
ChangeFlush(p) ==
  /\ At(p, "change:flush")
  /\ RowFree(job[p].user) /\ Lock(p, job[p].user)
  /\ Goto(p, "change:delete")
  /\ UNCHANGED <<user, deposits, token, import, redis, batch>>

\* The processes that have deleted a token of u and not committed.
TokenHolders(u) == {p \in Processes : At(p, "validate:save") /\ job[p].user = u}

ChangeCommit(p) == LET u == job[p].user IN
  /\ At(p, "change:delete")
  /\ TokenHolders(u) = {}
  /\ user' = [user EXCEPT ![u].phone = job[p].input]
  /\ token' = {t \in token : t[1] # u}
  /\ lock' = Unlocked(p)
  /\ job' = [job EXCEPT ![p].step = "send:check", ![p].input = None]
  /\ UNCHANGED <<deposits, import, redis, batch>>

SendCode(p, u) ==
  /\ user[u].account
  /\ Begin(p, "send:check", u, None)
  /\ UNCHANGED <<user, deposits, token, import, redis, lock, batch>>

NoLimit(count, limit) == TRUE
BelowLimit(count, limit) == count < limit

SendCheck(p) == LET u == job[p].user IN
  /\ At(p, "send:check")
  /\ IF Authorized(user[u]) /\ user[u].phone # None /\ BelowLimit(sms[u], MaxSms)
     THEN Goto(p, "send:save") ELSE Finish(p)
  /\ UNCHANGED <<user, deposits, token, import, redis, lock, batch>>

\* The value of a token is unique.
SaveCode(p) == \E c \in Codes :
  /\ At(p, "send:save")
  /\ IF \E t \in token : t[2] = c THEN Finish(p) /\ UNCHANGED token
     ELSE Goto(p, "send:count") /\ token' = token \union {<<job[p].user, c>>}
  /\ UNCHANGED <<user, deposits, import, redis, lock, batch>>

\* The SMS is sent and counted, or it fails.
CountSms(p) ==
  /\ At(p, "send:count")
  /\ sms' = [sms EXCEPT ![job[p].user] = @ + 1] \/ UNCHANGED sms
  /\ Finish(p)
  /\ UNCHANGED <<user, deposits, token, import, attempts, lock, batch>>

\* _check_and_update_phone_validation_attempts reads, then increments.
ValidatePhone(p, u, c) ==
  /\ user[u].account /\ Authorized(user[u])
  /\ BelowLimit(attempts[u], MaxAttempts)
  /\ At(p, "idle")
  /\ job' = [job EXCEPT ![p] =
       [Idle EXCEPT !.step = "validate:count", !.user = u, !.loaded = user[u].phone, !.input = c]]
  /\ UNCHANGED <<user, deposits, token, import, redis, lock, batch>>

CountAttempt(p) ==
  /\ At(p, "validate:count")
  /\ attempts' = [attempts EXCEPT ![job[p].user] = @ + 1]
  /\ Goto(p, "validate:token")
  /\ UNCHANGED <<user, deposits, token, import, sms, lock, batch>>

\* The query on phone numbers flushes DELETE token first, which waits for
\* another DELETE of the same row.
UseToken(p) == LET u == job[p].user IN
  /\ At(p, "validate:token")
  /\ \A q \in TokenHolders(u) : job[q].input # job[p].input
  /\ IF /\ <<u, job[p].input>> \in token
        /\ job[p].loaded \notin ValidatedPhones \union {None}
     THEN Goto(p, "validate:save") ELSE Finish(p)
  /\ UNCHANGED <<user, deposits, token, import, redis, lock, batch>>

OnlyValidate(p) == LET u == job[p].user IN
  /\ At(p, "validate:save") /\ RowFree(u)
  /\ user' = [user EXCEPT ![u].validated = TRUE]
  /\ token' = token \ {<<u, job[p].input>>}
  /\ Finish(p)
  /\ UNCHANGED <<deposits, import, redis, lock, batch>>

SaveValidation(p) == LET u == job[p].user IN
  /\ At(p, "validate:save")
  /\ RowFree(u)
  /\ user' = [user EXCEPT ![u].validated = TRUE]
  /\ token' = token \ {<<u, job[p].input>>}
  /\ job' = [job EXCEPT ![p] = [Idle EXCEPT !.step = "steps:activate", !.user = u]]
  /\ UNCHANGED <<deposits, import, redis, lock, batch>>

\* The keys of Redis, and the tokens, have a time to live.
Expire(u) ==
  /\ \/ attempts[u] > 0 /\ attempts' = [attempts EXCEPT ![u] = 0] /\ UNCHANGED <<sms, token>>
     \/ sms[u] > 0 /\ sms' = [sms EXCEPT ![u] = 0] /\ UNCHANGED <<attempts, token>>
     \/ /\ \E t \in token : t[1] = u /\ TokenHolders(u) = {} /\ token' = token \ {t}
        /\ UNCHANGED redis
  /\ UNCHANGED <<user, deposits, import, lock, job, batch>>

-----------------------------------------------------------------------------
(* Applications                                                            *)

SamePiece(u, a) == user[u].details # None /\ PieceOf[user[u].details] = PieceOf[a]
PieceTaken(a) == \E u \in Users : SamePiece(u, a)
PieceOfAnother(a) == \E u \in Users \ {UserOf[a]} : SamePiece(u, a)
\* find_beneficiary_by_civility
Duplicate(a) == \E u \in Users : user[u].beneficiary /\ PersonOf[user[u].details] = PersonOf[a]

\* The job has found no account, and there is one by the time it saves its own.
EmailTaken(p) == ~job[p].loaded /\ user[job[p].user].account

Process(p, step, a) == job' = [job EXCEPT ![p] =
  [Idle EXCEPT !.step = step, !.user = UserOf[a], !.loaded = user[UserOf[a]].account, !.app = a]]

Registered(a, completed) == LET u == UserOf[a] IN
  [user EXCEPT ![u].account = TRUE, ![u].details = a, ![u].completed = completed,
               ![u].phone = IF @ = None THEN PhoneOf[u] ELSE @]

\* Each outcome of a Jouve application is a row of its own: the unique key of
\* the imports has a NULL sourceId.  The model keeps CREATED once there is one.
Rejected(a) == [import EXCEPT ![a] = IF @ = "CREATED" THEN @ ELSE "REJECTED"]

\* validate, and what validate_fraud decides: reject, or go on.  An application
\* may come back, whatever became of it.  (Suspected of fraud, it changes nothing.)
JouveResult(p, a) == LET u == UserOf[a] IN
  /\ a \in JouveApplications
  /\ \/ /\ user[u].account => ~user[u].beneficiary /\ user[u].email
        /\ ~Duplicate(a) /\ ~PieceTaken(a)
        /\ At(p, "idle") /\ Process(p, "jouve:save", a)
        /\ UNCHANGED import
     \/ import' = Rejected(a) /\ UNCHANGED job
  /\ UNCHANGED <<user, deposits, token, redis, lock, batch>>

\* attach_beneficiary_import_details commits the user, who has unique keys, with
\* the import; an application without a postal code leaves the profile.
JouveSave(p) == LET u == job[p].user
                    a == job[p].app IN
  /\ At(p, "jouve:save")
  /\ RowFree(u)
  /\ IF PieceOfAnother(a) \/ EmailTaken(p)
     THEN Fail(p)
     ELSE /\ import' = [import EXCEPT ![a] = "CREATED"]
          /\ \/ user' = Registered(a, "submitted")
             \/ job[p].loaded /\ user' = Registered(a, user[u].completed)
          /\ job' = [job EXCEPT ![p] = [Idle EXCEPT !.step = "steps:lock", !.user = u]]
          /\ UNCHANGED <<deposits, token, redis, lock, batch>>

\* The closed applications that have no import yet, and those to retry.
StartBatch ==
  /\ At(Batch, "idle")
  /\ LET retry == {a \in Applications : import[a] = "RETRY"}
         new == {a \in Applications \ JouveApplications : import[a] = "none"} IN
     /\ retry \union new # {}
     /\ batch' = [todo |-> retry \union new, retry |-> retry]
  /\ Goto(Batch, "dms:next")
  /\ UNCHANGED <<user, deposits, token, import, redis, lock>>

Record(a, status) == import' = [import EXCEPT ![a] = status]

NextApplication(a) == LET u == UserOf[a] IN
  /\ At(Batch, "dms:next") /\ a \in batch.todo
  /\ batch' = [batch EXCEPT !.todo = @ \ {a}]
  /\ \/ Record(a, "ERROR") /\ UNCHANGED job
     \/ user[u].account /\ user[u].beneficiary /\ Record(a, "REJECTED") /\ UNCHANGED job
     \/ /\ ~user[u].beneficiary
        /\ \/ PieceTaken(a) /\ Record(a, "REJECTED") /\ UNCHANGED job
           \/ /\ ~PieceTaken(a) /\ Duplicate(a) /\ a \notin batch.retry
              /\ Record(a, "DUPLICATE") /\ UNCHANGED job
           \/ /\ ~PieceTaken(a) /\ (~Duplicate(a) \/ a \in batch.retry)
              /\ Process(Batch, "dms:save", a)
              /\ UNCHANGED import
  /\ UNCHANGED <<user, deposits, token, redis, lock>>

\* _process_creation saves the account, then the import.
DmsSave == LET u == job[Batch].user IN
  /\ At(Batch, "dms:save")
  /\ RowFree(u)
  /\ IF PieceOfAnother(job[Batch].app) \/ EmailTaken(Batch)
     THEN Finish(Batch) /\ UNCHANGED user
     ELSE Goto(Batch, "dms:import") /\ user' = Registered(job[Batch].app, user[u].completed)
  /\ UNCHANGED <<deposits, token, import, redis, lock, batch>>

DmsImport ==
  /\ At(Batch, "dms:import")
  /\ Record(job[Batch].app, "CREATED")
  /\ job' = [job EXCEPT ![Batch] = [Idle EXCEPT !.step = "steps:activate", !.user = job[Batch].user]]
  /\ UNCHANGED <<user, deposits, token, redis, lock, batch>>

EndBatch ==
  /\ At(Batch, "dms:next") /\ batch.todo = {}
  /\ job' = [job EXCEPT ![Batch] = Idle] /\ batch' = NoBatch
  /\ UNCHANGED <<user, deposits, token, import, redis, lock>>

\* The back office: is_import_status_change_allowed.
DecideDuplicate(a) ==
  /\ import[a] = "DUPLICATE"
  /\ Record(a, "REJECTED") \/ Record(a, "RETRY")
  /\ UNCHANGED <<user, deposits, token, redis, lock, job, batch>>

-----------------------------------------------------------------------------
(* Activation                                                              *)

Imported(u) == \E a \in Applications : UserOf[a] = u /\ import[a] = "CREATED"

PhoneOnly(u) == ForcePhone => user[u].validated
\* steps_to_become_beneficiary returns nothing
StepsDone(u) == (ForcePhone => user[u].validated) /\ Imported(u)

\* Every commit expires the session: the row is loaded again.
CheckSteps(p) == LET u == job[p].user IN
  /\ job[p].step \in {"steps:activate", "steps:lock"}
  /\ IF StepsDone(u)
     THEN job' = [job EXCEPT ![p].step = IF At(p, "steps:lock") THEN "lock" ELSE "activate",
                             ![p].loaded = user[u].beneficiary]
     ELSE Finish(p)
  /\ UNCHANGED <<user, deposits, token, import, redis, lock, batch>>

\* The query of create_deposit flushes isBeneficiary = TRUE, which locks the row
\* unless it was already so; then it counts the deposits.
Activate(p) == LET u == job[p].user IN
  /\ At(p, "activate")
  /\ job[p].loaded \/ lock[u] \in {None, p}
  /\ IF deposits[u] > 0 THEN Fail(p)
     ELSE Lock(p, u) /\ Goto(p, "credit") /\ UNCHANGED <<user, deposits, token, import, redis, batch>>

\* check_and_activate_beneficiary
LockUser(p) == LET u == job[p].user IN
  /\ At(p, "lock")
  /\ RowFree(u)
  /\ IF user[u].beneficiary \/ user[u].completed = "no"
     THEN Finish(p) /\ UNCHANGED <<user, deposits, token, import, redis, lock, batch>>
     ELSE Lock(p, u) /\ Goto(p, "activate") /\ UNCHANGED <<user, deposits, token, import, redis, batch>>

Credit(p) == LET u == job[p].user IN
  /\ At(p, "credit")
  /\ user' = [user EXCEPT ![u].beneficiary = TRUE]
  /\ deposits' = [deposits EXCEPT ![u] = @ + 1]
  /\ lock' = Unlocked(p)
  /\ Finish(p)
  /\ UNCHANGED <<token, import, redis, batch>>

\* One holds the row of the user and waits for its tokens, the other conversely.
Deadlock(p, q) ==
  /\ At(p, "change:delete") /\ q \in TokenHolders(job[p].user)
  /\ Fail(p) \/ Fail(q)

-----------------------------------------------------------------------------
Arrival(p) ==
  \/ \E u \in Users :
       \/ SubmitProfile(p, u) \/ SendCode(p, u)
       \/ \E number \in Phones : ChangePhone(p, u, number)
       \/ \E c \in Codes : ValidatePhone(p, u, c)
  \/ \E a \in Applications : JouveResult(p, a)

Proceed(p) ==
  \/ ChangeFlush(p) \/ ChangeCommit(p) \/ SendCheck(p) \/ SaveCode(p) \/ CountSms(p)
  \/ CountAttempt(p) \/ UseToken(p) \/ SaveValidation(p) \/ JouveSave(p)
  \/ CheckSteps(p) \/ Activate(p) \/ LockUser(p) \/ Credit(p)

Import == StartBatch \/ DmsSave \/ DmsImport \/ EndBatch
          \/ \E a \in Applications : NextApplication(a)

Next ==
  \/ \E u \in Users : CreateAccount(u) \/ ValidateEmail(u) \/ CompleteIdCheck(u) \/ Expire(u)
  \/ \E p \in Requests : Arrival(p)
  \/ \E p \in Processes : Proceed(p)
  \/ Import
  \/ \E a \in Applications : DecideDuplicate(a)
  \/ \E p, q \in Processes : Deadlock(p, q)

Spec == Init /\ [][Next]_vars

-----------------------------------------------------------------------------
TypeOK ==
  /\ user \in [Users -> User]
  /\ deposits \in [Users -> Nat]
  /\ token \subseteq Users \X Codes
  /\ import \in [Applications -> ImportStatus]
  /\ attempts \in [Users -> Nat] /\ sms \in [Users -> Nat]
  /\ lock \in [Users -> Processes \union {None}]
  /\ job \in [Processes -> Job]
  /\ batch.retry \subseteq Applications /\ batch.todo \subseteq Applications

\* A beneficiary has one deposit and nobody else has any, though the phone
\* validation and the import of DMS activate without FOR UPDATE.
CreditedOnce == \A u \in Users : deposits[u] = IF user[u].beneficiary THEN 1 ELSE 0

\* Nobody is credited without an accepted application of their own, and a
\* validated phone number where it is asked for.
BeneficiariesDidEveryStep == \A u \in Users : user[u].beneficiary =>
  Imported(u) /\ (ForcePhone => user[u].validated)

\* The counters of Redis are read before they are incremented: they exceed
\* their limit by no more than the requests served at one time.
LimitsHold == \A u \in Users :
  /\ attempts[u] < MaxAttempts + Cardinality(Requests)
  /\ sms[u] < MaxSms + Cardinality(Requests)

\* Whoever takes the last step sees the others: an account that has done them
\* all is a beneficiary, unless somebody is still at work on it.  (One whose id
\* check is flagged as complete after the last step is not looked at again.)
NobodyIsForgotten == \A u \in Users :
  /\ Imported(u) /\ (ForcePhone => user[u].validated) /\ user[u].completed = "submitted"
  /\ \A p \in Processes : job[p].user # u
  => user[u].beneficiary
=============================================================================
