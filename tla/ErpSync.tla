------------------------------ MODULE ErpSync ------------------------------
(***************************************************************************)
(* The synchronisation of invoices, payments and customers from the ERP    *)
(* systems of the tenants: ERPSyncService of modules/sales/infrastructure/ *)
(* erp_sync_service.py, run by the Celery task sync_erp_data_sources for   *)
(* every source that is due, and by the requests trigger_sync and          *)
(* quick_sync of modules/sales/api/erp_routes.py.                          *)
(*                                                                         *)
(* A job is one run of one of them: one session, one transaction, one      *)
(* commit at the end.  It reads a batch from the ERP (external), looks up  *)
(* each row by external_id among the committed rows, and keeps its writes  *)
(* to itself until it commits.  external_id has no unique constraint;      *)
(* (tenant, phone_number) of contacts has one.  Jobs that update the same  *)
(* row may commit in either order, as they would with its row lock.        *)
(*                                                                         *)
(* last_sync_at of a source is its window: the next incremental run asks   *)
(* the ERP for what has changed since.                                     *)
(*                                                                         *)
(* The line items of an invoice are left out: a row holds a version of the *)
(* values that the ERP has in the invoice itself.                          *)
(***************************************************************************)
EXTENDS Integers, Sequences, FiniteSets, WaitCircles

CONSTANTS Source,     \* the configured data sources
          Invoice, Payment, Customer, Phone,
          SourceOf,   \* the source of each row and each customer
          InvoiceOf,  \* the invoice of each payment
          PhoneOf,    \* the phone number on each invoice and customer
          Job,        \* runs that may be in progress at a time
          BatchSize,  \* rows a connector returns at most (500 in the code)
          Interval,   \* sync_interval_minutes of every source, in ticks
          MaxTime,    \* bound: ticks
          MaxEvents   \* bound: runs begun and faults, together

Row == Invoice \cup Payment

ASSUME RowAssumption == /\ IsFiniteSet(Job) /\ IsFiniteSet(Row) /\ IsFiniteSet(Phone)
                        /\ IsFiniteSet(Source) /\ Source # {}
                        /\ Invoice \cap Payment = {}
                        /\ SourceOf \in [Row \cup Customer -> Source]
                        /\ InvoiceOf \in [Payment -> Invoice]
                        /\ PhoneOf \in [Invoice \cup Customer -> Phone]
ASSUME BoundAssumption == /\ BatchSize \in Nat \ {0} /\ Interval \in Nat
                          /\ MaxTime \in Nat \ {0} /\ MaxEvents \in Nat

VARIABLES now,       \* the clock
          at,        \* the ERP: when each row last changed there, 0 before it exists
          unfit,     \* the rows whose values in the ERP cannot be stored
          db,        \* the committed rows of each external_id: the version each holds
          contacts,  \* the phone numbers of committed contacts
          window,    \* last_sync_at of each source, 0 for none
          job,       \* the jobs in progress, with what they have not committed
          missed,    \* history: rows a committed job has left behind or taken back
          events     \* bound: the runs begun and the faults so far

vars == <<now, at, unfit, db, contacts, window, job, missed, events>>
-----------------------------------------------------------------------------
Time == 0..MaxTime
Kinds == {"scheduled", "manual", "quick"}
Stages == {"idle", "next", "payments", "customers"}

Jobs == [kind : Kinds, stage : Stages, started : Time, todo : SUBSET Source, cur : Source,
         since : [Source -> Time], plan : [Row -> Time], fresh : SUBSET Row, contacts : SUBSET Phone,
         inserts : SUBSET Phone, dead : BOOLEAN, skips : SUBSET Row, moved : SUBSET Source]

Nothing == [r \in Row |-> 0]
Idle == [kind |-> "quick", stage |-> "idle", started |-> 0, todo |-> {},
         cur |-> CHOOSE s \in Source : TRUE, since |-> [s \in Source |-> 0],
         plan |-> Nothing, fresh |-> {}, contacts |-> {},
         inserts |-> {}, dead |-> FALSE, skips |-> {}, moved |-> {}]

TypeOK == /\ now \in Time
          /\ at \in [Row -> Time]
          /\ unfit \subseteq Row
          /\ db \in [Row -> Seq(Time)]
          /\ contacts \subseteq Phone
          /\ window \in [Source -> Time]
          /\ job \in [Job -> Jobs]
          /\ missed \subseteq Row
          /\ events \in Nat

Init == /\ now = 1
        /\ at = Nothing
        /\ unfit = {}
        /\ db = [r \in Row |-> <<>>]
        /\ contacts \in SUBSET Phone
        /\ window = [s \in Source |-> 0]
        /\ job = [j \in Job |-> Idle]
        /\ missed = {}
        /\ events = 0

\* Faulty: the failed transaction is put in a state of its own.
DoomedFailed(j) == [job[j] EXCEPT !.stage = "failed", !.dead = TRUE]

\* An error in a flush ends the transaction; the session refuses all that follows.
Doomed(j) == [Idle EXCEPT !.kind = job[j].kind, !.stage = "next", !.dead = TRUE]

Fault == /\ events < MaxEvents
         /\ events' = events + 1
-----------------------------------------------------------------------------
(* The ERP, and the clock. *)

Tick == /\ now < MaxTime
        /\ now' = now + 1
        /\ UNCHANGED <<at, unfit, db, contacts, window, job, missed, events>>

\* What a job that moves the window to the time of its end (or does not move
\* it), and has read the rows of this kind, will overlook of a change.
Overlooks(j, r) == /\ job[j].kind # "scheduled"
                   /\ job[j].cur = SourceOf[r]
                   /\ job[j].stage \in {"next", "customers"} \cup (IF r \in Invoice THEN {"payments"} ELSE {})
                   /\ SourceOf[r] \notin job[j].todo

\* An invoice appears or changes; a payment appears once, for an invoice.  An
\* invoice may have no phone number, and either may have an amount that is none.
ErpWrite(r) == /\ at[r] < now
               /\ r \in Payment => at[r] = 0 /\ at[InvoiceOf[r]] > 0
               /\ at' = [at EXCEPT ![r] = now]
               /\ unfit' \in {unfit \ {r}, unfit \cup {r}}
               /\ job' = [j \in Job |-> IF Overlooks(j, r)
                            THEN [job[j] EXCEPT !.skips = @ \cup {r}] ELSE job[j]]
               /\ missed' = missed \ {r}
               /\ UNCHANGED <<now, db, contacts, window, events>>
-----------------------------------------------------------------------------
(* The start of a job. *)

Begins(j) == /\ job[j].stage = "idle"
             /\ events < MaxEvents
             /\ events' = events + 1

Due(s) == window[s] = 0 \/ now - window[s] >= Interval

\* The task takes the sources that are due; one that is disabled is not among
\* them.  All of them are read before the first is synchronised.
StartScheduled(j) ==
    /\ Begins(j)
    /\ \E due \in (SUBSET {s \in Source : Due(s)}) \ {{}} :
         job' = [job EXCEPT ![j] = [Idle EXCEPT !.kind = "scheduled", !.stage = "next",
                                                !.started = now, !.todo = due, !.since = window]]
    /\ UNCHANGED <<now, at, unfit, db, contacts, window, missed>>

\* A request asks for everything, for what is new, or for what has changed
\* since a time of its own: then the rows between the two are passed over.
StartManual(j, s) ==
    /\ Begins(j)
    /\ \E t \in {0, window[s], now} :
         job' = [job EXCEPT ![j] = [Idle EXCEPT
                   !.kind = "manual", !.stage = "next", !.todo = {s},
                   !.since = [window EXCEPT ![s] = t],
                   !.skips = {r \in Row : SourceOf[r] = s /\ window[s] <= at[r] /\ 0 < at[r] /\ at[r] < t}]]
    /\ UNCHANGED <<now, at, unfit, db, contacts, window, missed>>

\* A quick sync has no source row: it reads everything and moves no window.
StartQuick(j, s) ==
    /\ Begins(j)
    /\ job' = [job EXCEPT ![j] = [Idle EXCEPT !.stage = "next", !.todo = {s}]]
    /\ UNCHANGED <<now, at, unfit, db, contacts, window, missed>>
-----------------------------------------------------------------------------
(* full_sync of one source. *)

RowsOf(s, since, kind) == {r \in kind : SourceOf[r] = s /\ at[r] > 0 /\ at[r] >= since}

Moves(j, s) == IF job[j].kind = "quick" THEN {} ELSE {s}

\* No connection: the result is a failure, and the window moves all the same.
ConnectFails(j, s) ==
    /\ Fault
    /\ job[j].stage = "next" /\ job[j].inserts = {} /\ s \in job[j].todo
    /\ job' = [job EXCEPT ![j].cur = s, ![j].todo = @ \ {s},
                           ![j].skips = @ \cup RowsOf(s, job[j].since[s], Row),
                           ![j].moved = @ \cup Moves(j, s)]
    /\ UNCHANGED <<now, at, unfit, db, contacts, window, missed>>

\* A connector returns the first BatchSize of the rows, in no stated order, or
\* raises: then failed = -1, and the next kind is read.
Fetched(found) == {got \in SUBSET found : /\ Cardinality(got) <= BatchSize
                                          /\ got = found \/ Cardinality(got) = BatchSize}
Fetch(found, got) == \/ got \in Fetched(found) /\ UNCHANGED events
                     \/ got = {} /\ found # {} /\ Fault

\* Faulty: the lookup takes the first of the rows.
AmbiguousFirst(r) == FALSE

\* scalar_one_or_none raises for a row stored twice: it is counted and left.
Ambiguous(r) == Len(db[r]) > 1

\* A row without a phone number is skipped, and one whose values raise is
\* counted as failed: the version of its copy, if it has one, stays.
Storable(got) == {r \in got \ unfit : ~Ambiguous(r)}

\* Faulty: the rows are inserted without a lookup.
FreshAlways(j, rows) == job[j].fresh \cup rows

\* Rows written by this job: inserted when none was committed, else updated.
Plan(j, rows) == [r \in Row |-> IF r \in rows THEN at[r] ELSE job[j].plan[r]]
Fresh(j, rows) == job[j].fresh \cup {r \in rows : db[r] = <<>>}

HeldByOthers(j) == UNION {job[k].contacts : k \in Job \ {j}}
NewPhones(j, things) == {PhoneOf[x] : x \in things} \ (contacts \cup job[j].contacts)

\* The contact of a new phone number is inserted with its first invoice; one
\* that raises may have come so far.
SyncInvoices(j, s) ==
    /\ job[j].stage = "next" /\ job[j].inserts = {} /\ s \in job[j].todo
    /\ LET found == RowsOf(s, job[j].since[s], Invoice) IN
       \E got \in SUBSET found :
         LET rows == Storable(got) IN
         \E failed \in SUBSET {i \in got \cap unfit : ~Ambiguous(i)} :
         /\ Fetch(found, got)
         /\ job' = [job EXCEPT ![j].stage = "payments", ![j].cur = s, ![j].todo = @ \ {s},
                                ![j].moved = @ \cup Moves(j, s),
                                ![j].plan = Plan(j, rows), ![j].fresh = Fresh(j, rows),
                                ![j].inserts = NewPhones(j, rows \cup failed),
                                ![j].skips = @ \cup (found \ rows)]
    /\ UNCHANGED <<now, at, unfit, db, contacts, window, missed>>

\* Faulty: a payment is stored without its invoice.
VisibleAnyway(j, i) == 1

\* The rows of an invoice that this transaction can see.
Visible(j, i) == Len(db[i]) + (IF i \in job[j].fresh THEN 1 ELSE 0)

\* A payment whose invoice is not there is skipped; an ambiguous one fails.
SyncPayments(j) ==
    /\ job[j].stage = "payments" /\ job[j].inserts = {}
    /\ LET found == RowsOf(job[j].cur, job[j].since[job[j].cur], Payment) IN
       \E got \in SUBSET found :
         LET rows == {p \in Storable(got) : Visible(j, InvoiceOf[p]) = 1} IN
         /\ Fetch(found, got)
         /\ job' = [job EXCEPT ![j].stage = "customers",
                                ![j].plan = Plan(j, rows), ![j].fresh = Fresh(j, rows),
                                ![j].skips = @ \cup (found \ rows)]
    /\ UNCHANGED <<now, at, unfit, db, contacts, window, missed>>

\* The customers have been in the ERP from the start; those without a phone
\* number are skipped, and not among Customer.  The lookup does not see what
\* the session has not flushed.
SyncCustomers(j) ==
    /\ job[j].stage = "customers"
    /\ LET found == {c \in Customer : SourceOf[c] = job[j].cur /\ job[j].since[job[j].cur] <= 1} IN
       \E got \in {found, {}} :
         /\ IF got = found THEN UNCHANGED events ELSE Fault
         /\ job' = [job EXCEPT ![j].stage = "next", ![j].inserts = NewPhones(j, got)]
    /\ UNCHANGED <<now, at, unfit, db, contacts, window, missed>>

\* The contacts are inserted one by one.  A phone number that another
\* transaction has inserted waits for its end; one it has committed, or one
\* that two new customers share, violates the unique index.
Twins(j, f) == job[j].stage = "next" /\ \E c, d \in Customer :
                 c # d /\ SourceOf[c] = job[j].cur /\ SourceOf[d] = job[j].cur /\ PhoneOf[c] = f /\ PhoneOf[d] = f
CanInsert(j, f) == f \in job[j].inserts \ HeldByOthers(j)
InsertContact(j, f) ==
    /\ CanInsert(j, f)
    /\ IF f \in contacts \/ Twins(j, f)
       THEN job' = [job EXCEPT ![j] = Doomed(j)]
       ELSE job' = [job EXCEPT ![j].inserts = @ \ {f}, ![j].contacts = @ \cup {f}]
    /\ UNCHANGED <<now, at, unfit, db, contacts, window, missed, events>>

\* j's next insert may have to wait for k.
MayWaitFor(j, k) == j # k /\ job[j].inserts \cap job[k].contacts # {}

\* Of the transactions that wait for each other in a circle the database ends one.
Deadlocked(j) == OnCircle(j, Job, {e \in Job \X Job : MayWaitFor(e[1], e[2])})

DeadlockVictim(j) ==
    /\ Deadlocked(j)
    /\ job' = [job EXCEPT ![j] = Doomed(j)]
    /\ UNCHANGED <<now, at, unfit, db, contacts, window, missed, events>>
-----------------------------------------------------------------------------
(* The end of a job. *)

Stored(j, r) == IF job[j].plan[r] = 0 THEN db[r]
                ELSE IF r \in job[j].fresh THEN Append(db[r], job[j].plan[r])
                ELSE [db[r] EXCEPT ![1] = job[j].plan[r]]

\* Faulty: the task, too, sets the window to the time it ends.
NewWindowAtEnd(j, s) == IF s \in job[j].moved THEN now ELSE window[s]

\* The task sets the window to the time it began, a request to the time it ends.
NewWindow(j, s) == IF s \notin job[j].moved THEN window[s]
                   ELSE IF job[j].kind = "scheduled" THEN job[j].started ELSE now

Holds(copies, r) == \E n \in DOMAIN copies : copies[n] = at[r]

\* Rows that were up to date, and that the job has read before they changed.
TakenBack(j) == {r \in Row : Holds(db[r], r) /\ ~Holds(Stored(j, r), r)}

CanCommit(j) == job[j].stage = "next" /\ job[j].todo = {} /\ job[j].inserts = {}

Commit(j) ==
    /\ CanCommit(j) /\ ~job[j].dead
    /\ db' = [r \in Row |-> Stored(j, r)]
    /\ contacts' = contacts \cup job[j].contacts
    /\ window' = [s \in Source |-> NewWindow(j, s)]
    /\ missed' = (missed \cup job[j].skips \cup TakenBack(j))
                  \ {r \in Row : at[r] > 0 /\ job[j].plan[r] = at[r]}
    /\ job' = [job EXCEPT ![j] = Idle]
    /\ UNCHANGED <<now, at, unfit, events>>

\* The transaction was ended by an error in a flush: the commit raises, for
\* every source of the task, those that went well included.
CommitFails(j) ==
    /\ job[j].stage = "next" /\ job[j].dead
    /\ job' = [job EXCEPT ![j] = Idle]
    /\ UNCHANGED <<now, at, unfit, db, contacts, window, missed, events>>

\* The database refuses a row, as one with a value too long for its column.
FlushFails(j) ==
    /\ Fault
    /\ job[j].stage # "idle" /\ ~CanCommit(j)
    /\ job' = [job EXCEPT ![j] = Doomed(j)]
    /\ UNCHANGED <<now, at, unfit, db, contacts, window, missed>>

\* The worker or the request is lost: the transaction is rolled back.  The
\* task is delivered again, as the next beat would start it.
Crash(j) ==
    /\ Fault
    /\ job[j].stage # "idle"
    /\ job' = [job EXCEPT ![j] = Idle]
    /\ UNCHANGED <<now, at, unfit, db, contacts, window, missed>>
-----------------------------------------------------------------------------
Step(j) == \/ \E s \in Source : SyncInvoices(j, s)
           \/ SyncPayments(j)
           \/ SyncCustomers(j)
           \/ \E f \in Phone : InsertContact(j, f)
           \/ DeadlockVictim(j)
           \/ Commit(j)
           \/ CommitFails(j)

Next == \/ Tick
        \/ \E r \in Row : ErpWrite(r)
        \/ \E j \in Job :
             \/ StartScheduled(j)
             \/ \E s \in Source : StartManual(j, s) \/ StartQuick(j, s) \/ ConnectFails(j, s)
             \/ FlushFails(j) \/ Crash(j)
             \/ Step(j)

Spec == Init /\ [][Next]_vars
-----------------------------------------------------------------------------
(* Properties. *)

Current(r) == Holds(db[r], r)
BehindWindow(r) == 0 < at[r] /\ at[r] < window[SourceOf[r]]

\* A row that the next incremental run will not ask for is stored as it is in
\* the ERP, unless a run that committed had left it behind: its source could
\* not be reached, its fetch failed, the batch was full, the run was asked to
\* begin after it, it had no phone number or values that raise, its invoice
\* was not there, it or its invoice was stored twice, it changed during a run
\* that does not keep its starting time, or a run that had read it before it
\* changed took the change back.  Runs that crash, wait, fail in a flush or
\* move the window over each other's rows lose nothing more.
BehindWindowIsStored ==
    \A r \in Row : BehindWindow(r) => Current(r) \/ r \in missed

\* A payment is stored only with its invoice, whichever of the transactions
\* that saw the invoice commits.
PaymentHasInvoice ==
    \A p \in Payment : db[p] # <<>> => db[InvoiceOf[p]] # <<>>

\* An invoice or payment is stored at most once for each run that can overlap:
\* runs after one another never add a copy, although nothing but the lookup
\* before the insert prevents it.
CopiesBounded == \A r \in Row : Len(db[r]) <= Cardinality(Job)

\* Once a row is stored twice, and the runs that had looked it up before are
\* over, it stays as it is for ever: the lookup raises for it in every later
\* run, and neither the copies nor what they say is mended.
Frozen(r) == Len(db[r]) > 1 /\ \A j \in Job : job[j].plan[r] = 0
DuplicateIsFrozen == [][\A r \in Row : Frozen(r) => Frozen(r)' /\ db'[r] = db[r]]_vars

\* a is closer to the end of its run than b: fewer sources, kinds or contacts
\* are left.
KindsLeft(stage) == CASE stage = "payments" -> 3 [] stage = "customers" -> 2
                      [] stage = "next" -> 1 [] OTHER -> 0
Closer(a, b) == /\ a.todo \subseteq b.todo
                /\ a.todo = b.todo => KindsLeft(a.stage) <= KindsLeft(b.stage)
                /\ a.todo = b.todo /\ a.stage = b.stage => a.inserts \subseteq b.inserts
                /\ <<a.todo, a.stage, a.inserts>> # <<b.todo, b.stage, b.inserts>>

\* Every step of a run brings it closer to its end, and neither the ERP, nor a
\* fault, nor another run, whose wait or end it may be, takes it back.
RunsAdvance ==
    [][\A j \in Job : job[j].stage # "idle" =>
         /\ Step(j) => Closer(job'[j], job[j])
         /\ \/ UNCHANGED <<job[j].todo, job[j].stage, job[j].inserts>>
            \/ Closer(job'[j], job[j])]_vars
-----------------------------------------------------------------------------
(***************************************************************************)
(* The inductive invariant of the proofs.  The clock is ahead of all that  *)
(* is written down; a job inserts what it has not found and updates what   *)
(* it has; each copy of a row came from a job that overlapped the others;  *)
(* and a job that will move a window has accounted for the rows it has     *)
(* passed, and need not account for those before its own window.           *)
(***************************************************************************)
ClocksFit == /\ \A r \in Row : at[r] <= now
             /\ \A s \in Source : window[s] <= now
             /\ \A j \in Job : \A s \in Source : job[j].since[s] <= now
             /\ \A j \in Job : job[j].started <= now

JobFits(j) == /\ job[j].stage = "idle" => job[j] = Idle
              /\ job[j].dead => /\ job[j].stage = "next" /\ job[j].todo = {}
                                /\ job[j].inserts = {} /\ job[j].moved = {}
              /\ job[j].moved \cap job[j].todo = {}
              /\ job[j].kind = "quick" => job[j].moved = {}
              /\ job[j].kind = "manual" /\ job[j].moved # {} =>
                   job[j].moved = {job[j].cur} /\ job[j].todo = {}
              /\ job[j].kind = "manual" => \A s, t \in job[j].todo : s = t
              /\ job[j].stage \in {"payments", "customers"} /\ job[j].kind # "quick" =>
                   job[j].cur \in job[j].moved

PlanFits(j) == \A r \in Row :
                 /\ r \in job[j].fresh => job[j].plan[r] > 0
                 /\ job[j].plan[r] > 0 /\ r \notin job[j].fresh => db[r] # <<>>
                 /\ job[j].plan[r] > 0 /\ r \in Payment =>
                      db[InvoiceOf[r]] # <<>> \/ InvoiceOf[r] \in job[j].fresh

Fresher(r) == {j \in Job : r \in job[j].fresh}

CopiesFit == \A r \in Row : Len(db[r]) + Cardinality(Fresher(r)) <= Cardinality(Job)

Passed(j, r) == /\ SourceOf[r] \in job[j].moved
                /\ job[j].stage = "payments" /\ job[j].cur = SourceOf[r] => r \in Invoice

Accounted(j, r) == Current(r) \/ r \in missed \/ r \in job[j].skips

PassedFits(j) == \A r \in Row :
                   /\ 0 < at[r] /\ Passed(j, r)
                   /\ job[j].kind = "scheduled" => at[r] < job[j].started
                   => Accounted(j, r) \/ job[j].plan[r] = at[r]

AheadFits(j) == \A r \in Row :
                  /\ job[j].kind # "quick" /\ 0 < at[r] /\ ~Passed(j, r)
                  /\ SourceOf[r] \in job[j].todo \cup job[j].moved
                  /\ at[r] < job[j].since[SourceOf[r]]
                  => Accounted(j, r)

JobsFit == \A j \in Job : JobFits(j) /\ PlanFits(j) /\ PassedFits(j) /\ AheadFits(j)

IInv == /\ TypeOK /\ ClocksFit /\ JobsFit /\ PaymentHasInvoice /\ CopiesFit
        /\ BehindWindowIsStored
=============================================================================
