---------------------------- MODULE ErpSyncProofs ----------------------------
(***************************************************************************)
(* Theorems about ErpSync: any number of sources, rows and jobs, any batch *)
(* size, interval and time.  A step of a job that does not commit changes  *)
(* the job alone, so what it keeps is said once (JobStepKeeps) and each    *)
(* action has only to show that it leaves its own job in order.            *)
(***************************************************************************)
EXTENDS ErpSync, WaitCirclesProofs

USE RowAssumption, BoundAssumption

LEMMA IdleType == Idle \in Jobs /\ Nothing \in [Row -> Time] /\ 0 \in Time /\ 1 \in Time
<1>1. Nothing \in [Row -> Time] /\ 0 \in Time /\ 1 \in Time
  BY DEF Nothing, Time
<1>2. (CHOOSE s \in Source : TRUE) \in Source
  OBVIOUS
<1>3. [s \in Source |-> 0] \in [Source -> Time]
  BY <1>1
<1> QED
  BY <1>1, <1>2, <1>3 DEF Idle, Jobs, Kinds, Stages

\* The fields of a job that has not begun.
LEMMA IdleFields ==
  /\ Idle.kind = "quick" /\ Idle.stage = "idle" /\ Idle.started = 0 /\ Idle.todo = {}
  /\ Idle.fresh = {} /\ Idle.contacts = {} /\ Idle.inserts = {} /\ ~Idle.dead
  /\ Idle.skips = {} /\ Idle.moved = {} /\ \A r \in Row : Idle.plan[r] = 0
  /\ \A s \in Source : Idle.since[s] = 0
BY DEF Idle, Nothing

\* Such a job is in order.
LEMMA IdleFits ==
  ASSUME TypeOK, NEW j \in Job, job'[j] = Idle
  PROVE  JobFits(j)' /\ PlanFits(j)' /\ PassedFits(j)' /\ AheadFits(j)'
<1> USE IdleFields
<1>1. JobFits(j)'
  BY DEF JobFits
<1>2. PlanFits(j)'
  BY DEF PlanFits
<1>3. PassedFits(j)' /\ AheadFits(j)'
  BY DEF PassedFits, AheadFits, Passed
<1> QED
  BY <1>1, <1>2, <1>3

\* So is one whose transaction has been ended.
LEMMA DoomedFits ==
  ASSUME TypeOK, NEW j \in Job, job'[j] = Doomed(j)
  PROVE  /\ job'[j] \in Jobs /\ job'[j].fresh = {} /\ job'[j].started = 0
         /\ \A s \in Source : job'[j].since[s] = 0
         /\ JobFits(j)' /\ PlanFits(j)' /\ PassedFits(j)' /\ AheadFits(j)'
<1>1. job[j].kind \in Kinds
  BY DEF TypeOK, Jobs
<1>2. /\ job'[j].kind = job[j].kind /\ job'[j].stage = "next" /\ job'[j].dead
      /\ job'[j].todo = {} /\ job'[j].inserts = {} /\ job'[j].moved = {}
      /\ job'[j].fresh = {} /\ job'[j].started = 0
      /\ \A r \in Row : job'[j].plan[r] = 0
      /\ \A s \in Source : job'[j].since[s] = 0
  BY DEF Doomed, Idle, Nothing
<1>3. job'[j] \in Jobs
  BY <1>1, IdleType DEF Doomed, Jobs, Stages
<1>4. JobFits(j)'
  BY <1>2 DEF JobFits
<1>5. PlanFits(j)'
  BY <1>2 DEF PlanFits
<1>6. PassedFits(j)' /\ AheadFits(j)'
  BY <1>2 DEF PassedFits, AheadFits, Passed
<1> QED
  BY <1>2, <1>3, <1>4, <1>5, <1>6

LEMMA InitIInv == Init => IInv
<1> SUFFICES ASSUME Init PROVE IInv
  OBVIOUS
<1>1. TypeOK
  BY IdleType DEF Init, TypeOK
<1>2. ClocksFit
  BY IdleFields, <1>1 DEF Init, ClocksFit, Nothing
<1>3. \A j \in Job : job[j] = Idle
  BY DEF Init
<1>4. JobsFit
  BY <1>3, IdleFields DEF JobsFit, JobFits, PlanFits, PassedFits, AheadFits, Passed
<1>5. PaymentHasInvoice
  BY DEF Init, PaymentHasInvoice, Row
<1>6. CopiesFit
  <2> SUFFICES ASSUME NEW r \in Row PROVE Len(db[r]) + Cardinality(Fresher(r)) <= Cardinality(Job)
    BY DEF CopiesFit
  <2>1. Fresher(r) = {}
    BY <1>3, IdleFields DEF Fresher
  <2>2. Cardinality(Fresher(r)) = 0 /\ Cardinality(Job) \in Nat
    BY <2>1, FS_EmptySet, FS_CardinalityType
  <2>3. Len(db[r]) = 0
    BY DEF Init
  <2> QED
    BY <2>2, <2>3
<1>7. BehindWindowIsStored
  BY DEF Init, BehindWindowIsStored, BehindWindow, Nothing
<1> QED
  BY <1>1, <1>2, <1>4, <1>5, <1>6, <1>7 DEF IInv
-----------------------------------------------------------------------------
(* The steps of a job before it commits. *)

LEMMA JobStepKeeps ==
  ASSUME IInv, NEW j \in Job, UNCHANGED <<now, at, unfit, db, contacts, window, missed>>,
         events' \in Nat, job'[j] \in Jobs, job' = [job EXCEPT ![j] = job'[j]],
         job'[j].started <= now, \A s \in Source : job'[j].since[s] <= now,
         \A r \in job'[j].fresh \ job[j].fresh : db[r] = <<>>,
         JobFits(j)', PlanFits(j)', PassedFits(j)', AheadFits(j)'
  PROVE  IInv'
<1> USE DEF IInv
<1>1. \A k \in Job \ {j} : job'[k] = job[k]
  BY DEF TypeOK
<1>2. TypeOK'
  BY DEF TypeOK
<1>3. ClocksFit'
  BY <1>1 DEF ClocksFit
<1>4. JobsFit'
  <2> SUFFICES ASSUME NEW k \in Job \ {j}
               PROVE  JobFits(k)' /\ PlanFits(k)' /\ PassedFits(k)' /\ AheadFits(k)'
    BY DEF JobsFit
  <2>1. job'[k] = job[k] /\ JobFits(k) /\ PlanFits(k) /\ PassedFits(k) /\ AheadFits(k)
    BY <1>1 DEF JobsFit
  <2>2. JobFits(k)'
    BY <2>1 DEF JobFits
  <2>3. PlanFits(k)'
    BY <2>1 DEF PlanFits
  <2>4. PassedFits(k)' /\ AheadFits(k)'
    BY <2>1 DEF PassedFits, AheadFits, Passed, Accounted, Current, Holds
  <2> QED
    BY <2>2, <2>3, <2>4
<1>5. PaymentHasInvoice'
  BY DEF PaymentHasInvoice
<1>6. CopiesFit'
  <2> SUFFICES ASSUME NEW r \in Row
               PROVE  Len(db[r]) + Cardinality(Fresher(r)') <= Cardinality(Job)
    BY DEF CopiesFit
  <2>1. CASE db[r] = <<>>
    <3>1. Fresher(r)' \subseteq Job
      BY DEF Fresher
    <3>2. Cardinality(Fresher(r)') <= Cardinality(Job)
      BY <3>1, FS_Subset
    <3> QED
      BY <2>1, <3>2, <3>1, FS_Subset, FS_CardinalityType
  <2>2. CASE db[r] # <<>>
    <3>1. Fresher(r)' \subseteq Fresher(r)
      BY <1>1, <2>2 DEF Fresher
    <3>2. IsFiniteSet(Fresher(r))
      BY FS_Subset DEF Fresher
    <3>3. /\ Cardinality(Fresher(r)') <= Cardinality(Fresher(r))
          /\ Cardinality(Fresher(r)') \in Nat /\ Cardinality(Fresher(r)) \in Nat
      BY <3>1, <3>2, FS_Subset, FS_CardinalityType
    <3>4. Len(db[r]) + Cardinality(Fresher(r)) <= Cardinality(Job)
      BY DEF CopiesFit
    <3>5. Len(db[r]) \in Nat /\ Cardinality(Job) \in Nat
      BY FS_CardinalityType DEF TypeOK
    <3> QED
      BY <3>3, <3>4, <3>5
  <2> QED
    BY <2>1, <2>2
<1>7. BehindWindowIsStored'
  BY DEF BehindWindowIsStored, BehindWindow, Current, Holds
<1> QED
  BY <1>2, <1>3, <1>4, <1>5, <1>6, <1>7

\* The rows before a window are stored or accounted for when a job begins.
LEMMA StartScheduledKeeps ==
  ASSUME IInv, NEW j \in Job, StartScheduled(j)
  PROVE  IInv'
<1> USE DEF IInv
<1>1. PICK due \in SUBSET Source :
        job' = [job EXCEPT ![j] = [Idle EXCEPT !.kind = "scheduled", !.stage = "next",
                                               !.started = now, !.todo = due, !.since = window]]
  BY DEF StartScheduled
<1>2. /\ UNCHANGED <<now, at, unfit, db, contacts, window, missed>> /\ events' \in Nat
      /\ now \in Time /\ window \in [Source -> Time]
  BY DEF StartScheduled, Begins, TypeOK
<1>3. /\ job'[j].kind = "scheduled" /\ job'[j].stage = "next" /\ job'[j].started = now
      /\ job'[j].todo = due /\ job'[j].since = window /\ job'[j].fresh = {}
      /\ ~job'[j].dead /\ job'[j].moved = {} /\ \A r \in Row : job'[j].plan[r] = 0
  BY <1>1 DEF TypeOK, Idle, Nothing
<1>4. job'[j] \in Jobs /\ job' = [job EXCEPT ![j] = job'[j]]
  <2>1. [Idle EXCEPT !.kind = "scheduled", !.stage = "next",
                     !.started = now, !.todo = due, !.since = window] \in Jobs
    BY <1>2, IdleType DEF Jobs, Kinds, Stages
  <2> QED
    BY <1>1, <2>1 DEF TypeOK
<1>5. JobFits(j)'
  BY <1>3 DEF JobFits
<1>6. PlanFits(j)'
  BY <1>3 DEF PlanFits
<1>7. PassedFits(j)'
  BY <1>3 DEF PassedFits, Passed
<1>8. AheadFits(j)'
  BY <1>2, <1>3 DEF AheadFits, Accounted, Current, Holds, BehindWindowIsStored, BehindWindow
<1>9. \A s \in Source : job'[j].since[s] <= now
  BY <1>3 DEF ClocksFit
<1>10. job'[j].started <= now
  BY <1>2, <1>3 DEF Time
<1> QED
  BY <1>2, <1>3, <1>4, <1>5, <1>6, <1>7, <1>8, <1>9, <1>10, JobStepKeeps

LEMMA StartManualKeeps ==
  ASSUME IInv, NEW j \in Job, NEW s \in Source, StartManual(j, s)
  PROVE  IInv'
<1> USE DEF IInv
<1>1. PICK t \in {0, window[s], now} :
        job' = [job EXCEPT ![j] = [Idle EXCEPT
                  !.kind = "manual", !.stage = "next", !.todo = {s},
                  !.since = [window EXCEPT ![s] = t],
                  !.skips = {r \in Row : SourceOf[r] = s /\ window[s] <= at[r]
                                         /\ 0 < at[r] /\ at[r] < t}]]
  BY DEF StartManual
<1>2. /\ UNCHANGED <<now, at, unfit, db, contacts, window, missed>> /\ events' \in Nat
      /\ now \in Time /\ window \in [Source -> Time] /\ at \in [Row -> Time]
  BY DEF StartManual, Begins, TypeOK
<1>3. /\ job'[j].kind = "manual" /\ job'[j].stage = "next" /\ job'[j].started = 0
      /\ job'[j].todo = {s} /\ job'[j].since = [window EXCEPT ![s] = t] /\ job'[j].fresh = {}
      /\ job'[j].skips = {r \in Row : SourceOf[r] = s /\ window[s] <= at[r]
                                      /\ 0 < at[r] /\ at[r] < t}
      /\ ~job'[j].dead /\ job'[j].moved = {} /\ \A r \in Row : job'[j].plan[r] = 0
  BY <1>1 DEF TypeOK, Idle, Nothing
<1>a. t \in Time
  BY <1>2, IdleType
<1>4. job'[j] \in Jobs /\ job' = [job EXCEPT ![j] = job'[j]]
  <2> DEFINE since == [window EXCEPT ![s] = t]
             skips == {r \in Row : SourceOf[r] = s /\ window[s] <= at[r] /\ 0 < at[r] /\ at[r] < t}
  <2>1. since \in [Source -> Time] /\ skips \subseteq Row
    BY <1>2, <1>a
  <2> HIDE DEF since, skips
  <2>2. [Idle EXCEPT !.kind = "manual", !.stage = "next", !.todo = {s},
                     !.since = since, !.skips = skips] \in Jobs
    BY <2>1, IdleType DEF Jobs, Kinds, Stages
  <2> QED
    BY <1>1, <2>2 DEF TypeOK, since, skips
<1>5. JobFits(j)'
  BY <1>3 DEF JobFits
<1>6. PlanFits(j)'
  BY <1>3 DEF PlanFits
<1>7. PassedFits(j)'
  BY <1>3 DEF PassedFits, Passed
<1>8. AheadFits(j)'
  <2> SUFFICES ASSUME NEW r \in Row, 0 < at[r], SourceOf[r] = s, at[r] < t
               PROVE  Current(r) \/ r \in missed \/ r \in job'[j].skips
    BY <1>2, <1>3 DEF AheadFits, Accounted, Current, Holds
  <2>1. CASE window[s] <= at[r]
    BY <1>3, <2>1
  <2>2. CASE at[r] < window[s]
    BY <2>2 DEF BehindWindowIsStored, BehindWindow
  <2> QED
    BY <1>2, <2>1, <2>2 DEF Time
<1>9. \A x \in Source : job'[j].since[x] <= now
  BY <1>2, <1>3, <1>a DEF ClocksFit, Time
<1>10. job'[j].started <= now
  BY <1>2, <1>3 DEF Time
<1> QED
  BY <1>2, <1>3, <1>4, <1>5, <1>6, <1>7, <1>8, <1>9, <1>10, JobStepKeeps

LEMMA StartQuickKeeps ==
  ASSUME IInv, NEW j \in Job, NEW s \in Source, StartQuick(j, s)
  PROVE  IInv'
<1> USE DEF IInv
<1>1. job' = [job EXCEPT ![j] = [Idle EXCEPT !.stage = "next", !.todo = {s}]]
  BY DEF StartQuick
<1>2. /\ UNCHANGED <<now, at, unfit, db, contacts, window, missed>> /\ events' \in Nat /\ now \in Time
  BY DEF StartQuick, Begins, TypeOK
<1>3. /\ job'[j].kind = "quick" /\ job'[j].stage = "next" /\ job'[j].started = 0
      /\ \A x \in Source : job'[j].since[x] = 0
      /\ job'[j].fresh = {} /\ ~job'[j].dead /\ job'[j].moved = {}
      /\ \A r \in Row : job'[j].plan[r] = 0
  BY <1>1 DEF TypeOK, Idle, Nothing
<1>4. job'[j] \in Jobs /\ job' = [job EXCEPT ![j] = job'[j]]
  <2>1. [Idle EXCEPT !.stage = "next", !.todo = {s}] \in Jobs
    BY IdleType DEF Jobs, Stages
  <2> QED
    BY <1>1, <2>1 DEF TypeOK
<1>5. JobFits(j)'
  BY <1>3 DEF JobFits
<1>6. PlanFits(j)'
  BY <1>3 DEF PlanFits
<1>7. PassedFits(j)' /\ AheadFits(j)'
  BY <1>3 DEF PassedFits, AheadFits, Passed
<1>8. job'[j].started <= now /\ \A x \in Source : job'[j].since[x] <= now
  BY <1>2, <1>3 DEF Time
<1> QED
  BY <1>2, <1>3, <1>4, <1>5, <1>6, <1>7, <1>8, JobStepKeeps

\* A contact waits, is inserted, or ends the transaction; it is no row.
LEMMA InsertContactKeeps ==
  ASSUME IInv, NEW j \in Job, NEW f \in Phone, InsertContact(j, f)
  PROVE  IInv'
<1> USE DEF IInv
<1>1. UNCHANGED <<now, at, unfit, db, contacts, window, missed>> /\ events' \in Nat /\ now \in Time
  BY DEF InsertContact, TypeOK
<1>2. CASE job' = [job EXCEPT ![j] = Doomed(j)]
  <2>1. job'[j] = Doomed(j) /\ job' = [job EXCEPT ![j] = job'[j]]
    BY <1>2 DEF TypeOK
  <2>2. 0 <= now
    BY <1>1 DEF Time
  <2> QED
    BY <1>1, <2>1, <2>2, DoomedFits, JobStepKeeps
<1>3. CASE job' = [job EXCEPT ![j].inserts = @ \ {f}, ![j].contacts = @ \cup {f}]
  <2>1. job'[j] = [job[j] EXCEPT !.inserts = job[j].inserts \ {f},
                                 !.contacts = job[j].contacts \cup {f}]
    BY <1>3 DEF TypeOK
  <2>2. job'[j] \in Jobs /\ job' = [job EXCEPT ![j] = job'[j]]
    <3> DEFINE x == job[j].inserts \ {f}
               y == job[j].contacts \cup {f}
    <3>1. job[j] \in Jobs /\ x \in SUBSET Phone /\ y \in SUBSET Phone
      BY DEF TypeOK, Jobs
    <3>2. job'[j] = [job[j] EXCEPT !.inserts = x, !.contacts = y]
      BY <2>1
    <3> HIDE DEF x, y
    <3>3. job'[j] \in Jobs
      BY <3>1, <3>2 DEF Jobs
    <3>4. job' = [job EXCEPT ![j] = job'[j]]
      BY <1>3 DEF TypeOK
    <3> QED
      BY <3>3, <3>4
  <2>3. /\ job'[j].kind = job[j].kind /\ job'[j].stage = job[j].stage
        /\ job'[j].started = job[j].started /\ job'[j].todo = job[j].todo
        /\ job'[j].cur = job[j].cur /\ job'[j].since = job[j].since
        /\ job'[j].plan = job[j].plan /\ job'[j].fresh = job[j].fresh
        /\ job'[j].dead = job[j].dead /\ job'[j].skips = job[j].skips
        /\ job'[j].moved = job[j].moved
    BY <2>1 DEF TypeOK, Jobs
  <2>4. JobFits(j) /\ PlanFits(j) /\ PassedFits(j) /\ AheadFits(j)
    BY DEF JobsFit
  <2>5. JobFits(j)'
    <3>1. f \in job[j].inserts
      BY DEF InsertContact, CanInsert
    <3>2. job[j].stage # "idle" /\ ~job[j].dead
      BY <2>4, <3>1, IdleFields DEF JobFits
    <3> QED
      BY <2>3, <2>4, <3>2 DEF JobFits
  <2>6. PlanFits(j)'
    BY <1>1, <2>3, <2>4 DEF PlanFits
  <2>7. PassedFits(j)' /\ AheadFits(j)'
    BY <1>1, <2>3, <2>4 DEF PassedFits, AheadFits, Passed, Accounted, Current, Holds
  <2>8. job'[j].started <= now /\ \A s \in Source : job'[j].since[s] <= now
    BY <2>3 DEF ClocksFit
  <2> QED
    BY <1>1, <2>2, <2>3, <2>5, <2>6, <2>7, <2>8, JobStepKeeps
<1> QED
  BY <1>2, <1>3 DEF InsertContact

\* The customers of a source are no rows either.
LEMMA SyncCustomersKeeps ==
  ASSUME IInv, NEW j \in Job, SyncCustomers(j)
  PROVE  IInv'
<1> USE DEF IInv
<1>1. /\ UNCHANGED <<now, at, unfit, db, contacts, window, missed>> /\ events' \in Nat
      /\ job[j].stage = "customers"
  <2>1. events \in Nat
    BY DEF TypeOK
  <2> QED
    BY <2>1 DEF SyncCustomers, Fault
<1>2. PICK new \in SUBSET Phone :
        job' = [job EXCEPT ![j].stage = "next", ![j].inserts = new]
  <2>1. PICK got \in SUBSET Customer :
          job' = [job EXCEPT ![j].stage = "next", ![j].inserts = NewPhones(j, got)]
    BY DEF SyncCustomers
  <2>2. NewPhones(j, got) \subseteq Phone
    BY DEF NewPhones
  <2> QED
    BY <2>1, <2>2
<1>3. job'[j] = [job[j] EXCEPT !.stage = "next", !.inserts = new]
  BY <1>2 DEF TypeOK
<1>4. job'[j] \in Jobs /\ job' = [job EXCEPT ![j] = job'[j]]
  <2>1. job[j] \in Jobs
    BY DEF TypeOK
  <2>2. job'[j] \in Jobs
    BY <1>3, <2>1 DEF Jobs, Stages
  <2>3. job' = [job EXCEPT ![j] = job'[j]]
    BY <1>2 DEF TypeOK
  <2> QED
    BY <2>2, <2>3
<1>5. /\ job'[j].kind = job[j].kind /\ job'[j].stage = "next"
      /\ job'[j].started = job[j].started /\ job'[j].todo = job[j].todo
      /\ job'[j].cur = job[j].cur /\ job'[j].since = job[j].since
      /\ job'[j].plan = job[j].plan /\ job'[j].fresh = job[j].fresh
      /\ job'[j].dead = job[j].dead /\ job'[j].skips = job[j].skips
      /\ job'[j].moved = job[j].moved
  BY <1>3 DEF TypeOK, Jobs
<1>6. JobFits(j) /\ PlanFits(j) /\ PassedFits(j) /\ AheadFits(j)
  BY DEF JobsFit
<1>7. JobFits(j)'
  BY <1>1, <1>5, <1>6 DEF JobFits
<1>8. PlanFits(j)'
  BY <1>1, <1>5, <1>6 DEF PlanFits
<1>9. PassedFits(j)' /\ AheadFits(j)'
  BY <1>1, <1>5, <1>6 DEF PassedFits, AheadFits, Passed, Accounted, Current, Holds
<1>10. job'[j].started <= now /\ \A s \in Source : job'[j].since[s] <= now
  BY <1>5 DEF ClocksFit
<1> QED
  BY <1>1, <1>4, <1>5, <1>7, <1>8, <1>9, <1>10, JobStepKeeps

\* A source that cannot be reached is passed over with all of its rows.
LEMMA ConnectFailsKeeps ==
  ASSUME IInv, NEW j \in Job, NEW s \in Source, ConnectFails(j, s)
  PROVE  IInv'
<1> USE DEF IInv
<1>1. /\ UNCHANGED <<now, at, unfit, db, contacts, window, missed>> /\ events' \in Nat
      /\ job[j].stage = "next" /\ s \in job[j].todo
      /\ at \in [Row -> Time]
  BY DEF ConnectFails, Fault, TypeOK
<1>2. PICK behind \in SUBSET Row, moves \in SUBSET {s} :
        /\ behind = RowsOf(s, job[j].since[s], Row) /\ moves = Moves(j, s)
        /\ job' = [job EXCEPT ![j].cur = s, ![j].todo = @ \ {s},
                              ![j].skips = @ \cup behind, ![j].moved = @ \cup moves]
  <2>1. RowsOf(s, job[j].since[s], Row) \subseteq Row /\ Moves(j, s) \subseteq {s}
    BY DEF RowsOf, Moves
  <2> QED
    BY <2>1 DEF ConnectFails
<1>3. job'[j] = [job[j] EXCEPT !.cur = s, !.todo = job[j].todo \ {s},
                               !.skips = job[j].skips \cup behind,
                               !.moved = job[j].moved \cup moves]
  BY <1>2 DEF TypeOK
<1>4. job'[j] \in Jobs /\ job' = [job EXCEPT ![j] = job'[j]]
  <2> DEFINE todo == job[j].todo \ {s}
             skips == job[j].skips \cup behind
             moved == job[j].moved \cup moves
  <2>1. /\ job[j] \in Jobs /\ todo \in SUBSET Source
        /\ skips \in SUBSET Row /\ moved \in SUBSET Source
    BY DEF TypeOK, Jobs
  <2>2. job'[j] = [job[j] EXCEPT !.cur = s, !.todo = todo, !.skips = skips, !.moved = moved]
    BY <1>3
  <2> HIDE DEF todo, skips, moved
  <2>3. job'[j] \in Jobs
    BY <2>1, <2>2 DEF Jobs
  <2>4. job' = [job EXCEPT ![j] = job'[j]]
    BY <1>2 DEF TypeOK
  <2> QED
    BY <2>3, <2>4
<1>5. /\ job'[j].kind = job[j].kind /\ job'[j].stage = "next"
      /\ job'[j].started = job[j].started /\ job'[j].todo = job[j].todo \ {s}
      /\ job'[j].cur = s /\ job'[j].since = job[j].since
      /\ job'[j].plan = job[j].plan /\ job'[j].fresh = job[j].fresh
      /\ job'[j].dead = job[j].dead /\ job'[j].skips = job[j].skips \cup behind
      /\ job'[j].moved = job[j].moved \cup moves
      /\ job'[j].inserts = job[j].inserts
  BY <1>1, <1>3 DEF TypeOK, Jobs
<1>6. JobFits(j) /\ PlanFits(j) /\ PassedFits(j) /\ AheadFits(j)
  BY DEF JobsFit
<1>a. moves = IF job[j].kind = "quick" THEN {} ELSE {s}
  BY <1>2 DEF Moves
<1>b. job[j].kind = "manual" => job[j].moved = {} /\ job[j].todo = {s}
  BY <1>1, <1>6 DEF JobFits
<1>7. JobFits(j)'
  <2>1. job'[j].stage = "next" /\ ~job'[j].dead
    BY <1>1, <1>5, <1>6 DEF JobFits
  <2>2. job'[j].moved \cap job'[j].todo = {}
    BY <1>1, <1>5, <1>6 DEF JobFits
  <2>3. job'[j].kind = "quick" => job'[j].moved = {}
    BY <1>5, <1>6, <1>a DEF JobFits
  <2>4. job'[j].kind = "manual" => job'[j].moved = {s} /\ job'[j].todo = {} /\ job'[j].cur = s
    BY <1>5, <1>a, <1>b
  <2> QED
    BY <2>1, <2>2, <2>3, <2>4 DEF JobFits
<1>8. PlanFits(j)'
  BY <1>1, <1>5, <1>6 DEF PlanFits
<1>9. \A r \in Row : SourceOf[r] = s => ~Passed(j, r)
  BY <1>1, <1>6 DEF JobFits, Passed
<1>10. \A r \in Row : SourceOf[r] # s => (Passed(j, r)' <=> Passed(j, r))
  BY <1>1, <1>5 DEF Passed
<1>11. \A r \in Row : Accounted(j, r)' <=> Accounted(j, r) \/ r \in behind
  BY <1>1, <1>5 DEF Accounted, Current, Holds
<1>12. ASSUME NEW r \in Row, SourceOf[r] = s, 0 < at[r], job[j].kind # "quick"
       PROVE  Accounted(j, r)'
  <2>1. CASE at[r] < job[j].since[s]
    BY <1>1, <1>6, <1>9, <1>11, <1>12, <2>1 DEF AheadFits
  <2>2. CASE at[r] >= job[j].since[s]
    BY <1>2, <1>11, <1>12, <2>2 DEF RowsOf
  <2>3. at[r] \in Nat /\ job[j].since[s] \in Nat
    BY DEF TypeOK, Jobs, Time
  <2> QED
    BY <2>1, <2>2, <2>3
<1>13. PassedFits(j)'
  <2> SUFFICES ASSUME NEW r \in Row, 0 < at[r], Passed(j, r)',
                      job[j].kind = "scheduled" => at[r] < job[j].started
               PROVE  Accounted(j, r)' \/ job[j].plan[r] = at[r]
    BY <1>1, <1>5 DEF PassedFits
  <2>1. CASE SourceOf[r] = s
    <3>1. job[j].kind # "quick"
      BY <1>5, <1>6, <1>7 DEF JobFits, Passed
    <3> QED
      BY <1>12, <2>1, <3>1
  <2>2. CASE SourceOf[r] # s
    BY <1>6, <1>10, <1>11, <2>2 DEF PassedFits
  <2> QED
    BY <2>1, <2>2
<1>14. AheadFits(j)'
  <2> SUFFICES ASSUME NEW r \in Row, 0 < at[r], ~Passed(j, r)', job[j].kind # "quick",
                      SourceOf[r] \in job'[j].todo \cup job'[j].moved,
                      at[r] < job[j].since[SourceOf[r]]
               PROVE  Accounted(j, r)'
    BY <1>1, <1>5 DEF AheadFits
  <2>1. CASE SourceOf[r] = s
    BY <1>12, <2>1
  <2>2. CASE SourceOf[r] # s
    <3>1. SourceOf[r] \in job[j].todo \cup job[j].moved
      BY <1>2, <1>5, <2>2
    <3> QED
      BY <1>6, <1>10, <1>11, <2>2, <3>1 DEF AheadFits
  <2> QED
    BY <2>1, <2>2
<1>15. job'[j].started <= now /\ \A x \in Source : job'[j].since[x] <= now
  BY <1>5 DEF ClocksFit
<1> QED
  BY <1>1, <1>4, <1>5, <1>7, <1>8, <1>13, <1>14, <1>15, JobStepKeeps

\* What a job plans for the rows it has read.
LEMMA PlanKeeps ==
  ASSUME IInv, NEW j \in Job, NEW rows \in SUBSET Row, UNCHANGED db,
         \A r \in rows : 0 < at[r],
         \A r \in rows : r \in Payment => db[InvoiceOf[r]] # <<>> \/ InvoiceOf[r] \in job[j].fresh,
         job'[j].plan = Plan(j, rows), job'[j].fresh = Fresh(j, rows)
  PROVE  /\ PlanFits(j)'
         /\ Plan(j, rows) \in [Row -> Time] /\ Fresh(j, rows) \in SUBSET Row
         /\ \A r \in job'[j].fresh \ job[j].fresh : db[r] = <<>>
         /\ \A r \in Row : job'[j].plan[r] = IF r \in rows THEN at[r] ELSE job[j].plan[r]
<1> USE DEF IInv
<1>1. at \in [Row -> Time] /\ job[j].plan \in [Row -> Time] /\ job[j].fresh \subseteq Row
  BY DEF TypeOK, Jobs
<1>2. Plan(j, rows) \in [Row -> Time] /\ Fresh(j, rows) \in SUBSET Row
  BY <1>1 DEF Plan, Fresh
<1>3. \A r \in Row : job'[j].plan[r] = IF r \in rows THEN at[r] ELSE job[j].plan[r]
  BY DEF Plan
<1>4. \A r \in Row : r \in job'[j].fresh <=> r \in job[j].fresh \/ (r \in rows /\ db[r] = <<>>)
  BY DEF Fresh
<1>5. PlanFits(j)
  BY DEF JobsFit
<1>6. \A r \in Payment : InvoiceOf[r] \in Row
  BY DEF Row
<1>7. PlanFits(j)'
  <2> SUFFICES ASSUME NEW r \in Row
               PROVE  /\ r \in job'[j].fresh => job'[j].plan[r] > 0
                      /\ job'[j].plan[r] > 0 /\ r \notin job'[j].fresh => db[r] # <<>>
                      /\ job'[j].plan[r] > 0 /\ r \in Payment =>
                           db[InvoiceOf[r]] # <<>> \/ InvoiceOf[r] \in job'[j].fresh
    BY DEF PlanFits
  <2>1. CASE r \in rows
    BY <1>3, <1>4, <1>6, <2>1
  <2>2. CASE r \notin rows
    BY <1>3, <1>4, <1>5, <1>6, <2>2 DEF PlanFits
  <2> QED
    BY <2>1, <2>2
<1> QED
  BY <1>2, <1>3, <1>4, <1>7 DEF Fresh

\* The invoices of a source are read: each is planned, or accounted for.
LEMMA SyncInvoicesKeeps ==
  ASSUME IInv, NEW j \in Job, NEW s \in Source, SyncInvoices(j, s)
  PROVE  IInv'
<1> USE DEF IInv
<1>1. /\ UNCHANGED <<now, at, unfit, db, contacts, window, missed>> /\ events' \in Nat
      /\ job[j].stage = "next" /\ s \in job[j].todo
      /\ at \in [Row -> Time]
  <2>1. PICK found, got : Fetch(found, got)
    BY DEF SyncInvoices
  <2>2. events \in Nat /\ at \in [Row -> Time]
    BY DEF TypeOK
  <2>3. events' \in Nat
    BY <2>1, <2>2 DEF Fetch, Fault
  <2>4. UNCHANGED <<now, at, unfit, db, contacts, window, missed>> /\ job[j].stage = "next" /\ s \in job[j].todo
    BY DEF SyncInvoices
  <2> QED
    BY <2>2, <2>3, <2>4
<1>2. PICK found \in SUBSET Row, rows \in SUBSET Row, moves \in SUBSET {s}, new \in SUBSET Phone :
        /\ found = RowsOf(s, job[j].since[s], Invoice) /\ rows \subseteq found /\ moves = Moves(j, s)
        /\ job' = [job EXCEPT ![j].stage = "payments", ![j].cur = s, ![j].todo = @ \ {s},
                              ![j].moved = @ \cup moves,
                              ![j].plan = Plan(j, rows), ![j].fresh = Fresh(j, rows),
                              ![j].inserts = new, ![j].skips = @ \cup (found \ rows)]
  <2> DEFINE asked == RowsOf(s, job[j].since[s], Invoice)
  <2>1. PICK got \in SUBSET asked, failed \in SUBSET asked :
          job' = [job EXCEPT ![j].stage = "payments", ![j].cur = s, ![j].todo = @ \ {s},
                             ![j].moved = @ \cup Moves(j, s),
                             ![j].plan = Plan(j, Storable(got)),
                             ![j].fresh = Fresh(j, Storable(got)),
                             ![j].inserts = NewPhones(j, Storable(got) \cup failed),
                             ![j].skips = @ \cup (asked \ Storable(got))]
    <3>1. PICK got \in SUBSET asked :
            \E failed \in SUBSET {i \in got \cap unfit : ~Ambiguous(i)} :
              job' = [job EXCEPT ![j].stage = "payments", ![j].cur = s, ![j].todo = @ \ {s},
                                 ![j].moved = @ \cup Moves(j, s),
                                 ![j].plan = Plan(j, Storable(got)),
                                 ![j].fresh = Fresh(j, Storable(got)),
                                 ![j].inserts = NewPhones(j, Storable(got) \cup failed),
                                 ![j].skips = @ \cup (asked \ Storable(got))]
      BY DEF SyncInvoices
    <3>2. SUBSET {i \in got \cap unfit : ~Ambiguous(i)} \subseteq SUBSET asked
      OBVIOUS
    <3> QED
      BY <3>1, <3>2
  <2>2. asked \subseteq Row /\ asked \subseteq Invoice /\ Moves(j, s) \subseteq {s}
    BY DEF RowsOf, Moves, Row
  <2>3. Storable(got) \in SUBSET asked
    BY DEF Storable
  <2>4. NewPhones(j, Storable(got) \cup failed) \in SUBSET Phone
    BY <2>2, <2>3 DEF NewPhones
  <2> HIDE DEF asked
  <2> QED
    BY <2>1, <2>2, <2>3, <2>4 DEF asked
<1>3. job'[j] = [job[j] EXCEPT !.stage = "payments", !.cur = s, !.todo = job[j].todo \ {s},
                               !.moved = job[j].moved \cup moves,
                               !.plan = Plan(j, rows), !.fresh = Fresh(j, rows),
                               !.inserts = new, !.skips = job[j].skips \cup (found \ rows)]
  BY <1>2 DEF TypeOK
<1>4. /\ job'[j].kind = job[j].kind /\ job'[j].stage = "payments"
      /\ job'[j].started = job[j].started /\ job'[j].todo = job[j].todo \ {s}
      /\ job'[j].cur = s /\ job'[j].since = job[j].since
      /\ job'[j].plan = Plan(j, rows) /\ job'[j].fresh = Fresh(j, rows)
      /\ job'[j].dead = job[j].dead /\ job'[j].skips = job[j].skips \cup (found \ rows)
      /\ job'[j].moved = job[j].moved \cup moves
  BY <1>3 DEF TypeOK, Jobs
<1>5. \A r \in Row : r \in found <=> r \in Invoice /\ SourceOf[r] = s /\ 0 < at[r]
                                       /\ at[r] >= job[j].since[s]
  BY <1>1, <1>2 DEF RowsOf, Row
<1>6. /\ PlanFits(j)' /\ Plan(j, rows) \in [Row -> Time] /\ Fresh(j, rows) \in SUBSET Row
      /\ \A r \in job'[j].fresh \ job[j].fresh : db[r] = <<>>
      /\ \A r \in Row : job'[j].plan[r] = IF r \in rows THEN at[r] ELSE job[j].plan[r]
  <2>1. \A r \in rows : 0 < at[r] /\ r \notin Payment
    BY <1>2, <1>5
  <2> QED
    BY <1>1, <1>4, <2>1, PlanKeeps
<1>7. job'[j] \in Jobs /\ job' = [job EXCEPT ![j] = job'[j]]
  <2> DEFINE todo == job[j].todo \ {s}
             skips == job[j].skips \cup (found \ rows)
             moved == job[j].moved \cup moves
             plan == Plan(j, rows)
             fresh == Fresh(j, rows)
  <2>1. /\ job[j] \in Jobs /\ todo \in SUBSET Source /\ plan \in [Row -> Time]
        /\ skips \in SUBSET Row /\ moved \in SUBSET Source /\ fresh \in SUBSET Row
    BY <1>6 DEF TypeOK, Jobs
  <2>2. job'[j] = [job[j] EXCEPT !.stage = "payments", !.cur = s, !.todo = todo, !.moved = moved,
                                 !.plan = plan, !.fresh = fresh, !.inserts = new, !.skips = skips]
    BY <1>3
  <2> HIDE DEF todo, skips, moved, plan, fresh
  <2>5. PICK r \in Jobs :
          r = [job[j] EXCEPT !.stage = "payments", !.cur = s, !.todo = todo, !.moved = moved]
    BY <2>1 DEF Jobs, Stages
  <2>6. [r EXCEPT !.plan = plan, !.fresh = fresh, !.inserts = new, !.skips = skips] \in Jobs
    BY <2>1 DEF Jobs
  <2>7. job'[j] = [r EXCEPT !.plan = plan, !.fresh = fresh, !.inserts = new, !.skips = skips]
    BY <2>1, <2>2, <2>5 DEF Jobs
  <2>3. job'[j] \in Jobs
    BY <2>6, <2>7
  <2>4. job' = [job EXCEPT ![j] = job'[j]]
    BY <1>2 DEF TypeOK
  <2> QED
    BY <2>3, <2>4
<1>8. JobFits(j) /\ PlanFits(j) /\ PassedFits(j) /\ AheadFits(j)
  BY DEF JobsFit
<1>a. moves = IF job[j].kind = "quick" THEN {} ELSE {s}
  BY <1>2 DEF Moves
<1>b. job[j].kind = "manual" => job[j].moved = {} /\ job[j].todo = {s}
  BY <1>1, <1>8 DEF JobFits
<1>9. JobFits(j)'
  <2>1. job'[j].stage = "payments" /\ ~job'[j].dead
    BY <1>1, <1>4, <1>8 DEF JobFits
  <2>2. job'[j].moved \cap job'[j].todo = {}
    BY <1>1, <1>4, <1>8 DEF JobFits
  <2>3. job'[j].kind = "quick" => job'[j].moved = {}
    BY <1>4, <1>8, <1>a DEF JobFits
  <2>4. job'[j].kind = "manual" => job'[j].moved = {s} /\ job'[j].todo = {} /\ job'[j].cur = s
    BY <1>4, <1>a, <1>b
  <2>5. job'[j].kind # "quick" => job'[j].cur \in job'[j].moved
    BY <1>4, <1>a
  <2> QED
    BY <2>1, <2>2, <2>3, <2>4, <2>5 DEF JobFits
<1>10. \A r \in Row : SourceOf[r] = s => ~Passed(j, r) /\ (Passed(j, r)' => r \in Invoice)
  BY <1>1, <1>4, <1>8 DEF JobFits, Passed
<1>11. \A r \in Row : SourceOf[r] # s => (Passed(j, r)' <=> Passed(j, r))
  BY <1>1, <1>4 DEF Passed
<1>12. \A r \in Row : Accounted(j, r)' <=> Accounted(j, r) \/ r \in found \ rows
  BY <1>1, <1>4 DEF Accounted, Current, Holds
<1>13. ASSUME NEW r \in Row, SourceOf[r] = s, 0 < at[r], job[j].kind # "quick",
              at[r] < job[j].since[s]
       PROVE  Accounted(j, r)'
  BY <1>1, <1>8, <1>10, <1>12, <1>13 DEF AheadFits
<1>14. PassedFits(j)'
  <2> SUFFICES ASSUME NEW r \in Row, 0 < at[r], Passed(j, r)',
                      job[j].kind = "scheduled" => at[r] < job[j].started
               PROVE  Accounted(j, r)' \/ job'[j].plan[r] = at[r]
    BY <1>1, <1>4 DEF PassedFits
  <2>1. CASE SourceOf[r] = s
    <3>1. job[j].kind # "quick"
      BY <1>4, <1>8, <1>9 DEF JobFits, Passed
    <3>2. CASE at[r] < job[j].since[s]
      BY <1>13, <2>1, <3>1, <3>2
    <3>3. CASE at[r] >= job[j].since[s]
      BY <1>5, <1>6, <1>10, <1>12, <2>1, <3>3
    <3>4. at[r] \in Nat /\ job[j].since[s] \in Nat
      BY DEF TypeOK, Jobs, Time
    <3> QED
      BY <3>2, <3>3, <3>4
  <2>2. CASE SourceOf[r] # s
    BY <1>2, <1>5, <1>6, <1>8, <1>11, <1>12, <2>2 DEF PassedFits
  <2> QED
    BY <2>1, <2>2
<1>15. AheadFits(j)'
  <2> SUFFICES ASSUME NEW r \in Row, 0 < at[r], ~Passed(j, r)', job[j].kind # "quick",
                      SourceOf[r] \in job'[j].todo \cup job'[j].moved,
                      at[r] < job[j].since[SourceOf[r]]
               PROVE  Accounted(j, r)'
    BY <1>1, <1>4 DEF AheadFits
  <2>1. CASE SourceOf[r] = s
    BY <1>13, <2>1
  <2>2. CASE SourceOf[r] # s
    <3>1. SourceOf[r] \in job[j].todo \cup job[j].moved
      BY <1>2, <1>4, <2>2
    <3> QED
      BY <1>8, <1>11, <1>12, <2>2, <3>1 DEF AheadFits
  <2> QED
    BY <2>1, <2>2
<1>16. job'[j].started <= now /\ \A x \in Source : job'[j].since[x] <= now
  BY <1>4 DEF ClocksFit
<1> QED
  BY <1>1, <1>6, <1>7, <1>9, <1>14, <1>15, <1>16, JobStepKeeps

\* Its payments are read: one is planned with its invoice, or accounted for.
LEMMA SyncPaymentsKeeps ==
  ASSUME IInv, NEW j \in Job, SyncPayments(j)
  PROVE  IInv'
<1> USE DEF IInv
<1>0. PICK s \in Source : s = job[j].cur
  BY DEF TypeOK, Jobs
<1>1. /\ UNCHANGED <<now, at, unfit, db, contacts, window, missed>> /\ events' \in Nat
      /\ job[j].stage = "payments" /\ at \in [Row -> Time]
  <2>1. PICK found, got : Fetch(found, got)
    BY DEF SyncPayments
  <2>2. events \in Nat /\ at \in [Row -> Time]
    BY DEF TypeOK
  <2>3. events' \in Nat
    BY <2>1, <2>2 DEF Fetch, Fault
  <2>4. UNCHANGED <<now, at, unfit, db, contacts, window, missed>> /\ job[j].stage = "payments"
    BY DEF SyncPayments
  <2> QED
    BY <2>2, <2>3, <2>4
<1>2. PICK found \in SUBSET Row, rows \in SUBSET Row :
        /\ found = RowsOf(s, job[j].since[s], Payment) /\ rows \subseteq found
        /\ \A p \in rows : Visible(j, InvoiceOf[p]) = 1
        /\ job' = [job EXCEPT ![j].stage = "customers",
                              ![j].plan = Plan(j, rows), ![j].fresh = Fresh(j, rows),
                              ![j].skips = @ \cup (found \ rows)]
  <2> DEFINE asked == RowsOf(s, job[j].since[s], Payment)
  <2>1. PICK rows \in SUBSET asked :
          /\ \A p \in rows : Visible(j, InvoiceOf[p]) = 1
          /\ job' = [job EXCEPT ![j].stage = "customers",
                                ![j].plan = Plan(j, rows), ![j].fresh = Fresh(j, rows),
                                ![j].skips = @ \cup (asked \ rows)]
    BY <1>0 DEF SyncPayments, Storable
  <2>2. asked \subseteq Row
    BY DEF RowsOf, Row
  <2> HIDE DEF asked
  <2> QED
    BY <2>1, <2>2 DEF asked
<1>3. job'[j] = [job[j] EXCEPT !.stage = "customers", !.plan = Plan(j, rows),
                               !.fresh = Fresh(j, rows), !.skips = job[j].skips \cup (found \ rows)]
  BY <1>2 DEF TypeOK
<1>4. /\ job'[j].kind = job[j].kind /\ job'[j].stage = "customers"
      /\ job'[j].started = job[j].started /\ job'[j].todo = job[j].todo
      /\ job'[j].cur = s /\ job'[j].since = job[j].since
      /\ job'[j].plan = Plan(j, rows) /\ job'[j].fresh = Fresh(j, rows)
      /\ job'[j].dead = job[j].dead /\ job'[j].skips = job[j].skips \cup (found \ rows)
      /\ job'[j].moved = job[j].moved
  BY <1>0, <1>3 DEF TypeOK, Jobs
<1>5. \A r \in Row : r \in found <=> r \in Payment /\ SourceOf[r] = s /\ 0 < at[r]
                                       /\ at[r] >= job[j].since[s]
  BY <1>1, <1>2 DEF RowsOf, Row
<1>a. \A r \in rows : db[InvoiceOf[r]] # <<>> \/ InvoiceOf[r] \in job[j].fresh
  <2> SUFFICES ASSUME NEW r \in rows, db[InvoiceOf[r]] = <<>>, InvoiceOf[r] \notin job[j].fresh
               PROVE  FALSE
    OBVIOUS
  <2>1. Visible(j, InvoiceOf[r]) = 0
    BY DEF Visible
  <2> QED
    BY <1>2, <2>1
<1>6. /\ PlanFits(j)' /\ Plan(j, rows) \in [Row -> Time] /\ Fresh(j, rows) \in SUBSET Row
      /\ \A r \in job'[j].fresh \ job[j].fresh : db[r] = <<>>
      /\ \A r \in Row : job'[j].plan[r] = IF r \in rows THEN at[r] ELSE job[j].plan[r]
  <2>1. \A r \in rows : 0 < at[r]
    BY <1>2, <1>5
  <2> QED
    BY <1>1, <1>4, <1>a, <2>1, PlanKeeps
<1>7. job'[j] \in Jobs /\ job' = [job EXCEPT ![j] = job'[j]]
  <2> DEFINE skips == job[j].skips \cup (found \ rows)
             plan == Plan(j, rows)
             fresh == Fresh(j, rows)
  <2>1. /\ job[j] \in Jobs /\ plan \in [Row -> Time]
        /\ skips \in SUBSET Row /\ fresh \in SUBSET Row
    BY <1>6 DEF TypeOK, Jobs
  <2>2. job'[j] = [job[j] EXCEPT !.stage = "customers", !.plan = plan, !.fresh = fresh,
                                 !.skips = skips]
    BY <1>3
  <2> HIDE DEF skips, plan, fresh
  <2>3. job'[j] \in Jobs
    BY <2>1, <2>2 DEF Jobs, Stages
  <2>4. job' = [job EXCEPT ![j] = job'[j]]
    BY <1>2 DEF TypeOK
  <2> QED
    BY <2>3, <2>4
<1>8. JobFits(j) /\ PlanFits(j) /\ PassedFits(j) /\ AheadFits(j)
  BY DEF JobsFit
<1>9. JobFits(j)'
  BY <1>0, <1>1, <1>4, <1>8 DEF JobFits
<1>10. \A r \in Row : SourceOf[r] # s \/ r \notin Payment => (Passed(j, r)' <=> Passed(j, r))
  BY <1>0, <1>1, <1>4 DEF Passed, Row
<1>11. \A r \in Payment : SourceOf[r] = s => ~Passed(j, r)
  BY <1>0, <1>1 DEF Passed
<1>12. \A r \in Row : Accounted(j, r)' <=> Accounted(j, r) \/ r \in found \ rows
  BY <1>1, <1>4 DEF Accounted, Current, Holds
<1>13. ASSUME NEW r \in Payment, SourceOf[r] = s, 0 < at[r], job[j].kind # "quick",
              at[r] < job[j].since[s]
       PROVE  Accounted(j, r)'
  BY <1>0, <1>1, <1>8, <1>11, <1>12, <1>13 DEF AheadFits, JobFits, Row
<1>14. PassedFits(j)'
  <2> SUFFICES ASSUME NEW r \in Row, 0 < at[r], Passed(j, r)',
                      job[j].kind = "scheduled" => at[r] < job[j].started
               PROVE  Accounted(j, r)' \/ job'[j].plan[r] = at[r]
    BY <1>1, <1>4 DEF PassedFits
  <2>1. CASE SourceOf[r] = s /\ r \in Payment
    <3>1. job[j].kind # "quick"
      BY <1>4, <1>8 DEF JobFits, Passed
    <3>2. CASE at[r] < job[j].since[s]
      BY <1>13, <2>1, <3>1, <3>2
    <3>3. CASE at[r] >= job[j].since[s]
      BY <1>5, <1>6, <1>12, <2>1, <3>3
    <3>4. at[r] \in Nat /\ job[j].since[s] \in Nat
      BY DEF TypeOK, Jobs, Time
    <3> QED
      BY <3>2, <3>3, <3>4
  <2>2. CASE SourceOf[r] # s \/ r \notin Payment
    BY <1>2, <1>5, <1>6, <1>8, <1>10, <1>12, <2>2 DEF PassedFits
  <2> QED
    BY <2>1, <2>2
<1>15. AheadFits(j)'
  <2> SUFFICES ASSUME NEW r \in Row, 0 < at[r], ~Passed(j, r)', job[j].kind # "quick",
                      SourceOf[r] \in job[j].todo \cup job[j].moved,
                      at[r] < job[j].since[SourceOf[r]]
               PROVE  Accounted(j, r)'
    BY <1>1, <1>4 DEF AheadFits
  <2>1. CASE SourceOf[r] = s /\ r \in Payment
    BY <1>13, <2>1
  <2>2. CASE SourceOf[r] # s \/ r \notin Payment
    BY <1>8, <1>10, <1>12, <2>2 DEF AheadFits
  <2> QED
    BY <2>1, <2>2
<1>16. job'[j].started <= now /\ \A x \in Source : job'[j].since[x] <= now
  BY <1>4 DEF ClocksFit
<1> QED
  BY <1>1, <1>6, <1>7, <1>9, <1>14, <1>15, <1>16, JobStepKeeps
-----------------------------------------------------------------------------
(* The clock, the ERP, and the end of a job. *)

LEMMA TickKeeps == IInv /\ Tick => IInv'
<1> SUFFICES ASSUME IInv, Tick PROVE IInv'
  OBVIOUS
<1> USE DEF IInv
<1>1. /\ now' = now + 1 /\ now < MaxTime /\ now \in Time
      /\ UNCHANGED <<at, unfit, db, contacts, window, job, missed, events>>
  BY DEF Tick, TypeOK
<1>2. TypeOK'
  BY <1>1 DEF TypeOK, Time
<1>3. ClocksFit'
  <2>1. /\ \A r \in Row : at[r] \in Nat /\ at[r] <= now
        /\ \A s \in Source : window[s] \in Nat /\ window[s] <= now
        /\ \A j \in Job : \A s \in Source : job[j].since[s] \in Nat /\ job[j].since[s] <= now
        /\ \A j \in Job : job[j].started \in Nat /\ job[j].started <= now
    BY DEF TypeOK, ClocksFit, Jobs, Time
  <2>2. now \in Nat
    BY <1>1 DEF Time
  <2>3. \A n \in Nat : n <= now => n <= now + 1
    BY <2>2
  <2> QED
    BY <1>1, <2>1, <2>3 DEF ClocksFit
<1>4. JobsFit'
  BY <1>1 DEF JobsFit, JobFits, PlanFits, PassedFits, AheadFits, Passed, Accounted, Current, Holds
<1>5. PaymentHasInvoice' /\ CopiesFit'
  BY <1>1 DEF PaymentHasInvoice, CopiesFit, Fresher
<1>6. BehindWindowIsStored'
  BY <1>1 DEF BehindWindowIsStored, BehindWindow, Current, Holds
<1> QED
  BY <1>2, <1>3, <1>4, <1>5, <1>6

\* A change in the ERP is after every window; a run that will move its window
\* past it, although it has read the row, overlooks it.
LEMMA ErpWriteKeeps ==
  ASSUME IInv, NEW r \in Row, ErpWrite(r)
  PROVE  IInv'
<1> USE DEF IInv
<1>1. /\ UNCHANGED <<now, db, contacts, window, events>>
      /\ at' = [at EXCEPT ![r] = now] /\ missed' = missed \ {r}
      /\ job' = [k \in Job |-> IF Overlooks(k, r)
                               THEN [job[k] EXCEPT !.skips = @ \cup {r}] ELSE job[k]]
  BY DEF ErpWrite
<1>2. /\ at \in [Row -> Time] /\ now \in Time /\ job \in [Job -> Jobs]
      /\ window \in [Source -> Time] /\ missed \subseteq Row
  BY DEF TypeOK
<1>3. \A x \in Row : at'[x] = IF x = r THEN now ELSE at[x]
  BY <1>1, <1>2
<1>4. ASSUME NEW k \in Job
      PROVE  /\ job'[k].kind = job[k].kind /\ job'[k].stage = job[k].stage
             /\ job'[k].started = job[k].started /\ job'[k].todo = job[k].todo
             /\ job'[k].cur = job[k].cur /\ job'[k].since = job[k].since
             /\ job'[k].plan = job[k].plan /\ job'[k].fresh = job[k].fresh
             /\ job'[k].inserts = job[k].inserts
             /\ job'[k].dead = job[k].dead /\ job'[k].moved = job[k].moved
             /\ job[k].skips \subseteq job'[k].skips
             /\ Overlooks(k, r) => r \in job'[k].skips
             /\ ~Overlooks(k, r) => job'[k] = job[k]
             /\ job'[k] \in Jobs
  <2>1. CASE Overlooks(k, r)
    <3>1. PICK skips \in SUBSET Row : skips = job[k].skips \cup {r}
      BY <1>2 DEF Jobs
    <3>2. job'[k] = [job[k] EXCEPT !.skips = skips] /\ job[k] \in Jobs
      BY <1>1, <1>2, <2>1, <3>1
    <3>3. job'[k] \in Jobs
      BY <3>2 DEF Jobs
    <3> QED
      BY <2>1, <3>1, <3>2, <3>3 DEF Jobs
  <2>2. CASE ~Overlooks(k, r)
    BY <1>1, <1>2, <2>2
  <2> QED
    BY <2>1, <2>2
<1>5. TypeOK'
  <2>1. job' \in [Job -> Jobs]
    BY <1>1, <1>4
  <2>2. unfit' \subseteq Row
    BY DEF ErpWrite, TypeOK
  <2> QED
    BY <1>1, <1>2, <2>1, <2>2 DEF TypeOK
<1>6. ClocksFit'
  BY <1>1, <1>2, <1>3, <1>4 DEF ClocksFit, Time
<1>7. \A x \in Row \ {r} : /\ at'[x] = at[x] /\ (Current(x)' <=> Current(x))
                           /\ (x \in missed' <=> x \in missed)
  BY <1>1, <1>3 DEF Current, Holds
<1>8. JobsFit'
  <2> SUFFICES ASSUME NEW k \in Job
               PROVE  JobFits(k)' /\ PlanFits(k)' /\ PassedFits(k)' /\ AheadFits(k)'
    BY DEF JobsFit
  <2>1. JobFits(k) /\ PlanFits(k) /\ PassedFits(k) /\ AheadFits(k)
    BY DEF JobsFit
  <2>2. JobFits(k)'
    <3>1. job[k].stage = "idle" => ~Overlooks(k, r)
      BY DEF Overlooks
    <3> QED
      BY <1>4, <2>1, <3>1 DEF JobFits
  <2>3. PlanFits(k)'
    BY <1>1, <1>4, <2>1 DEF PlanFits
  <2>4. \A x \in Row : Passed(k, x)' <=> Passed(k, x)
    BY <1>4 DEF Passed
  <2>5. \A x \in Row \ {r} : Accounted(k, x) => Accounted(k, x)'
    BY <1>4, <1>7 DEF Accounted
  <2>6. PassedFits(k)'
    <3> SUFFICES ASSUME NEW x \in Row, 0 < at'[x], Passed(k, x),
                        job[k].kind = "scheduled" => at'[x] < job[k].started
                 PROVE  Accounted(k, x)' \/ job[k].plan[x] = at'[x]
      BY <1>4, <2>4 DEF PassedFits
    <3>1. CASE x # r
      BY <1>7, <2>1, <2>5, <3>1 DEF PassedFits
    <3>2. CASE x = r
      <4>1. job[k].kind # "scheduled"
        <5>1. now \in Nat /\ job[k].started \in Nat /\ job[k].started <= now
          BY <1>2 DEF ClocksFit, Jobs, Time
        <5>2. at'[x] = now
          BY <1>3, <3>2
        <5> QED
          BY <5>1, <5>2
      <4>2. job[k].kind # "quick" /\ job[k].moved # {}
        BY <2>1 DEF Passed, JobFits
      <4>3. job[k].kind = "manual"
        BY <1>2, <4>1, <4>2 DEF Jobs, Kinds
      <4>4. job[k].moved = {job[k].cur} /\ job[k].todo = {} /\ job[k].stage # "idle"
        BY <2>1, <4>2, <4>3, IdleFields DEF JobFits
      <4>5. SourceOf[r] = job[k].cur /\ (job[k].stage = "payments" => r \in Invoice)
        BY <3>2, <4>4 DEF Passed
      <4>6. job[k].stage \in Stages
        BY <1>2 DEF Jobs
      <4>7. Overlooks(k, r)
        BY <4>3, <4>4, <4>5, <4>6 DEF Overlooks, Stages
      <4> QED
        BY <1>4, <3>2, <4>7 DEF Accounted
    <3> QED
      BY <3>1, <3>2
  <2>7. AheadFits(k)'
    <3> SUFFICES ASSUME NEW x \in Row, job[k].kind # "quick", 0 < at'[x], ~Passed(k, x),
                        SourceOf[x] \in job[k].todo \cup job[k].moved,
                        at'[x] < job[k].since[SourceOf[x]]
                 PROVE  Accounted(k, x)'
      BY <1>4, <2>4 DEF AheadFits
    <3>1. x # r
      <4>1. SourceOf[r] \in Source
        OBVIOUS
      <4>2. now \in Nat /\ job[k].since[SourceOf[r]] \in Nat /\ job[k].since[SourceOf[r]] <= now
        BY <1>2, <4>1 DEF ClocksFit, Jobs, Time
      <4> QED
        BY <1>3, <4>2
    <3> QED
      BY <1>7, <2>1, <2>5, <3>1 DEF AheadFits
  <2> QED
    BY <2>2, <2>3, <2>6, <2>7
<1>9. PaymentHasInvoice'
  BY <1>1 DEF PaymentHasInvoice
<1>10. CopiesFit'
  <2>1. \A x \in Row : Fresher(x)' = Fresher(x)
    BY <1>4 DEF Fresher
  <2> QED
    BY <1>1, <2>1 DEF CopiesFit
<1>11. BehindWindowIsStored'
  <2> SUFFICES ASSUME NEW x \in Row, 0 < at'[x], at'[x] < window[SourceOf[x]]
               PROVE  Current(x)' \/ x \in missed'
    BY <1>1 DEF BehindWindowIsStored, BehindWindow
  <2>1. x # r
    <3>1. SourceOf[r] \in Source
      OBVIOUS
    <3>2. now \in Nat /\ window[SourceOf[r]] \in Nat /\ window[SourceOf[r]] <= now
      BY <1>2, <3>1 DEF ClocksFit, Time
    <3> QED
      BY <1>3, <3>2
  <2> QED
    BY <1>7, <2>1 DEF BehindWindowIsStored, BehindWindow
<1> QED
  BY <1>5, <1>6, <1>8, <1>9, <1>10, <1>11

\* What a commit makes of the copies of a row.
LEMMA StoredFacts ==
  ASSUME IInv, NEW j \in Job, NEW r \in Row
  PROVE  /\ Stored(j, r) \in Seq(Time)
         /\ r \in job[j].fresh => Len(Stored(j, r)) = Len(db[r]) + 1
         /\ r \notin job[j].fresh => Len(Stored(j, r)) = Len(db[r])
         /\ job[j].plan[r] > 0 => Stored(j, r) # <<>>
         /\ job[j].plan[r] > 0 /\ job[j].plan[r] = at[r] => Holds(Stored(j, r), r)
         /\ job[j].plan[r] = 0 => Stored(j, r) = db[r]
<1> DEFINE v == job[j].plan[r]
<1>1. db[r] \in Seq(Time) /\ v \in Time /\ v \in Nat
  BY DEF IInv, TypeOK, Jobs, Time
<1>2. /\ r \in job[j].fresh => v > 0
      /\ v > 0 /\ r \notin job[j].fresh => db[r] # <<>>
  BY DEF IInv, JobsFit, PlanFits
<1> HIDE DEF v
<1>3. CASE v = 0
  BY <1>1, <1>2, <1>3 DEF Stored, v
<1>4. CASE v > 0 /\ r \in job[j].fresh
  <2>1. Stored(j, r) = Append(db[r], v)
    BY <1>4 DEF Stored, v
  <2>2. /\ Append(db[r], v) \in Seq(Time) /\ Len(Append(db[r], v)) = Len(db[r]) + 1
        /\ Append(db[r], v)[Len(db[r]) + 1] = v
    BY <1>1
  <2>3. Len(db[r]) + 1 \in DOMAIN Append(db[r], v)
    BY <1>1, <2>2
  <2> QED
    BY <1>4, <2>1, <2>2, <2>3 DEF Holds, v
<1>5. CASE v > 0 /\ r \notin job[j].fresh
  <2>1. Stored(j, r) = [db[r] EXCEPT ![1] = v]
    BY <1>5 DEF Stored, v
  <2>2. db[r] # <<>>
    BY <1>2, <1>5
  <2>3. 1 \in DOMAIN db[r] /\ DOMAIN db[r] = 1 .. Len(db[r])
    BY <1>1, <2>2
  <2>4. /\ [db[r] EXCEPT ![1] = v] \in Seq(Time) /\ Len([db[r] EXCEPT ![1] = v]) = Len(db[r])
        /\ [db[r] EXCEPT ![1] = v][1] = v /\ 1 \in DOMAIN [db[r] EXCEPT ![1] = v]
    BY <1>1, <2>3
  <2> QED
    BY <1>5, <2>1, <2>2, <2>4 DEF Holds, v
<1> QED
  BY <1>1, <1>3, <1>4, <1>5

\* A commit moves the window over rows it has planned or accounted for.
LEMMA CommitKeeps ==
  ASSUME IInv, NEW j \in Job, Commit(j)
  PROVE  IInv'
<1> USE DEF IInv
<1>1. /\ job[j].stage = "next" /\ ~job[j].dead
      /\ db' = [r \in Row |-> Stored(j, r)]
      /\ contacts' = contacts \cup job[j].contacts
      /\ window' = [s \in Source |-> NewWindow(j, s)]
      /\ missed' = (missed \cup job[j].skips \cup TakenBack(j))
                     \ {r \in Row : at[r] > 0 /\ job[j].plan[r] = at[r]}
      /\ job' = [job EXCEPT ![j] = Idle]
      /\ UNCHANGED <<now, at, unfit, events>>
  BY DEF Commit, CanCommit
<1>2. /\ job[j] \in Jobs /\ window \in [Source -> Time] /\ now \in Time /\ missed \subseteq Row
      /\ job[j].started \in Time /\ job[j].skips \subseteq Row /\ job[j].contacts \subseteq Phone
      /\ contacts \subseteq Phone /\ at \in [Row -> Time]
  BY DEF TypeOK, Jobs
<1>3. \A k \in Job : job'[k] = IF k = j THEN Idle ELSE job[k]
  BY <1>1 DEF TypeOK
<1>4. JobFits(j) /\ PlanFits(j) /\ PassedFits(j) /\ AheadFits(j)
  BY DEF JobsFit
<1>5. \A r \in Row : db'[r] = Stored(j, r)
  BY <1>1
<1>6. TypeOK'
  <2>1. db' \in [Row -> Seq(Time)]
    BY <1>1, StoredFacts
  <2>2. window' \in [Source -> Time]
    BY <1>1, <1>2 DEF NewWindow
  <2>3. missed' \subseteq Row
    BY <1>1, <1>2 DEF TakenBack
  <2>4. job' \in [Job -> Jobs]
    BY <1>1, IdleType DEF TypeOK
  <2> QED
    BY <1>1, <1>2, <2>1, <2>2, <2>3, <2>4 DEF TypeOK
<1>7. ClocksFit'
  <2>1. \A s \in Source : NewWindow(j, s) <= now
    BY <1>2 DEF NewWindow, ClocksFit, Time
  <2>2. \A s \in Source : Idle.since[s] <= now
    BY <1>2, IdleFields DEF Time
  <2>3. Idle.started <= now
    BY <1>2, IdleFields DEF Time
  <2> QED
    BY <1>1, <1>3, <2>1, <2>2, <2>3 DEF ClocksFit
<1>8. ASSUME NEW r \in Row, 0 < at[r],
             Current(r) \/ r \in missed \/ r \in job[j].skips \/ job[j].plan[r] = at[r]
      PROVE  Current(r)' \/ r \in missed'
  <2>1. Current(r)' <=> Holds(Stored(j, r), r)
    BY <1>1, <1>5 DEF Current, Holds
  <2>2. CASE job[j].plan[r] = at[r]
    BY <1>8, <2>1, <2>2, StoredFacts
  <2>3. CASE job[j].plan[r] # at[r]
    BY <1>1, <1>8, <2>1, <2>3 DEF Current, TakenBack
  <2> QED
    BY <2>2, <2>3
<1>9. \A r \in Row : db[r] # <<>> => db'[r] # <<>>
  <2> SUFFICES ASSUME NEW r \in Row, db[r] # <<>> PROVE Stored(j, r) # <<>>
    BY <1>5
  <2>1. db[r] \in Seq(Time) /\ Len(db[r]) > 0
    BY DEF TypeOK
  <2>2. Len(Stored(j, r)) > 0
    BY <2>1, StoredFacts
  <2> QED
    BY <2>2
<1>10. JobsFit'
  <2> SUFFICES ASSUME NEW k \in Job
               PROVE  JobFits(k)' /\ PlanFits(k)' /\ PassedFits(k)' /\ AheadFits(k)'
    BY DEF JobsFit
  <2>1. CASE k = j
    BY <1>3, <2>1, IdleFits
  <2>2. CASE k # j
    <3>1. job'[k] = job[k] /\ JobFits(k) /\ PlanFits(k) /\ PassedFits(k) /\ AheadFits(k)
      BY <1>3, <2>2 DEF JobsFit
    <3>2. \A r \in Row : 0 < at[r] /\ Accounted(k, r) => Accounted(k, r)'
      BY <1>8, <3>1 DEF Accounted
    <3>3. \A r \in Row : Passed(k, r)' <=> Passed(k, r)
      BY <3>1 DEF Passed
    <3>4. JobFits(k)'
      BY <3>1 DEF JobFits
    <3>5. PlanFits(k)'
      BY <1>9, <3>1 DEF PlanFits, Row
    <3>6. PassedFits(k)'
      BY <1>1, <3>1, <3>2, <3>3 DEF PassedFits
    <3>7. AheadFits(k)'
      BY <1>1, <3>1, <3>2, <3>3 DEF AheadFits
    <3> QED
      BY <3>4, <3>5, <3>6, <3>7
  <2> QED
    BY <2>1, <2>2
<1>11. PaymentHasInvoice'
  <2> SUFFICES ASSUME NEW p \in Payment, db'[p] # <<>> PROVE db'[InvoiceOf[p]] # <<>>
    BY DEF PaymentHasInvoice
  <2>1. p \in Row /\ InvoiceOf[p] \in Row
    BY DEF Row
  <2>2. CASE db[p] # <<>>
    BY <1>9, <2>1, <2>2 DEF PaymentHasInvoice
  <2>3. CASE db[p] = <<>>
    <3>1. job[j].plan[p] > 0
      <4>1. job[j].plan[p] # 0
        BY <1>5, <2>1, <2>3, StoredFacts
      <4>2. job[j].plan[p] \in Nat
        BY <1>2, <2>1 DEF Jobs, Time
      <4> QED
        BY <4>1, <4>2
    <3>2. db[InvoiceOf[p]] # <<>> \/ job[j].plan[InvoiceOf[p]] > 0
      BY <1>4, <2>1, <3>1 DEF PlanFits
    <3> QED
      BY <1>5, <1>9, <2>1, <3>2, StoredFacts
  <2> QED
    BY <2>2, <2>3
<1>12. CopiesFit'
  <2> SUFFICES ASSUME NEW r \in Row
               PROVE  Len(db'[r]) + Cardinality(Fresher(r)') <= Cardinality(Job)
    BY DEF CopiesFit
  <2>1. Fresher(r)' = Fresher(r) \ {j}
    BY <1>3, IdleFields DEF Fresher
  <2>2. IsFiniteSet(Fresher(r)) /\ Cardinality(Fresher(r)) \in Nat
    BY FS_Subset, FS_CardinalityType DEF Fresher
  <2>3. Len(db[r]) \in Nat /\ Cardinality(Job) \in Nat
    BY FS_CardinalityType DEF TypeOK
  <2>4. Len(db[r]) + Cardinality(Fresher(r)) <= Cardinality(Job)
    BY DEF CopiesFit
  <2>5. CASE r \in job[j].fresh
    <3>1. j \in Fresher(r)
      BY <2>5 DEF Fresher
    <3>2. Cardinality(Fresher(r) \ {j}) = Cardinality(Fresher(r)) - 1
      BY <2>2, <3>1, FS_RemoveElement
    <3>3. Len(db'[r]) = Len(db[r]) + 1
      BY <1>5, <2>5, StoredFacts
    <3> QED
      BY <2>1, <2>2, <2>3, <2>4, <3>2, <3>3
  <2>6. CASE r \notin job[j].fresh
    <3>1. Fresher(r) \ {j} = Fresher(r)
      BY <2>6 DEF Fresher
    <3>2. Len(db'[r]) = Len(db[r])
      BY <1>5, <2>6, StoredFacts
    <3> QED
      BY <2>1, <2>4, <3>1, <3>2
  <2> QED
    BY <2>5, <2>6
<1>13. BehindWindowIsStored'
  <2> SUFFICES ASSUME NEW r \in Row, 0 < at[r], at[r] < NewWindow(j, SourceOf[r])
               PROVE  Current(r)' \/ r \in missed'
    BY <1>1 DEF BehindWindowIsStored, BehindWindow
  <2>1. CASE SourceOf[r] \notin job[j].moved
    BY <1>8, <2>1 DEF NewWindow, BehindWindowIsStored, BehindWindow
  <2>2. CASE SourceOf[r] \in job[j].moved
    <3>1. Passed(j, r)
      BY <1>1, <2>2 DEF Passed
    <3>2. job[j].kind = "scheduled" => at[r] < job[j].started
      BY <2>2 DEF NewWindow
    <3>3. Accounted(j, r) \/ job[j].plan[r] = at[r]
      BY <1>4, <3>1, <3>2 DEF PassedFits
    <3> QED
      BY <1>8, <3>3 DEF Accounted
  <2> QED
    BY <2>1, <2>2
<1> QED
  BY <1>6, <1>7, <1>10, <1>11, <1>12, <1>13

\* A job that ends without a commit leaves nothing.
LEMMA LostKeeps ==
  ASSUME IInv, NEW j \in Job, DeadlockVictim(j) \/ FlushFails(j) \/ CommitFails(j) \/ Crash(j)
  PROVE  IInv'
<1> USE DEF IInv
<1>1. UNCHANGED <<now, at, unfit, db, contacts, window, missed>> /\ events' \in Nat /\ 0 <= now
  BY DEF DeadlockVictim, FlushFails, CommitFails, Crash, Fault, TypeOK, Time
<1>2. CASE job' = [job EXCEPT ![j] = Doomed(j)]
  <2>1. job'[j] = Doomed(j) /\ job' = [job EXCEPT ![j] = job'[j]]
    BY <1>2 DEF TypeOK
  <2> QED
    BY <1>1, <2>1, DoomedFits, JobStepKeeps
<1>3. CASE job' = [job EXCEPT ![j] = Idle]
  <2>1. job'[j] = Idle /\ job' = [job EXCEPT ![j] = job'[j]]
    BY <1>3 DEF TypeOK
  <2> QED
    BY <1>1, <2>1, IdleType, IdleFields, IdleFits, JobStepKeeps
<1> QED
  BY <1>2, <1>3 DEF DeadlockVictim, FlushFails, CommitFails, Crash

LEMMA NextIInv == IInv /\ [Next]_vars => IInv'
<1> SUFFICES ASSUME IInv, [Next]_vars PROVE IInv'
  OBVIOUS
<1>1. CASE UNCHANGED vars
  BY <1>1 DEF vars, IInv, TypeOK, ClocksFit, JobsFit, JobFits, PlanFits, PassedFits, AheadFits,
              Passed, Accounted, Current, Holds, PaymentHasInvoice, CopiesFit, Fresher,
              BehindWindowIsStored, BehindWindow
<1>2. CASE Next
  BY <1>2, TickKeeps, ErpWriteKeeps, StartScheduledKeeps, StartManualKeeps, StartQuickKeeps,
     ConnectFailsKeeps, SyncInvoicesKeeps, SyncPaymentsKeeps, SyncCustomersKeeps,
     InsertContactKeeps, CommitKeeps, LostKeeps DEF Next, Step
<1> QED
  BY <1>1, <1>2

LEMMA InvIInv == Spec => []IInv
  BY InitIInv, NextIInv, PTL DEF Spec
-----------------------------------------------------------------------------
\* The variables keep their types.
THEOREM SyncTypes == Spec => []TypeOK
<1>1. IInv => TypeOK
  BY DEF IInv
<1> QED
  BY InvIInv, <1>1, PTL

\* A row that no incremental run will ask for again is stored as it is in the
\* ERP, or a committed run has left it behind or taken it back.
THEOREM WindowsAreCovered == Spec => []BehindWindowIsStored
<1>1. IInv => BehindWindowIsStored
  BY DEF IInv
<1> QED
  BY InvIInv, <1>1, PTL

\* No payment is stored without its invoice.
THEOREM PaymentsHaveInvoices == Spec => []PaymentHasInvoice
<1>1. IInv => PaymentHasInvoice
  BY DEF IInv
<1> QED
  BY InvIInv, <1>1, PTL

\* A row is stored at most once for each of the jobs that can overlap.
THEOREM CopiesAreBounded == Spec => []CopiesBounded
<1>1. IInv => CopiesBounded
  <2> SUFFICES ASSUME IInv, NEW r \in Row PROVE Len(db[r]) <= Cardinality(Job)
    BY DEF CopiesBounded
  <2>1. Len(db[r]) + Cardinality(Fresher(r)) <= Cardinality(Job) /\ Len(db[r]) \in Nat
    BY DEF IInv, CopiesFit, TypeOK
  <2>2. IsFiniteSet(Fresher(r))
    BY FS_Subset DEF Fresher
  <2>3. Cardinality(Fresher(r)) \in Nat /\ Cardinality(Job) \in Nat
    BY <2>2, FS_CardinalityType
  <2> QED
    BY <2>1, <2>3
<1> QED
  BY InvIInv, <1>1, PTL

LEMMA FrozenStays ==
  ASSUME IInv, Next, NEW r \in Row, Frozen(r)
  PROVE  Frozen(r)' /\ db'[r] = db[r]
<1>1. Ambiguous(r) /\ \A k \in Job : job[k].plan[r] = 0
  BY DEF Frozen, Ambiguous
<1>2. job \in [Job -> Jobs]
  BY DEF IInv, TypeOK
<1> SUFFICES db'[r] = db[r] /\ \A k \in Job : job'[k].plan[r] = 0
  BY DEF Frozen
<1>3. ASSUME NEW j \in Job, NEW v, job' = [job EXCEPT ![j] = v], v.plan[r] = 0, db'[r] = db[r]
      PROVE  db'[r] = db[r] /\ \A k \in Job : job'[k].plan[r] = 0
  BY <1>1, <1>2, <1>3
<1>4. ASSUME NEW j \in Job, NEW rows \in SUBSET Row, r \notin rows, job'[j].plan = Plan(j, rows),
             \A k \in Job \ {j} : job'[k] = job[k], UNCHANGED db
      PROVE  db'[r] = db[r] /\ \A k \in Job : job'[k].plan[r] = 0
  BY <1>1, <1>4 DEF Plan
<1>5. ASSUME Tick \/ \E x \in Row : ErpWrite(x)
      PROVE  db'[r] = db[r] /\ \A k \in Job : job'[k].plan[r] = 0
  <2>1. CASE Tick
    BY <1>1, <2>1 DEF Tick
  <2>2. ASSUME NEW x \in Row, ErpWrite(x)
        PROVE  UNCHANGED db /\ \A k \in Job : job'[k].plan = job[k].plan
    BY <1>2, <2>2 DEF ErpWrite, Jobs
  <2> QED
    BY <1>1, <1>5, <2>1, <2>2
<1>6. ASSUME NEW j \in Job, \/ StartScheduled(j) \/ DeadlockVictim(j) \/ FlushFails(j) \/ CommitFails(j) \/ Crash(j)
                            \/ \E s \in Source : StartManual(j, s) \/ StartQuick(j, s)
      PROVE  db'[r] = db[r] /\ \A k \in Job : job'[k].plan[r] = 0
  <2>1. UNCHANGED db
    BY <1>6 DEF StartScheduled, StartManual, StartQuick, DeadlockVictim, FlushFails, CommitFails, Crash
  <2>2. CASE StartScheduled(j)
    <3>1. PICK due : job' = [job EXCEPT ![j] = [Idle EXCEPT
                       !.kind = "scheduled", !.stage = "next",
                       !.started = now, !.todo = due, !.since = window]]
      BY <2>2 DEF StartScheduled
    <3>2. [Idle EXCEPT !.kind = "scheduled", !.stage = "next",
                       !.started = now, !.todo = due, !.since = window].plan[r] = 0
      BY DEF Idle, Nothing
    <3> QED
      BY <1>3, <2>1, <3>1, <3>2
  <2>3. ASSUME NEW s \in Source, StartManual(j, s)
        PROVE  db'[r] = db[r] /\ \A k \in Job : job'[k].plan[r] = 0
    <3>1. PICK since, skips : job' = [job EXCEPT ![j] = [Idle EXCEPT
            !.kind = "manual", !.stage = "next", !.todo = {s}, !.since = since, !.skips = skips]]
      BY <2>3 DEF StartManual
    <3>2. [Idle EXCEPT !.kind = "manual", !.stage = "next", !.todo = {s},
                       !.since = since, !.skips = skips].plan[r] = 0
      BY DEF Idle, Nothing
    <3> QED
      BY <1>3, <2>1, <3>1, <3>2
  <2>4. ASSUME NEW s \in Source, StartQuick(j, s)
        PROVE  db'[r] = db[r] /\ \A k \in Job : job'[k].plan[r] = 0
    <3>1. [Idle EXCEPT !.stage = "next", !.todo = {s}].plan[r] = 0
      BY DEF Idle, Nothing
    <3> QED
      BY <1>3, <2>1, <2>4, <3>1 DEF StartQuick
  <2>5. CASE DeadlockVictim(j) \/ FlushFails(j)
    <3>1. Doomed(j).plan[r] = 0
      BY DEF Doomed, Idle, Nothing
    <3> QED
      BY <1>3, <2>1, <2>5, <3>1 DEF DeadlockVictim, FlushFails
  <2>6. CASE CommitFails(j) \/ Crash(j)
    BY <1>3, <2>1, <2>6, IdleFields DEF CommitFails, Crash
  <2> QED
    BY <1>6, <2>2, <2>3, <2>4, <2>5, <2>6
<1>7. ASSUME NEW j \in Job, NEW s \in Source, SyncInvoices(j, s)
      PROVE  db'[r] = db[r] /\ \A k \in Job : job'[k].plan[r] = 0
  <2>1. PICK rows \in SUBSET Row : r \notin rows /\ job'[j].plan = Plan(j, rows)
    <3> DEFINE asked == RowsOf(s, job[j].since[s], Invoice)
    <3>1. PICK got \in SUBSET asked, failed \in SUBSET asked :
            job' = [job EXCEPT ![j].stage = "payments", ![j].cur = s, ![j].todo = @ \ {s},
                               ![j].moved = @ \cup Moves(j, s),
                               ![j].plan = Plan(j, Storable(got)),
                               ![j].fresh = Fresh(j, Storable(got)),
                               ![j].inserts = NewPhones(j, Storable(got) \cup failed),
                               ![j].skips = @ \cup (asked \ Storable(got))]
      BY <1>7 DEF SyncInvoices
    <3> DEFINE plan == Plan(j, Storable(got))
    <3>4. PICK todo, moved, fresh, new, skips :
            job'[j] = [job[j] EXCEPT !.stage = "payments", !.cur = s, !.todo = todo,
                                     !.moved = moved, !.plan = plan, !.fresh = fresh,
                                     !.inserts = new, !.skips = skips]
      BY <1>2, <3>1
    <3> HIDE DEF plan
    <3>5. job'[j].plan = plan
      BY <1>2, <3>4 DEF Jobs
    <3>3. job'[j].plan = Plan(j, Storable(got))
      BY <3>5 DEF plan
    <3>2. Storable(got) \in SUBSET Row /\ r \notin Storable(got)
      BY <1>1 DEF RowsOf, Row, Storable
    <3> QED
      BY <1>1, <3>2, <3>3
  <2>2. UNCHANGED db /\ \A k \in Job \ {j} : job'[k] = job[k]
    BY <1>2, <1>7 DEF SyncInvoices
  <2> QED
    BY <1>4, <2>1, <2>2
<1>8. ASSUME NEW j \in Job, SyncPayments(j)
      PROVE  db'[r] = db[r] /\ \A k \in Job : job'[k].plan[r] = 0
  <2>1. PICK rows \in SUBSET Row : r \notin rows /\ job'[j].plan = Plan(j, rows)
    <3> DEFINE asked == RowsOf(job[j].cur, job[j].since[job[j].cur], Payment)
               rows(got) == {p \in Storable(got) : Visible(j, InvoiceOf[p]) = 1}
    <3>1. PICK got \in SUBSET asked :
            job' = [job EXCEPT ![j].stage = "customers",
                               ![j].plan = Plan(j, rows(got)), ![j].fresh = Fresh(j, rows(got)),
                               ![j].skips = @ \cup (asked \ rows(got))]
      BY <1>8 DEF SyncPayments
    <3>3. job'[j].plan = Plan(j, {p \in Storable(got) : Visible(j, InvoiceOf[p]) = 1})
      BY <1>2, <3>1 DEF Jobs
    <3>2. Storable(got) \in SUBSET Row /\ r \notin Storable(got)
      BY <1>1 DEF RowsOf, Row, Storable
    <3> QED
      BY <1>1, <3>2, <3>3
  <2>2. UNCHANGED db /\ \A k \in Job \ {j} : job'[k] = job[k]
    BY <1>2, <1>8 DEF SyncPayments
  <2> QED
    BY <1>4, <2>1, <2>2
<1>9. ASSUME NEW j \in Job, \/ SyncCustomers(j) \/ \E s \in Source : ConnectFails(j, s)
                            \/ \E f \in Phone : InsertContact(j, f)
      PROVE  db'[r] = db[r] /\ \A k \in Job : job'[k].plan[r] = 0
  <2>1. UNCHANGED db /\ \A k \in Job \ {j} : job'[k] = job[k]
    BY <1>2, <1>9 DEF SyncCustomers, ConnectFails, InsertContact
  <2>2. job'[j].plan = job[j].plan \/ job'[j].plan[r] = 0
    <3>1. ASSUME SyncCustomers(j) PROVE job'[j].plan = job[j].plan
      BY <1>2, <3>1 DEF SyncCustomers, Jobs
    <3>2. ASSUME NEW s \in Source, ConnectFails(j, s) PROVE job'[j].plan = job[j].plan
      BY <1>2, <3>2 DEF ConnectFails, Jobs
    <3>3. ASSUME NEW f \in Phone, InsertContact(j, f)
          PROVE  job'[j].plan = job[j].plan \/ job'[j].plan[r] = 0
      <4>1. CASE job' = [job EXCEPT ![j] = Doomed(j)]
        BY <1>2, <4>1 DEF Doomed, Idle, Nothing
      <4>2. CASE job' = [job EXCEPT ![j].inserts = @ \ {f}, ![j].contacts = @ \cup {f}]
        BY <1>2, <4>2 DEF Jobs
      <4> QED
        BY <3>3, <4>1, <4>2 DEF InsertContact
    <3> QED
      BY <1>9, <3>1, <3>2, <3>3
  <2> QED
    BY <1>1, <2>1, <2>2
<1>10. ASSUME NEW j \in Job, Commit(j)
       PROVE  db'[r] = db[r] /\ \A k \in Job : job'[k].plan[r] = 0
  <2>1. db'[r] = db[r]
    BY <1>1, <1>10, StoredFacts DEF Commit
  <2> QED
    BY <1>3, <1>10, <2>1, IdleFields DEF Commit
<1> QED
  BY <1>5, <1>6, <1>7, <1>8, <1>9, <1>10 DEF Next, Step

\* A row stored twice is never mended, and never stored a third time once the
\* runs that had looked it up before are over.
THEOREM DuplicatesAreFrozen == Spec => DuplicateIsFrozen
<1>1. ASSUME IInv, [Next]_vars
      PROVE  [\A r \in Row : Frozen(r) => Frozen(r)' /\ db'[r] = db[r]]_vars
  BY <1>1, FrozenStays
<1> QED
  BY InvIInv, <1>1, PTL DEF Spec, DuplicateIsFrozen
-----------------------------------------------------------------------------
(* Runs that advance. *)

\* A job on a circle has a contact to insert, and so has not ended.
LEMMA CirclesInsert ==
  ASSUME NEW j \in Job, Deadlocked(j)
  PROVE  job[j].inserts # {}
<1> DEFINE waits == {e \in Job \X Job : MayWaitFor(e[1], e[2])}
<1>1. \E k \in Job : <<j, k>> \in waits
  <2> HIDE DEF waits
  <2>1. OnCircle(j, Job, waits)
    BY DEF Deadlocked, waits
  <2> QED
    BY <2>1, CircleNeighbours
<1>2. \E k \in Job : MayWaitFor(j, k)
  BY <1>1
<1> QED
  BY <1>2 DEF MayWaitFor

\* A step of a run brings it closer to its end and leaves the others alone.
LEMMA StepAdvances ==
  ASSUME IInv, NEW j \in Job, Step(j) \/ FlushFails(j) \/ Crash(j) \/ \E s \in Source : ConnectFails(j, s)
  PROVE  /\ job[j].stage # "idle" => Closer(job'[j], job[j])
         /\ Step(j) => job[j].stage # "idle"
         /\ \A k \in Job \ {j} : job'[k] = job[k]
<1>1. job \in [Job -> Jobs] /\ job[j] \in Jobs
  BY DEF IInv, TypeOK
<1>2. JobFits(j)
  BY DEF IInv, JobsFit
<1>3. ASSUME NEW s \in Source, SyncInvoices(j, s)
      PROVE  job[j].stage = "next" /\ Closer(job'[j], job[j])
  <2> DEFINE left == job[j].todo \ {s}
  <2>2. job[j].stage = "next" /\ s \in job[j].todo
    BY <1>3 DEF SyncInvoices
  <2>3. PICK got, failed :
          job' = [job EXCEPT ![j].stage = "payments", ![j].cur = s, ![j].todo = @ \ {s},
                             ![j].moved = @ \cup Moves(j, s),
                             ![j].plan = Plan(j, Storable(got)),
                             ![j].fresh = Fresh(j, Storable(got)),
                             ![j].inserts = NewPhones(j, Storable(got) \cup failed),
                             ![j].skips = @ \cup (RowsOf(s, job[j].since[s], Invoice)
                                                    \ Storable(got))]
    BY <1>3 DEF SyncInvoices
  <2>4. PICK moved, plan, fresh, new, skips :
        job'[j] = [job[j] EXCEPT !.stage = "payments", !.cur = s, !.todo = left,
                                 !.moved = moved, !.plan = plan, !.fresh = fresh,
                                 !.inserts = new, !.skips = skips]
    BY <1>1, <2>3
  <2>5. job'[j].todo = left
    <3> HIDE DEF left
    <3> QED
      BY <1>1, <2>4 DEF Jobs
  <2>1. job[j].stage = "next" /\ s \in job[j].todo /\ job'[j].todo = job[j].todo \ {s}
    BY <2>2, <2>5
  <2> QED
    BY <2>1 DEF Closer
<1>4. ASSUME SyncPayments(j)
      PROVE  job[j].stage = "payments" /\ Closer(job'[j], job[j])
  <2>2. job[j].stage = "payments"
    BY <1>4 DEF SyncPayments
  <2>3. PICK plan, fresh, skips :
          job' = [job EXCEPT ![j].stage = "customers",
                             ![j].plan = plan, ![j].fresh = fresh, ![j].skips = skips]
    BY <1>4 DEF SyncPayments
  <2>1. /\ job[j].stage = "payments" /\ job'[j].stage = "customers"
        /\ job'[j].todo = job[j].todo
    BY <1>1, <2>2, <2>3 DEF Jobs
  <2> QED
    BY <2>1 DEF Closer, KindsLeft
<1>5. ASSUME SyncCustomers(j)
      PROVE  job[j].stage = "customers" /\ Closer(job'[j], job[j])
  <2>1. /\ job[j].stage = "customers" /\ job'[j].stage = "next"
        /\ job'[j].todo = job[j].todo
    BY <1>1, <1>5 DEF SyncCustomers, Jobs
  <2> QED
    BY <2>1 DEF Closer, KindsLeft
<1>6. ASSUME job' = [job EXCEPT ![j] = Doomed(j)],
             job[j].inserts # {} \/ (job[j].stage # "idle" /\ ~CanCommit(j))
      PROVE  job[j].stage # "idle" /\ Closer(job'[j], job[j])
  <2>1. job'[j].stage = "next" /\ job'[j].todo = {} /\ job'[j].inserts = {}
    BY <1>1, <1>6 DEF Doomed, Idle
  <2>2. job[j].stage \in {"next", "payments", "customers"}
    BY <1>1, <1>2, <1>6, IdleFields DEF JobFits, Jobs, Stages
  <2>3. CASE job[j].todo # {} \/ job[j].stage # "next"
    BY <2>1, <2>2, <2>3 DEF Closer, KindsLeft
  <2>4. CASE job[j].todo = {} /\ job[j].stage = "next"
    <3>1. job[j].inserts # {}
      BY <1>6, <2>4 DEF CanCommit
    <3> QED
      BY <2>1, <2>4, <3>1 DEF Closer, KindsLeft
  <2> QED
    BY <2>2, <2>3, <2>4
<1>7. ASSUME NEW f \in Phone, InsertContact(j, f)
      PROVE  job[j].stage # "idle" /\ Closer(job'[j], job[j])
  <2>1. f \in job[j].inserts
    BY <1>7 DEF InsertContact, CanInsert
  <2>2. CASE job' = [job EXCEPT ![j].inserts = @ \ {f}, ![j].contacts = @ \cup {f}]
    <3>1. /\ job'[j].todo = job[j].todo /\ job'[j].stage = job[j].stage
          /\ job'[j].inserts = job[j].inserts \ {f}
      BY <1>1, <2>2 DEF Jobs
    <3>2. job[j].stage # "idle"
      BY <1>2, <2>1, IdleFields DEF JobFits
    <3>3. KindsLeft(job[j].stage) <= KindsLeft(job[j].stage)
      BY <1>1 DEF KindsLeft
    <3> QED
      BY <2>1, <3>1, <3>2, <3>3 DEF Closer
  <2> QED
    BY <1>6, <1>7, <2>1, <2>2 DEF InsertContact
<1>8. ASSUME DeadlockVictim(j)
      PROVE  job[j].stage # "idle" /\ Closer(job'[j], job[j])
  BY <1>6, <1>8, CirclesInsert DEF DeadlockVictim
<1>9. ASSUME job' = [job EXCEPT ![j] = Idle], job[j].stage # "idle"
      PROVE  Closer(job'[j], job[j])
  <2>1. job'[j].stage = "idle" /\ job'[j].todo = {}
    BY <1>1, <1>9, IdleFields
  <2>2. job[j].stage \in {"next", "payments", "customers"}
    BY <1>1, <1>9 DEF Jobs, Stages
  <2> QED
    BY <2>1, <2>2 DEF Closer, KindsLeft
<1>10. ASSUME NEW s \in Source, ConnectFails(j, s)
       PROVE  Closer(job'[j], job[j])
  <2>1. s \in job[j].todo /\ job'[j].todo = job[j].todo \ {s}
    BY <1>1, <1>10 DEF ConnectFails, Jobs
  <2> QED
    BY <2>1 DEF Closer
<1>11. ASSUME Commit(j) \/ CommitFails(j)
       PROVE  job[j].stage = "next" /\ job' = [job EXCEPT ![j] = Idle]
  BY <1>11 DEF Commit, CanCommit, CommitFails
<1>a. ASSUME FlushFails(j)
      PROVE  Closer(job'[j], job[j])
  BY <1>6, <1>a DEF FlushFails
<1>12. ASSUME Crash(j)
       PROVE  job' = [job EXCEPT ![j] = Idle]
  BY <1>12 DEF Crash
<1>13. \A k \in Job \ {j} : job'[k] = job[k]
  <2>1. CASE \E f \in Phone : InsertContact(j, f)
    BY <1>1, <2>1 DEF InsertContact
  <2>2. CASE SyncPayments(j) \/ SyncCustomers(j) \/ DeadlockVictim(j)
    BY <1>1, <2>2 DEF SyncPayments, SyncCustomers, DeadlockVictim
  <2>4. ASSUME NEW s \in Source, SyncInvoices(j, s) PROVE \A k \in Job \ {j} : job'[k] = job[k]
    BY <1>1, <2>4 DEF SyncInvoices
  <2>5. ASSUME NEW s \in Source, ConnectFails(j, s) PROVE \A k \in Job \ {j} : job'[k] = job[k]
    BY <1>1, <2>5 DEF ConnectFails
  <2>6. CASE FlushFails(j)
    BY <1>1, <2>6 DEF FlushFails
  <2>3. CASE Commit(j) \/ CommitFails(j) \/ Crash(j)
    BY <1>1, <1>11, <1>12, <2>3
  <2> QED
    BY <2>1, <2>2, <2>3, <2>4, <2>5, <2>6 DEF Step
<1>14. Step(j) => job[j].stage # "idle" /\ Closer(job'[j], job[j])
  <2> SUFFICES ASSUME Step(j) PROVE job[j].stage # "idle" /\ Closer(job'[j], job[j])
    OBVIOUS
  <2> QED
    BY <1>3, <1>4, <1>5, <1>7, <1>8, <1>9, <1>11 DEF Step
<1> QED
  BY <1>9, <1>10, <1>a, <1>12, <1>13, <1>14

\* No run comes closer to its end for ever.
LEMMA RunsAreFinite == IsWellFoundedOn({e \in Jobs \X Jobs : Closer(e[1], e[2])}, Jobs)
<1> DEFINE R == {e \in Jobs \X Jobs : Closer(e[1], e[2])}
<1>1. ASSUME NEW T \in SUBSET Jobs, T # {}
      PROVE  \E a \in T : \A b \in T : ~Closer(b, a)
  <2>1. PICK todo \in {a.todo : a \in T} :
           \A t \in {a.todo : a \in T} : t \subseteq todo => t = todo
    <3> DEFINE C == {a.todo : a \in T}
    <3>1. C \subseteq SUBSET Source /\ C # {}
      BY <1>1 DEF Jobs
    <3>2. \E S \in C : \A t \in C : t \subseteq S => t = S
      <4> HIDE DEF C
      <4> QED
        BY <3>1, SmallestSet
    <3> QED
      BY <3>2
  <2> DEFINE U == {a \in T : a.todo = todo}
  <2>2. PICK stage \in {a.stage : a \in U} :
           \A t \in {a.stage : a \in U} : KindsLeft(stage) <= KindsLeft(t)
    <3> DEFINE C == {a.stage : a \in U}
    <3>1. C \subseteq Stages /\ C # {}
      BY <1>1 DEF Jobs
    <3>2. \E k \in C : \A t \in C : KindsLeft(k) <= KindsLeft(t)
      <4> HIDE DEF C
      <4>1. CASE "idle" \in C
        BY <3>1, <4>1 DEF KindsLeft, Stages
      <4>2. CASE "idle" \notin C /\ "next" \in C
        BY <3>1, <4>2 DEF KindsLeft, Stages
      <4>3. CASE "idle" \notin C /\ "next" \notin C /\ "customers" \in C
        BY <3>1, <4>3 DEF KindsLeft, Stages
      <4>4. CASE "idle" \notin C /\ "next" \notin C /\ "customers" \notin C
        BY <3>1, <4>4 DEF KindsLeft, Stages
      <4> QED
        BY <4>1, <4>2, <4>3, <4>4
    <3> QED
      BY <3>2
  <2> DEFINE V == {a \in U : a.stage = stage}
  <2>3. PICK inserts \in {a.inserts : a \in V} :
           \A t \in {a.inserts : a \in V} : t \subseteq inserts => t = inserts
    <3> DEFINE C == {a.inserts : a \in V}
    <3>1. C \subseteq SUBSET Phone /\ C # {}
      BY <1>1, <2>2 DEF Jobs
    <3>2. \E S \in C : \A t \in C : t \subseteq S => t = S
      <4> HIDE DEF C
      <4> QED
        BY <3>1, SmallestSet
    <3> QED
      BY <3>2
  <2>4. PICK a \in V : a.inserts = inserts
    BY <2>3
  <2>5. ASSUME NEW b \in T, Closer(b, a) PROVE FALSE
    <3>1. b.todo = todo
      BY <2>1, <2>4, <2>5 DEF Closer
    <3>2. KindsLeft(b.stage) <= KindsLeft(stage) /\ KindsLeft(stage) <= KindsLeft(b.stage)
      BY <2>2, <2>4, <2>5, <3>1 DEF Closer
    <3>3. b.stage \in Stages /\ stage \in Stages
      BY <1>1, <2>4 DEF Jobs
    <3>4. b.stage = stage
      BY <3>2, <3>3 DEF KindsLeft, Stages
    <3>5. b.inserts = inserts
      BY <2>3, <2>4, <2>5, <3>1, <3>4 DEF Closer
    <3> QED
      BY <2>4, <2>5, <3>1, <3>4, <3>5 DEF Closer
  <2> QED
    BY <2>4, <2>5
<1>2. ASSUME NEW T, T \subseteq Jobs, T # {}
      PROVE  \E a \in T : \A b \in T : <<b, a>> \notin R
  BY <1>1, <1>2
<1> QED
  BY <1>2, MinWF

\* Every step of a run brings it closer to its end, nothing takes it back, and
\* it cannot come closer for ever.
THEOREM RunsOnlyAdvance ==
  /\ Spec => RunsAdvance
  /\ IsWellFoundedOn({e \in Jobs \X Jobs : Closer(e[1], e[2])}, Jobs)
<1> DEFINE Kept(j) == UNCHANGED <<job[j].todo, job[j].stage, job[j].inserts>>
           Gain(j) == /\ Step(j) => Closer(job'[j], job[j])
                      /\ Kept(j) \/ Closer(job'[j], job[j])
<1>1. ASSUME IInv, [Next]_vars, NEW j \in Job, job[j].stage # "idle"
      PROVE  Gain(j)
  <2>1. job \in [Job -> Jobs]
    BY <1>1 DEF IInv, TypeOK
  <2>2. Step(j) => Closer(job'[j], job[j])
    BY <1>1, StepAdvances
  <2>3. CASE UNCHANGED vars \/ Tick
    BY <2>2, <2>3 DEF vars, Tick
  <2>4. ASSUME NEW r \in Row, ErpWrite(r) PROVE Kept(j)
    BY <2>1, <2>4 DEF ErpWrite, Jobs
  <2>5. ASSUME NEW k \in Job,
               StartScheduled(k) \/ \E s \in Source : StartManual(k, s) \/ StartQuick(k, s)
        PROVE  Kept(j)
    <3>1. k # j
      BY <1>1, <2>5 DEF StartScheduled, StartManual, StartQuick, Begins
    <3>2. job'[j] = job[j]
      BY <2>1, <2>5, <3>1 DEF StartScheduled, StartManual, StartQuick
    <3> QED
      BY <3>2
  <2>6. ASSUME NEW k \in Job, Step(k) \/ FlushFails(k) \/ Crash(k) \/ \E s \in Source : ConnectFails(k, s)
        PROVE  Kept(j) \/ Closer(job'[j], job[j])
    <3>1. CASE k = j
      BY <1>1, <2>6, <3>1, StepAdvances
    <3>2. CASE k # j
      <4>1. job'[j] = job[j]
        BY <1>1, <2>6, <3>2, StepAdvances
      <4> QED
        BY <4>1
    <3> QED
      BY <3>1, <3>2
  <2> QED
    BY <1>1, <2>2, <2>3, <2>4, <2>5, <2>6 DEF Next
<1>2. IInv /\ [Next]_vars =>
        [\A j \in Job : job[j].stage # "idle" =>
           /\ Step(j) => Closer(job'[j], job[j])
           /\ \/ UNCHANGED <<job[j].todo, job[j].stage, job[j].inserts>>
              \/ Closer(job'[j], job[j])]_vars
  BY <1>1
<1>3. Spec => RunsAdvance
  BY InvIInv, <1>2, PTL DEF Spec, RunsAdvance
<1> QED
  BY <1>3, RunsAreFinite
=============================================================================
