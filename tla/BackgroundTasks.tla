-------------------------- MODULE BackgroundTasks --------------------------
(***************************************************************************)
(* The imports of one tenant and its bulk messages: the throttle in front  *)
(* of the import API, the Celery queue behind it, and the tasks.           *)
(*                                                                         *)
(* The queue delivers at least once: a task is acknowledged when it has    *)
(* ended, goes back to the queue if its worker is lost, and is handed out  *)
(* a second time if it takes longer than the visibility timeout of the     *)
(* broker.  An import that an upload runs itself, inside the request, is   *)
(* neither queued nor repeated.                                            *)
(*                                                                         *)
(* A file of leads is one transaction, which looks every number up and     *)
(* inserts the new ones under a unique index; a batch of files is one      *)
(* transaction after the other.  Call logs and message logs are appended   *)
(* without a look at what is there, and a bulk send goes out before it is  *)
(* logged.                                                                 *)
(*                                                                         *)
(* A row without a usable number, or one that raises before it reaches the *)
(* database, is counted as an error and left out, and a file without a     *)
(* column of numbers is turned down: the task succeeds all the same.       *)
(* Contacts that are deleted by hand are left out.                         *)
(***************************************************************************)
EXTENDS Integers, FiniteSets, WaitCircles

CONSTANTS Task,       \* tasks that may be asked for
          Worker,     \* processes that run one task at a time
          Request,    \* API requests that may overlap
          Phones,     \* the numbers a file of leads may hold
          Limit,      \* MAX_CONCURRENT_IMPORTS
          MaxFaults   \* bound: lost workers, timeouts and rows that cannot be saved

ASSUME LimitAssumption == Limit \in Nat \ {0}
ASSUME FiniteAssumption == IsFiniteSet(Request) /\ IsFiniteSet(Worker) /\ IsFiniteSet(Phones)
ASSUME BoundAssumption == MaxFaults \in Nat

VARIABLES slots,      \* the count under import_semaphore
          passed,     \* the requests between the check of the count and its increment
          task,       \* what each task is asked to do
          queue,      \* the copies of each task in the queue
          result,     \* what the result backend, or the answer of the upload, says
          run,        \* what each worker is at
          contacts,   \* the numbers with a committed contact
          logged,     \* how often the rows of each task have been committed
          sent,       \* how often the messages of each task have gone out
          started,    \* history: how often each task has been started
          faults

throttleVars == <<slots, passed>>
queueVars == <<task, queue, result>>
storeVars == <<contacts, logged, sent>>
vars == <<slots, passed, task, queue, result, run, contacts, logged, sent, started, faults>>
-----------------------------------------------------------------------------
Kinds == {"leads", "batch", "logs", "send"}

\* "inline": the request runs the import itself.
NoTask == [kind |-> "none", phones |-> {}, inline |-> FALSE]
TaskRecords == [kind : Kinds \cup {"none"}, phones : SUBSET Phones, inline : BOOLEAN]

\* "of" holds the task, if any; "rows" is what is left of the current file
\* and "later" what is left of the batch; "row" is the number that was looked
\* up and not found; "adds" are the inserts of the open transaction, "doomed"
\* says that one of its statements has failed, and "out" is the outcome so far:
\* "clean" without an error, "partial" with errors that were counted or with
\* {"error": ...} in place of an import.  Both are Celery's SUCCESS.
Outs == {"clean", "partial", "failure"}
Free == [pc |-> "free", of |-> {}, rows |-> {}, later |-> {}, row |-> {},
         adds |-> {}, doomed |-> FALSE, out |-> "clean"]
Runs == [pc : {"free", "file", "send", "work", "insert", "commit", "ack"},
         of : SUBSET Task, rows : SUBSET Phones, later : SUBSET Phones,
         row : SUBSET Phones, adds : SUBSET Phones, doomed : BOOLEAN, out : Outs]

TypeOK == /\ slots \in Nat
          /\ passed \subseteq Request
          /\ task \in [Task -> TaskRecords]
          /\ queue \in [Task -> Nat]
          /\ result \in [Task -> Outs \cup {"none"}]
          /\ run \in [Worker -> Runs]
          /\ contacts \subseteq Phones
          /\ logged \in [Task -> Nat] /\ sent \in [Task -> Nat] /\ started \in [Task -> Nat]
          /\ faults \in Nat

Init == /\ slots = 0
        /\ passed = {}
        /\ task = [m \in Task |-> NoTask]
        /\ queue = [m \in Task |-> 0]
        /\ result = [m \in Task |-> "none"]
        /\ run = [w \in Worker |-> Free]
        /\ contacts = {}
        /\ logged = [m \in Task |-> 0]
        /\ sent = [m \in Task |-> 0]
        /\ started = [m \in Task |-> 0]
        /\ faults = 0

Fault == faults < MaxFaults /\ faults' = faults + 1
-----------------------------------------------------------------------------
(* The throttle, a dependency of every route of the import API. *)

\* Faulty: the limit itself is let through.
BelowTooFar == slots <= Limit

Below == slots < Limit

\* The count is read and compared ...
Check(q) == /\ q \notin passed
            /\ Below
            /\ passed' = passed \cup {q}
            /\ UNCHANGED <<slots, queueVars, run, storeVars, started, faults>>

\* ... and incremented after that.  Nothing ever decrements it.
Count(q) == /\ q \in passed
            /\ passed' = passed \ {q}
            /\ slots' = slots + 1

\* Without Redis, or when it fails at the check or at the increment, the
\* request goes on without being counted.
FailOpen(q) == passed' = passed \ {q} /\ UNCHANGED slots

Admit(q) == Count(q) \/ FailOpen(q)

\* The routes that list, scan and report may take a slot and start nothing, and
\* so does an upload that is refused or lost after the throttle.
Look(q) == Admit(q) /\ UNCHANGED <<queueVars, run, storeVars, started, faults>>

\* SEMAPHORE_TTL after the last increment the key is gone.
Expire == /\ slots > 0
          /\ slots' = 0
          /\ UNCHANGED <<passed, queueVars, run, storeVars, started, faults>>

Ask(m, kind, phones, inline) ==
    /\ task[m] = NoTask
    /\ task' = [task EXCEPT ![m] = [kind |-> kind, phones |-> phones, inline |-> inline]]
    /\ queue' = [queue EXCEPT ![m] = 1]
    /\ UNCHANGED <<result, run, storeVars, started, faults>>

Import(q, m) == /\ Admit(q)
                /\ \/ \E phones \in (SUBSET Phones) \ {{}}, kind \in {"leads", "batch"},
                         inline \in BOOLEAN : Ask(m, kind, phones, inline)
                   \/ \E inline \in BOOLEAN : Ask(m, "logs", {}, inline)

\* send_bulk_sms is not an import and is not throttled.
SendBulk(m) == Ask(m, "send", {}, FALSE) /\ UNCHANGED throttleVars
-----------------------------------------------------------------------------
(* The workers. *)

FirstStep(kind) == CASE kind = "leads" -> "work"
                     [] kind = "batch" -> "file"
                     [] kind = "send" -> "send"
                     [] OTHER -> "commit"

\* Faulty: a task is handed out however often it is asked for.
HasCopyAlways(m) == task[m] # NoTask

HasCopy(m) == queue[m] > 0

\* What the start of a task may come to: an import whose file has no column of
\* numbers, cannot be decoded or is not there is turned down, and one whose
\* file cannot be read, or a send without a provider, raises.
Openings(m) ==
    {"clean"} \cup (IF task[m].kind # "send" /\ ~task[m].inline THEN {"partial"} ELSE {})
              \cup (IF task[m].kind # "batch" \/ task[m].inline THEN {"failure"} ELSE {})

Opened(m, out) ==
    IF out = "clean"
    THEN [Free EXCEPT !.pc = FirstStep(task[m].kind), !.of = {m},
            !.rows = IF task[m].kind = "leads" THEN task[m].phones ELSE {},
            !.later = IF task[m].kind = "batch" THEN task[m].phones ELSE {}]
    ELSE [Free EXCEPT !.pc = "ack", !.of = {m}, !.out = out]

Deliver(w, m) ==
    /\ run[w].pc = "free"
    /\ HasCopy(m)
    /\ queue' = [queue EXCEPT ![m] = @ - 1]
    /\ \E out \in Openings(m) : run' = [run EXCEPT ![w] = Opened(m, out)]
    /\ started' = [started EXCEPT ![m] = @ + 1]
    /\ UNCHANGED <<throttleVars, task, result, storeVars, faults>>

\* send_bulk answers with a result for every number, whatever has gone wrong.
Send(w) == /\ run[w].pc = "send"
           /\ sent' = [m \in Task |-> IF m \in run[w].of THEN sent[m] + 1 ELSE sent[m]]
           /\ run' = [run EXCEPT ![w].pc = "commit"]
           /\ UNCHANGED <<throttleVars, queueVars, contacts, logged, started, faults>>

\* The errors of a file that a batch passes over: one that cannot be read is
\* counted, one without a column of numbers only if an upload runs the batch.
PassedOver(w) == {"partial"} \cup {run[w].out : m \in {n \in run[w].of : ~task[n].inline}}

\* A batch succeeds whatever has become of its files.
AfterFile(later) == IF later = {} THEN "ack" ELSE "file"

\* The next file of a batch is read, or passed over.
NextFile(w) ==
    /\ run[w].pc = "file"
    /\ \E file \in (SUBSET run[w].later) \ {{}} :
         \/ run' = [run EXCEPT ![w].pc = "work", ![w].rows = file, ![w].later = @ \ file]
         \/ \E out \in PassedOver(w) :
              run' = [run EXCEPT ![w].pc = AfterFile(run[w].later \ file),
                                 ![w].out = out, ![w].later = @ \ file]
    /\ UNCHANGED <<throttleVars, queueVars, storeVars, started, faults>>

\* Faulty: what another import has not yet committed is taken for stored.
FoundInFlight(p) == p \in contacts \/ \E w \in Worker : p \in run[w].adds

Found(p) == p \in contacts

\* get_by_phone; a number that is found is a duplicate.
LookUp(w) ==
    /\ run[w].pc = "work" /\ run[w].rows # {}
    /\ \E p \in run[w].rows :
         IF Found(p)
         THEN run' = [run EXCEPT ![w].rows = @ \ {p}]
         ELSE run' = [run EXCEPT ![w].pc = "insert", ![w].row = {p}]
    /\ UNCHANGED <<throttleVars, queueVars, storeVars, started, faults>>

\* A row without a usable number, or one that raises outside the database, is
\* counted as an error and left out.
SkipRow(w) ==
    /\ run[w].pc = "work"
    /\ \E p \in run[w].rows :
         run' = [run EXCEPT ![w].rows = @ \ {p}, ![w].out = "partial"]
    /\ UNCHANGED <<throttleVars, queueVars, storeVars, started, faults>>

\* The statement fails: the database takes the whole transaction back, and
\* every later row and the commit raise as well, which is what the outcome is.
Doomed(r) == [r EXCEPT !.pc = "commit", !.rows = {}, !.row = {}, !.adds = {},
                       !.doomed = TRUE, !.out = "clean"]

\* The unique index: the insert of a number waits for another transaction
\* that has inserted it.
Blocks(v, w) == v # w /\ run[w].row \cap run[v].adds # {}

Waits(w) == run[w].pc = "insert" /\ \E v \in Worker : Blocks(v, w)

Insert(w) ==
  LET r == run[w]
  IN /\ r.pc = "insert" /\ ~Waits(w)
     /\ run' = [run EXCEPT ![w] =
                  IF r.row \subseteq contacts
                  THEN Doomed(r)
                  ELSE [r EXCEPT !.pc = "work", !.rows = @ \ r.row, !.row = {},
                                 !.adds = @ \cup r.row]]
     /\ UNCHANGED <<throttleVars, queueVars, storeVars, started, faults>>

\* Of the transactions that wait for each other in a circle the database fails
\* one statement.
Deadlocked(w) ==
    OnCircle(w, Worker, {e \in Worker \X Worker : Waits(e[1]) /\ Blocks(e[2], e[1])})

DeadlockVictim(w) ==
    /\ Deadlocked(w)
    /\ run' = [run EXCEPT ![w] = Doomed(@)]
    /\ UNCHANGED <<throttleVars, queueVars, storeVars, started, faults>>

\* A row that the database refuses.
RowFails(w) == /\ run[w].pc \in {"work", "commit"} /\ ~run[w].doomed
               /\ Fault
               /\ run' = [run EXCEPT ![w] = Doomed(@)]
               /\ UNCHANGED <<throttleVars, queueVars, storeVars, started>>

\* The rows are through: all of a file of leads, or those of a log at once.
RowsDone(r) == r.pc = "commit" \/ (r.pc = "work" /\ r.rows = {})

IsBatch(w) == \E m \in run[w].of : task[m].kind = "batch"

AppendsLog(m) == task[m].kind \in {"logs", "send"}

\* After a failed statement the commit raises: the end of the task, or, in a
\* batch, of the file.  The rows of a log that were left out were counted.
Ends(w) == IF run[w].doomed THEN {IF IsBatch(w) THEN "partial" ELSE "failure"}
           ELSE IF \E m \in run[w].of : AppendsLog(m) THEN {"clean", "partial"}
           ELSE {run[w].out}

Commit(w) ==
    /\ RowsDone(run[w])
    /\ IF run[w].doomed
       THEN UNCHANGED <<contacts, logged>>
       ELSE /\ contacts' = contacts \cup run[w].adds
            /\ logged' = [m \in Task |-> IF m \in run[w].of /\ AppendsLog(m)
                                         THEN logged[m] + 1 ELSE logged[m]]
    /\ \E out \in Ends(w) :
         run' = [run EXCEPT ![w] =
                   [@ EXCEPT !.pc = IF IsBatch(w) THEN AfterFile(run[w].later) ELSE "ack",
                             !.adds = {}, !.doomed = FALSE, !.out = out]]
    /\ UNCHANGED <<throttleVars, queueVars, sent, started, faults>>

\* The result is stored and the delivery acknowledged, a failure too.
Ack(w) == /\ run[w].pc = "ack"
          /\ result' = [m \in Task |-> IF m \in run[w].of THEN run[w].out ELSE result[m]]
          /\ run' = [run EXCEPT ![w] = Free]
          /\ UNCHANGED <<throttleVars, task, queue, storeVars, started, faults>>

\* Faulty: the task is acknowledged when it starts.
BackNever(m) == queue[m]

\* A lost worker's task goes back to the queue; an upload's import does not.
Back(m) == IF task[m].inline THEN queue[m] ELSE queue[m] + 1

Requeue(w) == queue' = [m \in Task |-> IF m \in run[w].of THEN Back(m) ELSE queue[m]]

Crash(w) == /\ run[w].pc # "free"
            /\ Fault
            /\ Requeue(w)
            /\ run' = [run EXCEPT ![w] = Free]
            /\ UNCHANGED <<throttleVars, task, result, storeVars, started>>

\* The broker's visibility timeout ends before the task does.
TimesOut(w) == /\ \E m \in run[w].of : ~task[m].inline
               /\ Fault
               /\ Requeue(w)
               /\ UNCHANGED <<throttleVars, task, result, run, storeVars, started>>
-----------------------------------------------------------------------------
Step(w) == \/ Send(w) \/ NextFile(w) \/ LookUp(w) \/ SkipRow(w) \/ Insert(w)
           \/ DeadlockVictim(w) \/ Commit(w) \/ Ack(w)

Next == \/ \E q \in Request : \/ Check(q) \/ Look(q)
                              \/ \E m \in Task : Import(q, m)
        \/ Expire
        \/ \E m \in Task : SendBulk(m)
        \/ \E w \in Worker : \/ \E m \in Task : Deliver(w, m)
                             \/ Step(w) \/ RowFails(w) \/ Crash(w) \/ TimesOut(w)

Spec == Init /\ [][Next]_vars
-----------------------------------------------------------------------------
(* Properties. *)

\* What the result backend says is true, and repeats are paid for.  A lead
\* import that is reported without an error has all its numbers in the database
\* and one that appends has its rows: a success alone, with errors counted or
\* the file turned down, says neither.  The rows are stored, and the messages
\* sent, at most once for every start; nothing is logged that was not sent; and
\* every start after the first is due to a lost worker or a timeout.
ResultIsTrue ==
  \A m \in Task :
    /\ result[m] = "clean" /\ task[m].kind = "leads" => task[m].phones \subseteq contacts
    /\ result[m] = "clean" /\ AppendsLog(m) => logged[m] > 0
    /\ logged[m] <= started[m] /\ sent[m] <= started[m]
    /\ task[m].kind = "send" => logged[m] <= sent[m]
    /\ started[m] + queue[m] <= 1 + faults

\* The check and the increment of the count are apart.  The requests counted
\* since the key last expired pass the limit by no more than those that overlap
\* at the check, each but the first.  It bounds the count and not the imports
\* that run: those may outlast the key, and a request that Redis fails is not
\* counted.
OvershootBounded == slots + Cardinality(passed) < Limit + Cardinality(Request)

\* A task that was accepted is not lost before it has a result, whichever
\* workers are lost: a copy of it is in the queue or a worker has it.
NotLost ==
  \A m \in Task :
    task[m].kind # "none" /\ ~task[m].inline /\ result[m] = "none"
      => queue[m] > 0 \/ \E w \in Worker : m \in run[w].of

\* a is closer to the end of its task than b: less of the batch, of the steps
\* of the current file or of its rows is left.
StepsLeft(pc) == CASE pc \in {"send", "work", "insert"} -> 4 [] pc = "commit" -> 3
                   [] pc = "file" -> 2 [] pc = "ack" -> 1 [] OTHER -> 0
Closer(a, b) ==
  /\ a.later \subseteq b.later
  /\ a.later = b.later => StepsLeft(a.pc) <= StepsLeft(b.pc)
  /\ a.later = b.later /\ StepsLeft(a.pc) = StepsLeft(b.pc) => a.rows \subseteq b.rows
  /\ a.later = b.later /\ StepsLeft(a.pc) = StepsLeft(b.pc) /\ a.rows = b.rows =>
       b.pc = "work" /\ a.pc = "insert"

\* Every step of a worker brings it closer to the end of its task, and no
\* request, fault or other worker takes it back.
WorkersAdvance ==
  [][\A w \in Worker : run[w].pc # "free" =>
       /\ Step(w) => Closer(run'[w], run[w])
       /\ \/ UNCHANGED <<run[w].later, run[w].pc, run[w].rows>>
          \/ Closer(run'[w], run[w])]_vars
-----------------------------------------------------------------------------
(***************************************************************************)
(* The inductive invariant of the proofs: a worker is where its task can   *)
(* be, a task nobody asked for has left no trace, the numbers of a file    *)
(* are stored, inserted or still to come, and a worker that is about to    *)
(* send or commit has been counted as started, but not yet as done.        *)
(***************************************************************************)
Places(kind) == CASE kind = "leads" -> {"work", "insert", "commit", "ack"}
                  [] kind = "batch" -> {"file", "work", "insert", "commit", "ack"}
                  [] kind = "logs" -> {"commit", "ack"}
                  [] kind = "send" -> {"send", "commit", "ack"}
                  [] OTHER -> {}

HoldsOne == \A w \in Worker :
              \/ run[w].pc = "free" /\ run[w].of = {}
              \/ \E m \in Task : run[w].of = {m} /\ run[w].pc \in Places(task[m].kind)

NoTrace == \A m \in Task : task[m].kind = "none" =>
             /\ queue[m] = 0 /\ started[m] = 0 /\ result[m] = "none"
             /\ logged[m] = 0 /\ sent[m] = 0

LeadsFit == \A w \in Worker : \A m \in run[w].of :
              task[m].kind = "leads" /\ run[w].out = "clean" =>
                /\ run[w].pc \in {"work", "insert"} =>
                     task[m].phones \subseteq contacts \cup run[w].adds \cup run[w].rows
                /\ run[w].pc = "commit" => run[w].doomed
                /\ run[w].pc = "ack" => task[m].phones \subseteq contacts

LogsFit == \A w \in Worker : \A m \in run[w].of :
             AppendsLog(m) /\ run[w].pc = "ack" /\ run[w].out = "clean" => logged[m] > 0

At(f, m, pc) == {w \in Worker : m \in f[w].of /\ f[w].pc = pc}

Counted == \A m \in Task :
             /\ sent[m] + Cardinality(At(run, m, "send")) <= started[m]
             /\ IF AppendsLog(m)
                THEN logged[m] + Cardinality(At(run, m, "commit"))
                       <= IF task[m].kind = "send" THEN sent[m] ELSE started[m]
                ELSE logged[m] = 0
             /\ started[m] + queue[m] <= 1 + faults

ResultsFit == \A m \in Task : result[m] = "clean" =>
                /\ task[m].kind = "leads" => task[m].phones \subseteq contacts
                /\ AppendsLog(m) => logged[m] > 0

IInv == /\ TypeOK /\ HoldsOne /\ NoTrace /\ LeadsFit /\ LogsFit
        /\ Counted /\ ResultsFit /\ NotLost

\* A worker inserts a row of the current file.
RowFits(r) == r.pc = "insert" => \E p \in r.rows : r.row = {p}
RowsFit == \A w \in Worker : RowFits(run[w])
=============================================================================
