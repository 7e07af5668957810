---------------------------- MODULE ExternalTask ----------------------------
(***************************************************************************)
(* The Camunda external-task worker: src/infrastructure/camunda/workers/   *)
(* base.py and the external-task calls of client.py.                       *)
(*                                                                         *)
(* Every API replica runs one ExternalTaskWorkerRunner, and all of them    *)
(* fetch under the same worker id (config.py), so the engine cannot tell   *)
(* a report of the replica that holds the lock from a late report of one   *)
(* whose lock has expired.  The engine is external and is modelled by what *)
(* those calls make it do.                                                 *)
(***************************************************************************)
EXTENDS Integers, FiniteSets, Sequences

CONSTANTS Replica,     \* API processes, each with a runner
          Task,        \* external tasks the engine will create
          Topics,      \* the topics in the order they were registered
          TopicOf,     \* the topic of each task
          MaxTasks,    \* settings.worker_max_tasks
          MaxRetries,  \* settings.task_max_retries
          MaxFaults    \* bound: crashes, lost messages and outrun locks

ASSUME SettingsAssumption == /\ MaxTasks \in Nat \ {0}
                             /\ MaxRetries \in Nat \ {0}
                             /\ MaxFaults \in Nat

ASSUME TopicsAssumption == /\ Len(Topics) \in Nat \ {0}
                           /\ TopicOf \in [Task -> {Topics[i] : i \in 1..Len(Topics)}]

VARIABLES status,    \* engine: what has become of each task
          lock,      \* engine: its lock; "backoff" is a lock kept as retry timeout
          retries,   \* engine: retries left, Unset until a failure is reported
          phase,     \* runner: where it is in run() and _poll_topic
          topic,     \* runner: index of the topic it polls next
          batch,     \* runner: fetched and not yet begun
          current,   \* runner: the task being processed
          returned,  \* history: how often the task's handler returned
          raised,    \* history: how often it raised
          faults     \* bound: the faults so far

engineVars == <<status, lock, retries>>
runnerVars == <<phase, topic, batch, current>>
historyVars == <<returned, raised>>
vars == <<engineVars, runnerVars, historyVars, faults>>
-----------------------------------------------------------------------------
Unset == -1
RetryCount == Unset..MaxRetries

Statuses == {"none", "open", "completed", "error"}
Locks == {"free", "held", "backoff"}
Phases == {"down", "loop", "handling", "completing", "throwing", "failing"}

\* A fetched task as the runner sees it: the retries are those of the fetch.
Fetched == [task : Task, retries : RetryCount]

TypeOK == /\ status \in [Task -> Statuses]
          /\ lock \in [Task -> Locks]
          /\ retries \in [Task -> RetryCount]
          /\ phase \in [Replica -> Phases]
          /\ topic \in [Replica -> 1..Len(Topics)]
          /\ batch \in [Replica -> SUBSET Fetched]
          /\ current \in [Replica -> SUBSET Fetched]
          /\ returned \in [Task -> Nat]
          /\ raised \in [Task -> Nat]
          /\ faults \in 0..MaxFaults

Init == /\ status = [t \in Task |-> "none"]
        /\ lock = [t \in Task |-> "free"]
        /\ retries = [t \in Task |-> Unset]
        /\ phase = [r \in Replica |-> "down"]
        /\ topic = [r \in Replica |-> 1]
        /\ batch = [r \in Replica |-> {}]
        /\ current = [r \in Replica |-> {}]
        /\ returned = [t \in Task |-> 0]
        /\ raised = [t \in Task |-> 0]
        /\ faults = 0
-----------------------------------------------------------------------------
Fault == faults < MaxFaults /\ faults' = faults + 1

Incident(t) == status[t] = "open" /\ retries[t] = 0

\* fetchAndLock hands out tasks that are unlocked and not out of retries.
Fetchable(i) == {t \in Task : /\ status[t] = "open"
                              /\ lock[t] = "free"
                              /\ retries[t] # 0
                              /\ TopicOf[t] = Topics[i]}

\* The tasks a live runner still has in hand, whoever holds their locks.
InHand(r) == {w.task : w \in batch[r] \cup current[r]}

\* Faulty: every poll starts over at the first topic.
NextTopicStuck(i) == 1

NextTopic(i) == IF i = Len(Topics) THEN 1 ELSE i + 1

\* Faulty: the default is not applied to a task that has no count yet.
RetriesAfterNoDefault(w) == w.retries - 1

\* Faulty: the default is one short.
RetriesAfterShort(w) ==
  (IF w.retries \in {Unset, 0} THEN MaxRetries - 1 ELSE w.retries) - 1

\* (task.retries or task_max_retries) - 1, never below 0.
RetriesAfter(w) == (IF w.retries \in {Unset, 0} THEN MaxRetries ELSE w.retries) - 1

\* The engine's task is gone, with the given outcome.
Settle(t, outcome) == /\ status' = [status EXCEPT ![t] = outcome]
                      /\ lock' = [lock EXCEPT ![t] = "free"]
                      /\ retries' = [retries EXCEPT ![t] = Unset]
-----------------------------------------------------------------------------
(***************************************************************************)
(* The engine on its own.                                                  *)
(***************************************************************************)
Create(t) == /\ status[t] = "none"
             /\ status' = [status EXCEPT ![t] = "open"]
             /\ retries' = [retries EXCEPT ![t] = Unset]
             /\ UNCHANGED <<lock, runnerVars, historyVars, faults>>

\* The lock of a task nobody works on any more (a crash, a lost fetch) expires.
LockExpires(t) == /\ lock[t] = "held"
                  /\ \A r \in Replica : t \notin InHand(r)
                  /\ lock' = [lock EXCEPT ![t] = "free"]
                  /\ UNCHANGED <<status, retries, runnerVars, historyVars, faults>>

\* The lock expires while a replica still has the task in hand: tasks of one
\* batch share the start of their lock time and are processed one by one.
LockOutrun(t) == /\ lock[t] = "held"
                 /\ \E r \in Replica : t \in InHand(r)
                 /\ Fault
                 /\ lock' = [lock EXCEPT ![t] = "free"]
                 /\ UNCHANGED <<status, retries, runnerVars, historyVars>>

BackoffEnds(t) == /\ lock[t] = "backoff"
                  /\ lock' = [lock EXCEPT ![t] = "free"]
                  /\ UNCHANGED <<status, retries, runnerVars, historyVars, faults>>
-----------------------------------------------------------------------------
(***************************************************************************)
(* The polling loop.                                                       *)
(***************************************************************************)
Start(r) == /\ phase[r] = "down"
            /\ phase' = [phase EXCEPT ![r] = "loop"]
            /\ topic' = [topic EXCEPT ![r] = 1]
            /\ UNCHANGED <<engineVars, batch, current, historyVars, faults>>

LockBatch(i, S) == /\ S \subseteq Fetchable(i)
                   /\ Cardinality(S) <= MaxTasks
                   /\ S # Fetchable(i) => Cardinality(S) = MaxTasks
                   /\ lock' = [t \in Task |-> IF t \in S THEN "held" ELSE lock[t]]
                   /\ UNCHANGED <<status, retries>>

AtPoll(r) == phase[r] = "loop" /\ batch[r] = {}

Poll(r) == /\ AtPoll(r)
           /\ \E S \in SUBSET Fetchable(topic[r]) :
                /\ LockBatch(topic[r], S)
                /\ batch' = [batch EXCEPT ![r] =
                               {[task |-> t, retries |-> retries[t]] : t \in S}]
           /\ topic' = [topic EXCEPT ![r] = NextTopic(@)]
           /\ UNCHANGED <<phase, current, historyVars, faults>>

\* fetch_and_lock raises: run() starts over at the first topic.  The engine
\* may have locked a batch whose answer was lost.
PollFails(r) == /\ AtPoll(r)
                /\ Fault
                /\ \/ UNCHANGED engineVars
                   \/ \E S \in SUBSET Fetchable(topic[r]) : LockBatch(topic[r], S)
                /\ topic' = [topic EXCEPT ![r] = 1]
                /\ UNCHANGED <<phase, batch, current, historyVars>>

\* Faulty: the task is not taken off the batch.
BeginKeeps(r) == /\ phase[r] = "loop"
                 /\ \E w \in batch[r] : current' = [current EXCEPT ![r] = {w}]
                 /\ phase' = [phase EXCEPT ![r] = "handling"]
                 /\ UNCHANGED <<engineVars, topic, batch, historyVars, faults>>

\* Faulty: a task is completed without its handler.
BeginUnhandled(r) == /\ phase[r] = "loop"
                     /\ \E w \in batch[r] : /\ current' = [current EXCEPT ![r] = {w}]
                                            /\ batch' = [batch EXCEPT ![r] = @ \ {w}]
                     /\ phase' = [phase EXCEPT ![r] = "completing"]
                     /\ UNCHANGED <<engineVars, topic, historyVars, faults>>

\* The next task of the batch, in whatever order the engine returned them.
Begin(r) == /\ phase[r] = "loop"
            /\ \E w \in batch[r] : /\ current' = [current EXCEPT ![r] = {w}]
                                   /\ batch' = [batch EXCEPT ![r] = @ \ {w}]
            /\ phase' = [phase EXCEPT ![r] = "handling"]
            /\ UNCHANGED <<engineVars, topic, historyVars, faults>>

HandlerReturns(r) ==
  /\ phase[r] = "handling"
  /\ \E w \in current[r] : returned' = [returned EXCEPT ![w.task] = @ + 1]
  /\ phase' = [phase EXCEPT ![r] = "completing"]
  /\ UNCHANGED <<engineVars, topic, batch, current, raised, faults>>

\* Faulty: an exception of the handler goes where the given report is made.
RaisesTo(r, report) ==
  /\ phase[r] = "handling"
  /\ \E w \in current[r] : raised' = [raised EXCEPT ![w.task] = @ + 1]
  /\ phase' = [phase EXCEPT ![r] = report]
  /\ UNCHANGED <<engineVars, topic, batch, current, returned, faults>>

HandlerRaisesSwallowed(r) == RaisesTo(r, "completing")

\* The handler raises, with or without effects behind it.  No handler uses
\* the client it is passed, so what it raises is never a CamundaError.
HandlerRaises(r) ==
  /\ phase[r] = "handling"
  /\ \E w \in current[r] : raised' = [raised EXCEPT ![w.task] = @ + 1]
  /\ phase' = [phase EXCEPT ![r] = "failing"]
  /\ UNCHANGED <<engineVars, topic, batch, current, returned, faults>>
-----------------------------------------------------------------------------
(***************************************************************************)
(* The reports.  The engine accepts one as long as the task exists: the    *)
(* worker id always matches and the lock's expiry is not looked at.        *)
(***************************************************************************)
NextOfBatch(r) == /\ phase' = [phase EXCEPT ![r] = "loop"]
                  /\ current' = [current EXCEPT ![r] = {}]
                  /\ UNCHANGED <<topic, batch>>

TurnToThrow(r) == /\ phase' = [phase EXCEPT ![r] = "throwing"]
                  /\ UNCHANGED <<topic, batch, current>>

Complete(r) == /\ phase[r] = "completing"
               /\ \E w \in current[r] : /\ status[w.task] = "open"
                                        /\ Settle(w.task, "completed")
               /\ NextOfBatch(r)
               /\ UNCHANGED <<historyVars, faults>>

\* 404: another replica has ended the task.  CamundaProcessNotFoundError is a
\* CamundaError, so the runner goes on to report a BPMN error.
CompleteNotFound(r) == /\ phase[r] = "completing"
                       /\ \E w \in current[r] : status[w.task] # "open"
                       /\ TurnToThrow(r)
                       /\ UNCHANGED <<engineVars, historyVars, faults>>

\* The call fails (unreachable, timeout, 5xx); the engine may have applied it.
CompleteFails(r) == /\ phase[r] = "completing"
                    /\ Fault
                    /\ \/ UNCHANGED engineVars
                       \/ \E w \in current[r] : /\ status[w.task] = "open"
                                                /\ Settle(w.task, "completed")
                    /\ TurnToThrow(r)
                    /\ UNCHANGED historyVars

\* bpmn_error_external_task; whatever it raises is dropped.
Throw(r) == /\ phase[r] = "throwing"
            /\ \E w \in current[r] :
                 IF status[w.task] = "open" THEN Settle(w.task, "error")
                                            ELSE UNCHANGED engineVars
            /\ NextOfBatch(r)
            /\ UNCHANGED <<historyVars, faults>>

\* fail_external_task; whatever it raises is logged.
Fail(r) == /\ phase[r] = "failing"
           /\ \E w \in current[r] :
                IF status[w.task] = "open"
                THEN /\ retries' = [retries EXCEPT ![w.task] = RetriesAfter(w)]
                     /\ lock' = [lock EXCEPT ![w.task] = "backoff"]
                     /\ UNCHANGED status
                ELSE UNCHANGED engineVars
           /\ NextOfBatch(r)
           /\ UNCHANGED <<historyVars, faults>>

ReportLost(r) == /\ phase[r] \in {"throwing", "failing"}
                 /\ Fault
                 /\ NextOfBatch(r)
                 /\ UNCHANGED <<engineVars, historyVars>>

\* The process dies, or its shutdown cancels the runner between two awaits.
Crash(r) == /\ phase[r] # "down"
            /\ Fault
            /\ phase' = [phase EXCEPT ![r] = "down"]
            /\ batch' = [batch EXCEPT ![r] = {}]
            /\ current' = [current EXCEPT ![r] = {}]
            /\ UNCHANGED <<engineVars, topic, historyVars>>
-----------------------------------------------------------------------------
\* What a live runner does when nothing goes wrong around it.
Runner(r) == \/ Start(r) \/ Poll(r) \/ Begin(r)
             \/ HandlerReturns(r) \/ HandlerRaises(r)
             \/ Complete(r) \/ CompleteNotFound(r) \/ Throw(r) \/ Fail(r)

Disturbance(r) == \/ PollFails(r) \/ CompleteFails(r) \/ ReportLost(r) \/ Crash(r)

Engine(t) == LockExpires(t) \/ BackoffEnds(t)

Next == \/ \E t \in Task : Create(t) \/ Engine(t) \/ LockOutrun(t)
        \/ \E r \in Replica : Runner(r) \/ Disturbance(r)

\* run() loops as long as its process lives, a crashed process is restarted
\* by its supervisor, handlers end, and locks and retry timeouts are durations.
Fairness == /\ \A r \in Replica : WF_vars(Runner(r))
            /\ \A t \in Task : WF_vars(Engine(t))

Spec == Init /\ [][Next]_vars
FairSpec == Spec /\ Fairness
-----------------------------------------------------------------------------
(***************************************************************************)
(* Properties.                                                             *)
(***************************************************************************)
\* A task leaves the engine only on the result of a handler that returned,
\* whichever replica reports, however late, and whatever was lost: the report
\* of a failed or unstarted attempt never ends it.
SettledMeansReturned ==
  \A t \in Task : status[t] \in {"completed", "error"} => returned[t] > 0

\* An incident means MaxRetries failed attempts.  Retries are computed from
\* the count of the fetch, so a late report can give attempts back, but no
\* order of reports loses one.
IncidentMeansExhausted ==
  \A t \in Task : Incident(t) => raised[t] >= MaxRetries

\* Until a process dies, a message is lost or a batch outlives its lock, a
\* task is in the hands of one replica at a time, its handler returns once and
\* is tried at most MaxRetries times, and no BPMN error is thrown: repeated
\* e-mails and SMS, and errors after a success, come from those faults only.
OnceWithoutFaults ==
  faults = 0 => \A t \in Task :
                  /\ status[t] # "error"
                  /\ returned[t] <= 1
                  /\ returned[t] + raised[t] <= MaxRetries
                  /\ \A q, r \in Replica : t \in InHand(q) \cap InHand(r) => q = r

\* Every created task is completed, thrown or made an incident: no topic is
\* starved by the ones registered before it, and no lost lock is forgotten.
EventuallySettled ==
  \A t \in Task : status[t] = "open" ~>
                    (status[t] \in {"completed", "error"} \/ Incident(t))
-----------------------------------------------------------------------------
(***************************************************************************)
(* The inductive invariant behind these: what a runner has in hand is      *)
(* covered by what has happened to the task.                               *)
(***************************************************************************)
OneCurrent == \A r \in Replica : \A v, w \in current[r] : v = w

HandCreated ==
  \A r \in Replica : \A w \in batch[r] \cup current[r] : status[w.task] # "none"

\* A runner that reports a result has seen the handler return.
HandReturned ==
  \A r \in Replica : phase[r] \in {"completing", "throwing"} =>
                        \A w \in current[r] : returned[w.task] > 0

\* Attempts left according to a retry count, as the runner reads it.
Left(n) == IF n = Unset THEN MaxRetries ELSE n

\* Every attempt missing from a retry count, the engine's or a fetched one,
\* was used by a handler that raised; the one being reported counts as well.
RetriesEarned == \A t \in Task : raised[t] >= MaxRetries - Left(retries[t])

HandEarned ==
  \A r \in Replica : \A w \in batch[r] \cup current[r] :
    /\ w.retries # 0
    /\ raised[w.task] >= MaxRetries - Left(w.retries)

FailureEarned ==
  \A r \in Replica : phase[r] = "failing" =>
    \A w \in current[r] : raised[w.task] > MaxRetries - Left(w.retries)

\* The same for OnceWithoutFaults: what is in hand is locked for it, and a
\* handler that has returned is about to be reported.
Hand(r) == batch[r] \cup current[r]

Apart == \A q, r \in Replica : \A v \in Hand(q), w \in Hand(r) :
           v.task = w.task => q = r /\ v = w

Placed == \A r \in Replica : /\ phase[r] \in {"down", "loop"} => current[r] = {}
                             /\ batch[r] \cap current[r] = {}
                             /\ phase[r] # "throwing"

Locked == \A r \in Replica : \A w \in Hand(r) : status[w.task] = "open" /\ lock[w.task] = "held"

Reporting(r, w) == phase[r] = "completing" /\ w \in current[r]

Once == /\ \A r \in Replica : \A w \in Hand(r) : returned[w.task] = 0 \/ Reporting(r, w)
        /\ \A t \in Task : /\ status[t] # "error"
                           /\ returned[t] <= 1
                           /\ returned[t] > 0 =>
                                \/ status[t] = "completed"
                                \/ \E r \in Replica : \E w \in current[r] :
                                     w.task = t /\ Reporting(r, w)

CleanInv == faults = 0 => Apart /\ Placed /\ Locked /\ Once

\* And for its count of attempts: no retries change behind a runner's back, so
\* an attempt is counted by the engine as soon as its failure is reported.
Failing(t) == \E r \in Replica : phase[r] = "failing" /\ \E w \in current[r] : w.task = t

Counted ==
  /\ \A r \in Replica : \A w \in Hand(r) : w.retries = retries[w.task]
  /\ \A t \in Task :
       /\ status[t] = "none" => raised[t] = 0
       /\ status[t] = "open" /\ ~Failing(t) => raised[t] = MaxRetries - Left(retries[t])
       /\ Failing(t) => raised[t] = MaxRetries - Left(retries[t]) + 1
       /\ returned[t] + raised[t] <= MaxRetries

CountInv == faults = 0 => Counted

IInv == /\ TypeOK /\ OneCurrent /\ HandCreated /\ HandReturned
        /\ SettledMeansReturned /\ RetriesEarned /\ HandEarned /\ FailureEarned
-----------------------------------------------------------------------------
\* What the worker promises to the process models (TaskOutcome): the retries,
\* locks and replicas are hidden, and whatever becomes of a task is one of
\* the outcomes allowed there.
outcomeBar == [t \in Task |-> IF Incident(t) THEN "incident"
                              ELSE IF status[t] = "open" THEN "pending"
                              ELSE status[t]]
effectBar == {t \in Task : returned[t] > 0}

Outcome == INSTANCE TaskOutcome WITH outcome <- outcomeBar, effect <- effectBar

KeepsPromise == Outcome!TaskSpec
=============================================================================
