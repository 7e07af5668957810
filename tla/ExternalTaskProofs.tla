-------------------------- MODULE ExternalTaskProofs --------------------------
(***************************************************************************)
(* Theorems about ExternalTask: every replica set, task set, retry count   *)
(* and number of faults.                                                   *)
(***************************************************************************)
EXTENDS ExternalTask, TLAPS

USE SettingsAssumption, TopicsAssumption

\* Settling a task keeps the engine's variables in their types.
LEMMA SettleType ==
  ASSUME TypeOK, NEW t \in Task, NEW o \in Statuses, Settle(t, o)
  PROVE  /\ status' \in [Task -> Statuses]
         /\ lock' \in [Task -> Locks]
         /\ retries' \in [Task -> RetryCount]
BY DEF TypeOK, Settle, RetryCount, Unset, Locks

\* The count a failure report carries, (task.retries or task_max_retries) - 1,
\* is never negative and never more than the configured retries.
LEMMA RetriesAfterType ==
  ASSUME NEW w \in Fetched
  PROVE  RetriesAfter(w) \in 0..MaxRetries - 1
BY DEF Fetched, RetriesAfter, RetryCount, Unset

LEMMA InitTypeOK == Init => TypeOK
BY DEF Init, TypeOK, Statuses, Locks, RetryCount, Unset, Phases

\* Every step of the engine and of a runner keeps the types.
LEMMA NextTypeOK == TypeOK /\ [Next]_vars => TypeOK'
<1> SUFFICES ASSUME TypeOK, [Next]_vars PROVE TypeOK'
  OBVIOUS
<1> USE DEF TypeOK, engineVars, runnerVars, historyVars
<1>1. ASSUME NEW t \in Task, Create(t) PROVE TypeOK'
  BY <1>1 DEF Create, Statuses, RetryCount, Unset
<1>2. ASSUME NEW t \in Task, Engine(t) PROVE TypeOK'
  BY <1>2 DEF Engine, LockExpires, BackoffEnds, Locks
<1>17. ASSUME NEW t \in Task, LockOutrun(t) PROVE TypeOK'
  BY <1>17 DEF LockOutrun, Fault, Locks
<1>3. ASSUME NEW r \in Replica, Start(r) PROVE TypeOK'
  BY <1>3 DEF Start, Phases
<1>4. ASSUME NEW r \in Replica, Poll(r) PROVE TypeOK'
  <2>1. PICK S \in SUBSET Fetchable(topic[r]) :
          /\ LockBatch(topic[r], S)
          /\ batch' = [batch EXCEPT ![r] = {[task |-> t, retries |-> retries[t]] : t \in S}]
    BY <1>4 DEF Poll
  <2>2. S \subseteq Task
    BY <2>1 DEF Fetchable
  <2>3. {[task |-> t, retries |-> retries[t]] : t \in S} \subseteq Fetched
    BY <2>2 DEF Fetched
  <2>4. batch' \in [Replica -> SUBSET Fetched]
    BY <2>1, <2>3
  <2>5. topic' \in [Replica -> 1..Len(Topics)]
    BY <1>4 DEF Poll, NextTopic
  <2> QED
    BY <1>4, <2>1, <2>4, <2>5 DEF Poll, LockBatch, Locks
<1>5. ASSUME NEW r \in Replica, PollFails(r) PROVE TypeOK'
  BY <1>5 DEF PollFails, LockBatch, Locks, Fault
<1>6. ASSUME NEW r \in Replica, Begin(r) PROVE TypeOK'
  BY <1>6 DEF Begin, Phases
<1>7. ASSUME NEW r \in Replica, HandlerReturns(r) PROVE TypeOK'
  <2>1. PICK w \in current[r] : returned' = [returned EXCEPT ![w.task] = @ + 1]
    BY <1>7 DEF HandlerReturns
  <2>2. w.task \in Task
    BY <2>1 DEF Fetched
  <2>3. returned' \in [Task -> Nat]
    BY <2>1, <2>2
  <2>4. phase' \in [Replica -> Phases]
    BY <1>7 DEF HandlerReturns, Phases
  <2> QED
    BY <1>7, <2>3, <2>4 DEF HandlerReturns
<1>8. ASSUME NEW r \in Replica, HandlerRaises(r) PROVE TypeOK'
  <2>1. PICK w \in current[r] : raised' = [raised EXCEPT ![w.task] = @ + 1]
    BY <1>8 DEF HandlerRaises
  <2>2. w.task \in Task
    BY <2>1 DEF Fetched
  <2>3. raised' \in [Task -> Nat]
    BY <2>1, <2>2
  <2>4. phase' \in [Replica -> Phases]
    BY <1>8 DEF HandlerRaises, Phases
  <2> QED
    BY <1>8, <2>3, <2>4 DEF HandlerRaises
<1>9. ASSUME NEW r \in Replica, Complete(r) PROVE TypeOK'
  <2>1. PICK w \in current[r] : Settle(w.task, "completed")
    BY <1>9 DEF Complete
  <2>2. w.task \in Task
    BY <2>1 DEF Fetched
  <2>3. "completed" \in Statuses
    BY DEF Statuses
  <2> QED
    BY <1>9, <2>1, <2>2, <2>3, SettleType DEF Complete, NextOfBatch, Phases
<1>10. ASSUME NEW r \in Replica, CompleteNotFound(r) PROVE TypeOK'
  BY <1>10 DEF CompleteNotFound, TurnToThrow, Phases
<1>11. ASSUME NEW r \in Replica, CompleteFails(r) PROVE TypeOK'
  <2>1. CASE UNCHANGED engineVars
    BY <1>11, <2>1 DEF CompleteFails, TurnToThrow, Phases, Fault
  <2>2. ASSUME NEW w \in current[r], Settle(w.task, "completed") PROVE TypeOK'
    <3>1. w.task \in Task /\ "completed" \in Statuses
      BY <2>2 DEF Fetched, Statuses
    <3>2. /\ status' \in [Task -> Statuses]
          /\ lock' \in [Task -> Locks]
          /\ retries' \in [Task -> RetryCount]
      BY <2>2, <3>1, SettleType
    <3>3. phase' \in [Replica -> Phases]
      BY <1>11 DEF CompleteFails, TurnToThrow, Phases
    <3>4. faults' \in 0..MaxFaults
      BY <1>11 DEF CompleteFails, Fault
    <3> QED
      BY <1>11, <3>2, <3>3, <3>4 DEF CompleteFails, TurnToThrow
  <2> QED
    BY <1>11, <2>1, <2>2 DEF CompleteFails
<1>12. ASSUME NEW r \in Replica, Throw(r) PROVE TypeOK'
  <2>1. PICK w \in current[r] : IF status[w.task] = "open" THEN Settle(w.task, "error")
                                                        ELSE UNCHANGED engineVars
    BY <1>12 DEF Throw
  <2>2. w.task \in Task /\ "error" \in Statuses
    BY <2>1 DEF Fetched, Statuses
  <2>3. CASE status[w.task] = "open"
    BY <1>12, <2>1, <2>2, <2>3, SettleType DEF Throw, NextOfBatch, Phases
  <2>4. CASE status[w.task] # "open"
    BY <1>12, <2>1, <2>4 DEF Throw, NextOfBatch, Phases
  <2> QED
    BY <2>3, <2>4
<1>13. ASSUME NEW r \in Replica, Fail(r) PROVE TypeOK'
  <2>1. PICK w \in current[r] :
          IF status[w.task] = "open"
          THEN /\ retries' = [retries EXCEPT ![w.task] = RetriesAfter(w)]
               /\ lock' = [lock EXCEPT ![w.task] = "backoff"]
               /\ UNCHANGED status
          ELSE UNCHANGED engineVars
    BY <1>13 DEF Fail
  <2>2. RetriesAfter(w) \in RetryCount
    <3>1. RetriesAfter(w) \in 0..MaxRetries - 1
      BY <2>1, RetriesAfterType, Zenon
    <3>2. 0..MaxRetries - 1 \subseteq RetryCount
      BY SettingsAssumption DEF RetryCount, Unset
    <3> QED
      BY <3>1, <3>2, Zenon
  <2> QED
    BY <1>13, <2>1, <2>2 DEF Fail, NextOfBatch, Phases, Locks
<1>14. ASSUME NEW r \in Replica, ReportLost(r) PROVE TypeOK'
  BY <1>14 DEF ReportLost, NextOfBatch, Phases, Fault
<1>15. ASSUME NEW r \in Replica, Crash(r) PROVE TypeOK'
  BY <1>15 DEF Crash, Phases, Fault
<1>16. CASE UNCHANGED vars
  BY <1>16 DEF vars
<1> QED
  BY <1>1, <1>2, <1>3, <1>4, <1>5, <1>6, <1>7, <1>8, <1>9, <1>10, <1>11, <1>12,
     <1>13, <1>14, <1>15, <1>16, <1>17 DEF Next, Runner, Disturbance

\* Type correctness of the worker and the engine, for all constants.
THEOREM TypeCorrect == Spec => []TypeOK
BY InitTypeOK, NextTypeOK, PTL DEF Spec
-----------------------------------------------------------------------------
(***************************************************************************)
(* The inductive invariant.  The parts that follow from TypeOK and one     *)
(* another are kept by each action in turn.                                *)
(***************************************************************************)
HandInv == OneCurrent /\ HandCreated /\ HandReturned /\ SettledMeansReturned
RetryInv == OneCurrent /\ RetriesEarned /\ HandEarned /\ FailureEarned

LEMMA InitIInv == Init => IInv
<1> SUFFICES ASSUME Init PROVE IInv
  OBVIOUS
<1>1. TypeOK
  BY InitTypeOK
<1> QED
  BY <1>1 DEF Init, IInv, OneCurrent, HandCreated, HandReturned, Left,
     SettledMeansReturned, RetriesEarned, HandEarned, FailureEarned, Unset

\* Results: no step ends a task whose handler has not returned.
LEMMA NextHandInv == TypeOK /\ HandInv /\ [Next]_vars => HandInv'
<1> SUFFICES ASSUME TypeOK, HandInv, [Next]_vars PROVE HandInv'
  OBVIOUS
<1> USE DEF TypeOK, HandInv, OneCurrent, HandCreated, HandReturned,
            SettledMeansReturned, engineVars, runnerVars, historyVars
<1>1. ASSUME NEW t \in Task, Create(t) \/ Engine(t) \/ LockOutrun(t) PROVE HandInv'
  BY <1>1 DEF Create, Engine, LockExpires, BackoffEnds, LockOutrun, Statuses, Fetched
<1>2. ASSUME NEW r \in Replica, Start(r) PROVE HandInv'
  BY <1>2 DEF Start
<1>3. ASSUME NEW r \in Replica, Poll(r) PROVE HandInv'
  <2>1. PICK S \in SUBSET Fetchable(topic[r]) :
          /\ LockBatch(topic[r], S)
          /\ batch' = [batch EXCEPT ![r] = {[task |-> t, retries |-> retries[t]] : t \in S}]
    BY <1>3 DEF Poll
  <2>2. \A w \in batch'[r] : status[w.task] = "open"
    BY <2>1 DEF Fetchable
  <2>3. \A q \in Replica \ {r} : batch'[q] = batch[q]
    BY <2>1
  <2> QED
    BY <1>3, <2>1, <2>2, <2>3 DEF Poll, LockBatch
<1>4. ASSUME NEW r \in Replica, PollFails(r) PROVE HandInv'
  BY <1>4 DEF PollFails, LockBatch
<1>5. ASSUME NEW r \in Replica, Begin(r) PROVE HandInv'
  BY <1>5 DEF Begin
<1>6. ASSUME NEW r \in Replica, HandlerReturns(r) PROVE HandInv'
  <2>1. PICK w \in current[r] : returned' = [returned EXCEPT ![w.task] = @ + 1]
    BY <1>6 DEF HandlerReturns
  <2>2. \A t \in Task : returned'[t] >= returned[t]
    BY <2>1
  <2>3. \A v \in current[r] : v = w
    BY <2>1
  <2>4. returned'[w.task] > 0
    BY <2>1 DEF Fetched
  <2> QED
    BY <1>6, <2>2, <2>3, <2>4 DEF HandlerReturns, Fetched
<1>7. ASSUME NEW r \in Replica, HandlerRaises(r) PROVE HandInv'
  BY <1>7 DEF HandlerRaises
<1>8. ASSUME NEW r \in Replica, Complete(r) PROVE HandInv'
  <2>1. PICK w \in current[r] : Settle(w.task, "completed")
    BY <1>8 DEF Complete
  <2>2. returned[w.task] > 0 /\ w.task \in Task
    BY <1>8, <2>1 DEF Complete, Fetched
  <2> QED
    BY <1>8, <2>1, <2>2 DEF Complete, Settle, NextOfBatch, Fetched
<1>9. ASSUME NEW r \in Replica, CompleteNotFound(r) PROVE HandInv'
  BY <1>9 DEF CompleteNotFound, TurnToThrow
<1>10. ASSUME NEW r \in Replica, CompleteFails(r) PROVE HandInv'
  <2>1. CASE UNCHANGED engineVars
    BY <1>10, <2>1 DEF CompleteFails, TurnToThrow
  <2>2. ASSUME NEW w \in current[r], Settle(w.task, "completed") PROVE HandInv'
    <3>1. returned[w.task] > 0 /\ w.task \in Task
      BY <1>10, <2>2 DEF CompleteFails, Fetched
    <3> QED
      BY <1>10, <2>2, <3>1 DEF CompleteFails, Settle, TurnToThrow, Fetched
  <2> QED
    BY <1>10, <2>1, <2>2 DEF CompleteFails
<1>11. ASSUME NEW r \in Replica, Throw(r) PROVE HandInv'
  <2>1. PICK w \in current[r] : Settle(w.task, "error") \/ UNCHANGED engineVars
    BY <1>11 DEF Throw
  <2>2. returned[w.task] > 0 /\ w.task \in Task
    BY <1>11, <2>1 DEF Throw, Fetched
  <2> QED
    BY <1>11, <2>1, <2>2 DEF Throw, Settle, NextOfBatch, Fetched
<1>12. ASSUME NEW r \in Replica, Fail(r) PROVE HandInv'
  <2>1. UNCHANGED status
    BY <1>12 DEF Fail
  <2> QED
    BY <1>12, <2>1 DEF Fail, NextOfBatch
<1>13. ASSUME NEW r \in Replica, ReportLost(r) PROVE HandInv'
  BY <1>13 DEF ReportLost, NextOfBatch
<1>14. ASSUME NEW r \in Replica, Crash(r) PROVE HandInv'
  BY <1>14 DEF Crash
<1>15. CASE UNCHANGED vars
  BY <1>15 DEF vars
<1> QED
  BY <1>1, <1>2, <1>3, <1>4, <1>5, <1>6, <1>7, <1>8, <1>9, <1>10, <1>11, <1>12,
     <1>13, <1>14, <1>15 DEF Next, Runner, Disturbance

\* Retries: no step loses an attempt that no handler has used.
LEMMA NextRetryInv == TypeOK /\ RetryInv /\ [Next]_vars => RetryInv'
<1> SUFFICES ASSUME TypeOK, RetryInv, [Next]_vars PROVE RetryInv'
  OBVIOUS
<1> USE DEF TypeOK, RetryInv, OneCurrent, RetriesEarned, HandEarned, FailureEarned,
            engineVars, runnerVars, historyVars
<1>1. ASSUME NEW t \in Task, Create(t) PROVE RetryInv'
  BY <1>1 DEF Create, Left, Unset
<1>16. ASSUME NEW t \in Task, Engine(t) \/ LockOutrun(t) PROVE RetryInv'
  BY <1>16 DEF Engine, LockExpires, BackoffEnds, LockOutrun
<1>2. ASSUME NEW r \in Replica, Start(r) PROVE RetryInv'
  BY <1>2 DEF Start
<1>3. ASSUME NEW r \in Replica, Poll(r) PROVE RetryInv'
  <2>1. PICK S \in SUBSET Fetchable(topic[r]) :
          /\ LockBatch(topic[r], S)
          /\ batch' = [batch EXCEPT ![r] = {[task |-> t, retries |-> retries[t]] : t \in S}]
    BY <1>3 DEF Poll
  <2>2. \A w \in batch'[r] : /\ w.retries # 0
                             /\ raised[w.task] >= MaxRetries - Left(w.retries)
    BY <2>1 DEF Fetchable
  <2>3. \A q \in Replica \ {r} : batch'[q] = batch[q]
    BY <2>1
  <2> QED
    BY <1>3, <2>1, <2>2, <2>3 DEF Poll, LockBatch
<1>4. ASSUME NEW r \in Replica, PollFails(r) PROVE RetryInv'
  BY <1>4 DEF PollFails, LockBatch
<1>5. ASSUME NEW r \in Replica, Begin(r) PROVE RetryInv'
  BY <1>5 DEF Begin
<1>6. ASSUME NEW r \in Replica, HandlerReturns(r) PROVE RetryInv'
  BY <1>6 DEF HandlerReturns
<1>7. ASSUME NEW r \in Replica, HandlerRaises(r) PROVE RetryInv'
  <2>1. PICK w \in current[r] : raised' = [raised EXCEPT ![w.task] = @ + 1]
    BY <1>7 DEF HandlerRaises
  <2>2. \A t \in Task : raised'[t] \in Nat /\ raised'[t] >= raised[t]
    BY <2>1
  <2>3. \A v \in current[r] : v = w
    BY <2>1
  <2>4. raised'[w.task] > raised[w.task] /\ w.task \in Task
    BY <2>1 DEF Fetched
  <2>5. \A n \in RetryCount : Left(n) \in Int
    BY DEF Left, RetryCount, Unset
  <2>6. RetriesEarned'
    BY <1>7, <2>2, <2>5 DEF HandlerRaises
  <2>7. ASSUME NEW q \in Replica, NEW v \in batch[q] \cup current[q]
        PROVE  /\ v.task \in Task /\ Left(v.retries) \in Int
               /\ v.retries # 0
               /\ raised'[v.task] >= MaxRetries - Left(v.retries)
    <3>1. v \in Fetched
      OBVIOUS
    <3>2. v.task \in Task /\ Left(v.retries) \in Int
      BY <3>1, <2>5 DEF Fetched
    <3>3. raised[v.task] >= MaxRetries - Left(v.retries)
      OBVIOUS
    <3> QED
      BY <2>2, <3>2, <3>3
  <2>8. HandEarned'
    BY <1>7, <2>7 DEF HandlerRaises
  <2>9. raised'[w.task] > MaxRetries - Left(w.retries)
    BY <2>2, <2>4, <2>5, <2>7
  <2>10. ASSUME NEW q \in Replica, NEW v \in current[q], phase'[q] = "failing"
         PROVE  raised'[v.task] > MaxRetries - Left(v.retries)
    <3>1. CASE q = r
      BY <2>3, <2>9, <3>1
    <3>2. CASE q # r
      <4>1. phase[q] = "failing"
        BY <1>7, <2>10, <3>2 DEF HandlerRaises
      <4>2. raised[v.task] > MaxRetries - Left(v.retries)
        BY <4>1
      <4> QED
        BY <2>2, <2>7, <4>2
    <3> QED
      BY <3>1, <3>2
  <2>11. FailureEarned'
    BY <1>7, <2>10 DEF HandlerRaises
  <2> QED
    BY <1>7, <2>6, <2>8, <2>11 DEF HandlerRaises
<1>8. ASSUME NEW r \in Replica, Complete(r) PROVE RetryInv'
  <2>1. PICK w \in current[r] : Settle(w.task, "completed")
    BY <1>8 DEF Complete
  <2> QED
    BY <1>8, <2>1 DEF Complete, Settle, NextOfBatch, Fetched, Left, Unset
<1>9. ASSUME NEW r \in Replica, CompleteNotFound(r) PROVE RetryInv'
  BY <1>9 DEF CompleteNotFound, TurnToThrow
<1>10. ASSUME NEW r \in Replica, CompleteFails(r) PROVE RetryInv'
  <2>1. CASE UNCHANGED engineVars
    BY <1>10, <2>1 DEF CompleteFails, TurnToThrow
  <2>2. ASSUME NEW w \in current[r], Settle(w.task, "completed") PROVE RetryInv'
    BY <1>10, <2>2 DEF CompleteFails, Settle, TurnToThrow, Fetched, Left, Unset
  <2> QED
    BY <1>10, <2>1, <2>2 DEF CompleteFails
<1>11. ASSUME NEW r \in Replica, Throw(r) PROVE RetryInv'
  <2>1. PICK w \in current[r] : Settle(w.task, "error") \/ UNCHANGED engineVars
    BY <1>11 DEF Throw
  <2> QED
    BY <1>11, <2>1 DEF Throw, Settle, NextOfBatch, Fetched, Left, Unset
<1>12. ASSUME NEW r \in Replica, Fail(r) PROVE RetryInv'
  <2>1. PICK w \in current[r] :
          \/ retries' = [retries EXCEPT ![w.task] = RetriesAfter(w)]
          \/ retries' = retries
    BY <1>12 DEF Fail
  <2>2. /\ w.task \in Task /\ w.retries \in RetryCount /\ w.retries # 0
        /\ raised[w.task] > MaxRetries - Left(w.retries)
    BY <1>12, <2>1 DEF Fail, Fetched
  <2>3. raised[w.task] >= MaxRetries - Left(RetriesAfter(w))
    BY <2>2 DEF RetriesAfter, Left, RetryCount, Unset
  <2>4. ASSUME NEW t \in Task
        PROVE  raised[t] >= MaxRetries - Left(retries'[t])
    <3>1. CASE retries'[t] = retries[t]
      BY <3>1
    <3>2. CASE retries'[t] # retries[t]
      BY <2>1, <2>2, <2>3, <3>2
    <3> QED
      BY <3>1, <3>2
  <2>5. RetriesEarned'
    BY <1>12, <2>4 DEF Fail
  <2> QED
    BY <1>12, <2>5 DEF Fail, NextOfBatch
<1>13. ASSUME NEW r \in Replica, ReportLost(r) PROVE RetryInv'
  BY <1>13 DEF ReportLost, NextOfBatch
<1>14. ASSUME NEW r \in Replica, Crash(r) PROVE RetryInv'
  BY <1>14 DEF Crash
<1>15. CASE UNCHANGED vars
  BY <1>15 DEF vars
<1> QED
  BY <1>1, <1>2, <1>3, <1>4, <1>5, <1>6, <1>7, <1>8, <1>9, <1>10, <1>11, <1>12,
     <1>13, <1>14, <1>15, <1>16 DEF Next, Runner, Disturbance

LEMMA InvIInv == Spec => []IInv
<1>1. IInv /\ [Next]_vars => IInv'
  BY NextTypeOK, NextHandInv, NextRetryInv DEF IInv, HandInv, RetryInv
<1> QED
  BY InitIInv, <1>1, PTL DEF Spec

\* No report of a failed or unstarted attempt ends a task.
THEOREM ResultsAreReal == Spec => []SettledMeansReturned
<1>1. IInv => SettledMeansReturned
  BY DEF IInv
<1> QED
  BY InvIInv, <1>1, PTL

\* No order of reports, on time or late, loses an attempt of a task.
THEOREM IncidentsAreExhausted == Spec => []IncidentMeansExhausted
<1>1. ASSUME IInv, NEW t \in Task, Incident(t) PROVE raised[t] >= MaxRetries
  <2>1. retries[t] = 0 /\ raised[t] >= MaxRetries - Left(retries[t])
    BY <1>1 DEF IInv, RetriesEarned, Incident
  <2>2. Left(0) = 0
    BY DEF Left, Unset
  <2> QED
    BY <2>1, <2>2
<1>2. IInv => IncidentMeansExhausted
  BY <1>1 DEF IncidentMeansExhausted
<1> QED
  BY InvIInv, <1>2, PTL
-----------------------------------------------------------------------------
(***************************************************************************)
(* Before the first fault: one replica at a time, one return per task.     *)
(***************************************************************************)
LEMMA NextClean ==
  ASSUME TypeOK, OneCurrent, CleanInv, [Next]_vars, faults' = 0
  PROVE  (Apart /\ Placed /\ Locked /\ Once)'
<1> USE DEF TypeOK, engineVars, runnerVars, historyVars
<1>0. faults = 0 /\ Apart /\ Placed /\ Locked /\ Once
  BY DEF vars, CleanInv, Next, Runner, Disturbance, Engine, Create, LockExpires,
         LockOutrun, BackoffEnds, Start, Poll, PollFails, Begin, HandlerReturns,
         HandlerRaises, Complete, CompleteNotFound, CompleteFails, Throw, Fail,
         ReportLost, Crash, Fault
<1>a. ASSUME NEW t \in Task
      PROVE  /\ returned[t] <= 1
             /\ status[t] # "error"
             /\ \/ returned[t] = 0
                \/ status[t] = "completed"
                \/ \E r \in Replica : \E w \in current[r] : w.task = t
  <2>1. returned[t] \in Nat
    OBVIOUS
  <2>2. /\ status[t] # "error"
        /\ returned[t] <= 1
        /\ returned[t] > 0 => \/ status[t] = "completed"
                              \/ \E r \in Replica : \E w \in current[r] : w.task = t
    BY <1>0, Zenon DEF Once, Reporting
  <2> QED
    BY <2>1, <2>2
<1>b. ASSUME NEW t \in Task, status[t] # "completed",
             \A r \in Replica : \A w \in current[r] : w.task # t
      PROVE  returned[t] = 0
  BY <1>a, <1>b, Zenon
<1> USE <1>0 DEF Apart, Placed, Locked, Once, Hand, Reporting
<1> DEFINE Clean == Apart /\ Placed /\ Locked /\ Once
<1>1. ASSUME NEW t \in Task, Create(t) PROVE Clean'
  BY <1>1 DEF Create, Fetched
<1>2. ASSUME NEW t \in Task, LockExpires(t) PROVE Clean'
  BY <1>2 DEF LockExpires, InHand, Fetched
<1>3. ASSUME NEW t \in Task, BackoffEnds(t) PROVE Clean'
  BY <1>3 DEF BackoffEnds, Fetched
<1>4. ASSUME NEW r \in Replica, Start(r) PROVE Clean'
  BY <1>4 DEF Start
<1>5. ASSUME NEW r \in Replica, Poll(r) PROVE Clean'
  <2>1. PICK S \in SUBSET Fetchable(topic[r]) :
          /\ LockBatch(topic[r], S)
          /\ batch' = [batch EXCEPT ![r] = {[task |-> t, retries |-> retries[t]] : t \in S}]
    BY <1>5 DEF Poll
  <2>2. /\ batch[r] = {} /\ current[r] = {} /\ phase' = phase /\ current' = current
        /\ status' = status /\ returned' = returned
    BY <1>5, <2>1 DEF Poll, AtPoll, LockBatch
  <2>3. \A q \in Replica \ {r} : batch'[q] = batch[q]
    BY <2>1
  <2>4. \A w \in batch'[r] : w.task \in S
    BY <2>1
  <2>5. \A v, w \in batch'[r] : v.task = w.task => v = w
    BY <2>1
  <2>6. \A t \in S : t \in Task /\ status[t] = "open" /\ lock[t] = "free"
    BY DEF Fetchable
  <2>7. \A q \in Replica : \A w \in Hand(q) : w.task \notin S
    BY <2>6
  <2>8. ASSUME NEW t \in S PROVE returned[t] = 0
    <3>1. t \in Task /\ status[t] # "completed"
      BY <2>6
    <3>2. \A q \in Replica : \A w \in current[q] : w.task # t
      BY <2>7
    <3> QED
      BY <1>b, <3>1, <3>2, Zenon
  <2>9. Hand(r)' = batch'[r]
    BY <2>2
  <2>10. \A q \in Replica \ {r} : Hand(q)' = Hand(q)
    BY <2>2, <2>3
  <2> HIDE DEF Apart, Placed, Locked, Once, Hand, Reporting
  <2>11. Apart'
    <3>1. SUFFICES ASSUME NEW p \in Replica, NEW q \in Replica, NEW v \in Hand(p)',
                          NEW w \in Hand(q)', v.task = w.task
                   PROVE  p = q /\ v = w
      BY DEF Apart
    <3>2. CASE p = r /\ q = r
      BY <2>5, <2>9, <3>1, <3>2
    <3>3. CASE p = r /\ q # r
      BY <2>4, <2>7, <2>9, <2>10, <3>1, <3>3
    <3>4. CASE p # r /\ q = r
      BY <2>4, <2>7, <2>9, <2>10, <3>1, <3>4
    <3>5. CASE p # r /\ q # r
      BY <1>0, <2>10, <3>1, <3>5 DEF Apart
    <3> QED
      BY <3>2, <3>3, <3>4, <3>5
  <2>12. Placed'
    <3>1. SUFFICES ASSUME NEW q \in Replica
                   PROVE  /\ phase[q] \in {"down", "loop"} => current[q] = {}
                          /\ batch'[q] \cap current[q] = {}
                          /\ phase[q] # "throwing"
      BY <2>2 DEF Placed
    <3>2. CASE q = r
      BY <1>0, <2>2, <3>2 DEF Placed
    <3>3. CASE q # r
      BY <1>0, <2>3, <3>3 DEF Placed
    <3> QED
      BY <3>2, <3>3
  <2>13. Locked'
    <3>1. SUFFICES ASSUME NEW q \in Replica, NEW w \in Hand(q)'
                   PROVE  status[w.task] = "open" /\ lock'[w.task] = "held"
      BY <2>2 DEF Locked
    <3>2. \A t \in Task : lock'[t] = IF t \in S THEN "held" ELSE lock[t]
      BY <2>1 DEF LockBatch
    <3>3. CASE q = r
      BY <2>4, <2>6, <2>9, <3>1, <3>2, <3>3
    <3>4. CASE q # r
      <4>1. w \in Hand(q) /\ w.task \in Task
        BY <2>10, <3>1, <3>4 DEF Hand, Fetched
      <4> QED
        BY <1>0, <2>7, <3>2, <4>1 DEF Locked
    <3> QED
      BY <3>3, <3>4
  <2>14. Once'
    <3>1. ASSUME NEW q \in Replica, NEW w \in Hand(q)'
          PROVE  returned[w.task] = 0 \/ Reporting(q, w)
      <4>1. CASE q = r
        BY <2>4, <2>8, <2>9, <3>1, <4>1
      <4>2. CASE q # r
        BY <1>0, <2>10, <3>1, <4>2 DEF Once
      <4> QED
        BY <4>1, <4>2
    <3>2. \A q \in Replica : \A w : Reporting(q, w)' = Reporting(q, w)
      BY <2>2 DEF Reporting
    <3> QED
      BY <1>0, <2>2, <3>1, <3>2 DEF Once
  <2> QED
    BY <2>11, <2>12, <2>13, <2>14
<1>6. ASSUME NEW r \in Replica, Begin(r) PROVE Clean'
  <2>1. PICK w \in batch[r] : /\ current' = [current EXCEPT ![r] = {w}]
                              /\ batch' = [batch EXCEPT ![r] = @ \ {w}]
    BY <1>6 DEF Begin
  <2>2. /\ phase[r] = "loop" /\ phase' = [phase EXCEPT ![r] = "handling"]
        /\ UNCHANGED <<status, lock, returned>>
    BY <1>6 DEF Begin
  <2>3. \A q \in Replica : Hand(q)' = Hand(q)
    BY <2>1, <2>2
  <2>4. Apart' /\ Placed' /\ Locked'
    BY <2>1, <2>2, <2>3
  <2>5. \A q \in Replica : \A v \in Hand(q) : Reporting(q, v) <=> Reporting(q, v)'
    BY <2>1, <2>2
  <2>6. Once'
    BY <2>1, <2>2, <2>3, <2>5
  <2> QED
    BY <2>4, <2>6
<1>7. ASSUME NEW r \in Replica, HandlerReturns(r) PROVE Clean'
  <2>1. PICK w \in current[r] : returned' = [returned EXCEPT ![w.task] = @ + 1]
    BY <1>7 DEF HandlerReturns
  <2>2. /\ phase[r] = "handling" /\ phase' = [phase EXCEPT ![r] = "completing"]
        /\ UNCHANGED <<status, lock, batch, current>>
    BY <1>7 DEF HandlerReturns
  <2>3. w.task \in Task /\ returned[w.task] = 0 /\ \A v \in current[r] : v = w
    BY <2>1, <2>2 DEF Fetched, OneCurrent
  <2>4. Apart' /\ Placed' /\ Locked'
    BY <2>2
  <2>5. \A t \in Task : returned'[t] = IF t = w.task THEN 1 ELSE returned[t]
    BY <2>1, <2>3
  <2>6. Reporting(r, w)'
    BY <2>2
  <2>7. \A q \in Replica : \A v \in Hand(q)' : v.task \in Task /\ v \in Hand(q)
    BY <2>2 DEF Fetched
  <2>8. \A q \in Replica : \A v \in Hand(q)' : returned'[v.task] = 0 \/ Reporting(q, v)'
    BY <2>2, <2>5, <2>6, <2>7
  <2>9. ASSUME NEW t \in Task PROVE status'[t] # "error" /\ returned'[t] <= 1
    <3>1. status' = status
      BY <2>2
    <3>2. status'[t] # "error" /\ returned[t] <= 1
      BY <1>a, <3>1, Zenon
    <3>3. 1 <= 1
      OBVIOUS
    <3> QED
      BY <2>5, <3>2, <3>3
  <2>10. ASSUME NEW t \in Task, returned'[t] > 0
         PROVE  \/ status'[t] = "completed"
                \/ \E q \in Replica : \E v \in current'[q] : v.task = t /\ Reporting(q, v)'
    <3>1. CASE t = w.task
      BY <2>2, <2>6, <3>1
    <3>2. CASE t # w.task
      BY <2>2, <2>5, <2>10, <3>2
    <3> QED
      BY <3>1, <3>2
  <2>11. Once'
    BY <2>8, <2>9, <2>10
  <2> QED
    BY <2>4, <2>11
<1>8. ASSUME NEW r \in Replica, HandlerRaises(r) PROVE Clean'
  BY <1>8 DEF HandlerRaises
<1>9. ASSUME NEW r \in Replica, Complete(r) PROVE Clean'
  <2>1. PICK w \in current[r] : Settle(w.task, "completed")
    BY <1>9 DEF Complete
  <2>2. /\ w.task \in Task /\ UNCHANGED <<returned, batch>>
        /\ phase' = [phase EXCEPT ![r] = "loop"] /\ current' = [current EXCEPT ![r] = {}]
    BY <1>9, <2>1 DEF Complete, NextOfBatch, Fetched
  <2>3. \A v \in current[r] : v = w
    BY DEF OneCurrent
  <2>4. \A q \in Replica : /\ Hand(q)' \subseteq Hand(q)
                           /\ \A v \in Hand(q)' : v.task \in Task /\ v.task # w.task
    BY <2>1, <2>2, <2>3 DEF Fetched
  <2>5. \A t \in Task \ {w.task} : status'[t] = status[t] /\ lock'[t] = lock[t]
    BY <2>1, <2>2 DEF Settle
  <2>6. status'[w.task] = "completed"
    BY <2>1, <2>2 DEF Settle
  <2>7. Apart' /\ Placed'
    BY <2>2, <2>4
  <2>8. Locked'
    <3>1. SUFFICES ASSUME NEW q \in Replica, NEW v \in Hand(q)'
                   PROVE  status'[v.task] = "open" /\ lock'[v.task] = "held"
      OBVIOUS
    <3>2. v \in Hand(q) /\ v.task \in Task \ {w.task}
      BY <2>4, <3>1
    <3>3. status[v.task] = "open" /\ lock[v.task] = "held"
      BY <3>2
    <3> QED
      BY <2>5, <3>2, <3>3
  <2>9. \A q \in Replica : \A v \in Hand(q)' : Reporting(q, v) => Reporting(q, v)'
    BY <2>2, <2>3, <2>4
  <2>10. \A q \in Replica : \A v \in current[q] :
           v.task = w.task \/ (v \in current'[q] /\ (Reporting(q, v) => Reporting(q, v)'))
    BY <2>2, <2>3
  <2>11. Once'
    BY <2>2, <2>4, <2>5, <2>6, <2>9, <2>10
  <2> QED
    BY <2>7, <2>8, <2>11
<1>10. ASSUME NEW r \in Replica, CompleteNotFound(r) PROVE Clean'
  BY <1>10 DEF CompleteNotFound
<1>11. ASSUME NEW r \in Replica, Throw(r) PROVE Clean'
  BY <1>11 DEF Throw
<1>12. ASSUME NEW r \in Replica, Fail(r) PROVE Clean'
  <2>1. PICK w \in current[r] : lock' = [lock EXCEPT ![w.task] = "backoff"] \/ lock' = lock
    BY <1>12 DEF Fail
  <2>2. /\ w.task \in Task /\ UNCHANGED <<status, returned, batch>> /\ phase[r] = "failing"
        /\ phase' = [phase EXCEPT ![r] = "loop"] /\ current' = [current EXCEPT ![r] = {}]
    BY <1>12, <2>1 DEF Fail, NextOfBatch, Fetched
  <2>3. \A v \in current[r] : v = w
    BY DEF OneCurrent
  <2>4. \A q \in Replica : /\ Hand(q)' \subseteq Hand(q)
                           /\ \A v \in Hand(q)' : v.task \in Task /\ v.task # w.task
    BY <2>1, <2>2, <2>3 DEF Fetched
  <2>5. \A t \in Task \ {w.task} : lock'[t] = lock[t]
    BY <2>1, <2>2
  <2>6. Apart' /\ Placed'
    BY <2>2, <2>4
  <2>7. Locked'
    BY <2>2, <2>4, <2>5
  <2>8. \A q \in Replica : \A v \in Hand(q) : Reporting(q, v) => Reporting(q, v)' /\ v \in current'[q]
    BY <2>2
  <2>9. Once'
    BY <2>2, <2>4, <2>8
  <2> QED
    BY <2>6, <2>7, <2>9
<1>13. CASE UNCHANGED vars
  BY <1>13 DEF vars
<1>14. ASSUME NEW r \in Replica, Disturbance(r) PROVE FALSE
  BY <1>14 DEF Disturbance, PollFails, CompleteFails, ReportLost, Crash, Fault
<1>15. ASSUME NEW t \in Task, LockOutrun(t) PROVE FALSE
  BY <1>15 DEF LockOutrun, Fault
<1> QED
  BY <1>1, <1>2, <1>3, <1>4, <1>5, <1>6, <1>7, <1>8, <1>9, <1>10, <1>11, <1>12,
     <1>13, <1>14, <1>15 DEF Next, Runner, Engine

LEMMA InvClean == Spec => []CleanInv
<1>1. Init => CleanInv
  BY DEF Init, CleanInv, Apart, Placed, Locked, Once, Hand
<1>2. TypeOK /\ OneCurrent /\ CleanInv /\ [Next]_vars => CleanInv'
  BY NextClean DEF CleanInv
<1>3. IInv => TypeOK /\ OneCurrent
  BY DEF IInv
<1> QED
  BY InvIInv, <1>1, <1>2, <1>3, PTL DEF Spec

\* What the runners of replica r and no other replica can have in hand.
LEMMA HandAlone ==
  ASSUME TypeOK, OneCurrent, Apart, NEW r \in Replica, NEW w \in current[r]
  PROVE  /\ w.task \in Task
         /\ \A v \in current[r] : v = w
         /\ \A q \in Replica : \A v \in Hand(q) : v.task \in Task
         /\ \A q \in Replica : \A v \in Hand(q) : v.task = w.task => q = r /\ v = w
<1>1. \A q \in Replica : \A v \in Hand(q) : v.task \in Task
  BY DEF TypeOK, Hand, Fetched
<1>2. w \in Hand(r)
  BY DEF Hand
<1> QED
  BY <1>1, <1>2 DEF OneCurrent, Apart

LEMMA LeftSteps ==
  ASSUME NEW w \in Fetched, w.retries # 0
  PROVE  /\ RetriesAfter(w) = Left(w.retries) - 1
         /\ Left(RetriesAfter(w)) = Left(w.retries) - 1
         /\ Left(w.retries) \in 1..MaxRetries
         /\ \A n \in RetryCount : Left(n) \in 0..MaxRetries
BY DEF RetriesAfter, Left, Unset, Fetched, RetryCount

\* Without a fault every attempt that raised is counted, once.
LEMMA NextCounted ==
  ASSUME IInv, CleanInv, CountInv, [Next]_vars, faults' = 0
  PROVE  Counted'
<1> USE DEF IInv, TypeOK, engineVars, runnerVars, historyVars
<1>0. faults = 0 /\ Apart /\ Placed /\ Locked /\ Once /\ Counted
  BY DEF vars, CleanInv, CountInv, Next, Runner, Disturbance, Engine, Create,
         LockExpires, LockOutrun, BackoffEnds, Start, Poll, PollFails, Begin,
         HandlerReturns, HandlerRaises, Complete, CompleteNotFound, CompleteFails,
         Throw, Fail, ReportLost, Crash, Fault
<1>a. ASSUME NEW r \in Replica, NEW w \in Hand(r)
      PROVE  /\ w \in Fetched /\ w.task \in Task /\ w.retries # 0
             /\ status[w.task] = "open" /\ w.retries = retries[w.task]
             /\ returned[w.task] = 0 \/ (phase[r] = "completing" /\ w \in current[r])
  BY <1>0 DEF Hand, Fetched, HandEarned, Locked, Counted, Once, Reporting
<1>b. \A t \in Task : /\ Left(retries[t]) \in 0..MaxRetries
                      /\ retries[t] # 0 => Left(retries[t]) \in 1..MaxRetries
  BY DEF Left, RetryCount, Unset
\* The steps that neither raise, return, report nor fetch.
<1>c. ASSUME UNCHANGED <<status, retries, returned, raised>>,
             \A q \in Replica : Hand(q)' \subseteq Hand(q),
             \A q \in Replica : /\ phase'[q] = "failing" <=> phase[q] = "failing"
                                /\ phase[q] = "failing" => current'[q] = current[q]
      PROVE  Counted'
  <2>1. \A t : Failing(t)' <=> Failing(t)
    BY <1>c DEF Failing
  <2> QED
    BY <1>0, <1>c, <2>1 DEF Counted
<1>1. ASSUME NEW t \in Task, Create(t) PROVE Counted'
  <2>1. /\ status[t] = "none" /\ status' = [status EXCEPT ![t] = "open"]
        /\ retries' = [retries EXCEPT ![t] = Unset]
        /\ UNCHANGED <<returned, raised, phase, batch, current>>
    BY <1>1 DEF Create
  <2>2. \A q \in Replica : \A w \in Hand(q) : w.task # t /\ w.task \in Task
    BY <1>a, <2>1
  <2>3. \A q \in Replica : Hand(q)' = Hand(q)
    BY <2>1 DEF Hand
  <2>4. \A u : Failing(u)' <=> Failing(u)
    BY <2>1 DEF Failing
  <2>5. ~Failing(t)
    BY <2>2 DEF Failing, Hand
  <2>6. Left(Unset) = MaxRetries
    BY DEF Left
  <2>7. \A u \in Task \ {t} : status'[u] = status[u] /\ retries'[u] = retries[u]
    BY <2>1
  <2>8. status'[t] = "open" /\ retries'[t] = Unset /\ raised[t] = 0
    BY <1>0, <2>1 DEF Counted
  <2>9. \A q \in Replica : \A w \in Hand(q) : w.retries = retries'[w.task]
    BY <1>0, <2>2, <2>7 DEF Counted
  <2> QED
    BY <1>0, <2>1, <2>3, <2>4, <2>5, <2>6, <2>7, <2>8, <2>9 DEF Counted
<1>2. ASSUME NEW t \in Task, Engine(t) PROVE Counted'
  BY <1>c, <1>2 DEF Engine, LockExpires, BackoffEnds, Hand
<1>3. ASSUME NEW r \in Replica, Start(r) PROVE Counted'
  BY <1>c, <1>3 DEF Start, Hand
<1>4. ASSUME NEW r \in Replica, Poll(r) PROVE Counted'
  <2>1. PICK S \in SUBSET Fetchable(topic[r]) :
          batch' = [batch EXCEPT ![r] = {[task |-> t, retries |-> retries[t]] : t \in S}]
    BY <1>4 DEF Poll
  <2>2. UNCHANGED <<status, retries, returned, raised, phase, current>>
    BY <1>4 DEF Poll, LockBatch
  <2>3. \A t : Failing(t)' <=> Failing(t)
    BY <2>2 DEF Failing
  <2>4. \A q \in Replica : \A w \in Hand(q)' : w.retries = retries[w.task]
    BY <1>0, <2>1, <2>2 DEF Counted, Hand
  <2> QED
    BY <1>0, <2>2, <2>3, <2>4 DEF Counted
<1>5. ASSUME NEW r \in Replica, Begin(r) PROVE Counted'
  <2>1. PICK w \in batch[r] : /\ current' = [current EXCEPT ![r] = {w}]
                              /\ batch' = [batch EXCEPT ![r] = @ \ {w}]
    BY <1>5 DEF Begin
  <2>2. /\ phase[r] = "loop" /\ phase' = [phase EXCEPT ![r] = "handling"]
        /\ UNCHANGED <<status, retries, returned, raised>>
    BY <1>5 DEF Begin
  <2>3. \A q \in Replica : Hand(q)' \subseteq Hand(q)
    BY <2>1 DEF Hand
  <2>4. \A q \in Replica : /\ phase'[q] = "failing" <=> phase[q] = "failing"
                           /\ phase[q] = "failing" => current'[q] = current[q]
    BY <2>1, <2>2
  <2> QED
    BY <1>c, <2>2, <2>3, <2>4
<1>6. ASSUME NEW r \in Replica, HandlerReturns(r) PROVE Counted'
  <2>1. PICK w \in current[r] : returned' = [returned EXCEPT ![w.task] = @ + 1]
    BY <1>6 DEF HandlerReturns
  <2>2. /\ phase[r] = "handling" /\ phase' = [phase EXCEPT ![r] = "completing"]
        /\ UNCHANGED <<status, retries, raised, batch, current>>
    BY <1>6 DEF HandlerReturns
  <2>3. /\ w \in Hand(r) /\ w.task \in Task
        /\ \A q \in Replica : \A v \in current[q] : v.task = w.task => q = r
    BY <1>0, HandAlone DEF Hand
  <2>4. ~Failing(w.task)
    BY <2>2, <2>3 DEF Failing
  <2>5. /\ status[w.task] = "open" /\ returned[w.task] = 0
        /\ Left(retries[w.task]) \in 1..MaxRetries
    BY <1>a, <1>b, <2>2, <2>3
  <2>6. returned'[w.task] + raised[w.task] <= MaxRetries
    <3>1. returned'[w.task] = 1
      BY <2>1, <2>3, <2>5
    <3>2. raised[w.task] = MaxRetries - Left(retries[w.task])
      BY <1>0, <2>3, <2>4, <2>5 DEF Counted
    <3> QED
      BY <2>5, <3>1, <3>2
  <2>7. \A t \in Task \ {w.task} : returned'[t] = returned[t]
    BY <2>1
  <2>8. \A q \in Replica : Hand(q)' = Hand(q)
    BY <2>2 DEF Hand
  <2>9. \A t : Failing(t)' <=> Failing(t)
    BY <2>2 DEF Failing
  <2>10. \A t \in Task : returned'[t] + raised[t] <= MaxRetries
    <3>1. \A t \in Task : returned[t] + raised[t] <= MaxRetries
      BY <1>0 DEF Counted
    <3> QED
      BY <2>6, <2>7, <3>1
  <2>11. \A q \in Replica : \A v \in Hand(q)' : v.retries = retries'[v.task]
    BY <1>0, <2>2, <2>8 DEF Counted
  <2>12. \A t \in Task :
          /\ status'[t] = "none" => raised'[t] = 0
          /\ status'[t] = "open" /\ ~Failing(t)' => raised'[t] = MaxRetries - Left(retries'[t])
          /\ Failing(t)' => raised'[t] = MaxRetries - Left(retries'[t]) + 1
    BY <1>0, <2>2, <2>9, Zenon DEF Counted
  <2> QED
    BY <2>2, <2>10, <2>11, <2>12 DEF Counted
<1>7. ASSUME NEW r \in Replica, HandlerRaises(r) PROVE Counted'
  <2>1. PICK w \in current[r] : raised' = [raised EXCEPT ![w.task] = @ + 1]
    BY <1>7 DEF HandlerRaises
  <2>2. /\ phase[r] = "handling" /\ phase' = [phase EXCEPT ![r] = "failing"]
        /\ UNCHANGED <<status, retries, returned, batch, current>>
    BY <1>7 DEF HandlerRaises
  <2>3. /\ w \in Hand(r) /\ w.task \in Task /\ \A v \in current[r] : v = w
        /\ \A q \in Replica : \A v \in current[q] : v.task = w.task => q = r
    BY <1>0, HandAlone DEF Hand
  <2>4. ~Failing(w.task) /\ Failing(w.task)'
    BY <2>2, <2>3 DEF Failing
  <2>5. /\ status[w.task] = "open" /\ returned[w.task] = 0
        /\ Left(retries[w.task]) \in 1..MaxRetries
    BY <1>a, <1>b, <2>2, <2>3
  <2>6. /\ raised[w.task] = MaxRetries - Left(retries[w.task])
        /\ raised'[w.task] = raised[w.task] + 1
    BY <1>0, <2>1, <2>3, <2>4, <2>5 DEF Counted
  <2>7. returned[w.task] + raised'[w.task] <= MaxRetries
    BY <2>5, <2>6
  <2>8. \A t \in Task \ {w.task} : raised'[t] = raised[t] /\ (Failing(t)' <=> Failing(t))
    BY <2>1, <2>2, <2>3 DEF Failing
  <2>9. \A q \in Replica : Hand(q)' = Hand(q)
    BY <2>2 DEF Hand
  <2> QED
    BY <1>0, <2>2, <2>4, <2>5, <2>6, <2>7, <2>8, <2>9 DEF Counted
<1>8. ASSUME NEW r \in Replica, Complete(r) PROVE Counted'
  <2>1. PICK w \in current[r] : Settle(w.task, "completed")
    BY <1>8 DEF Complete
  <2>2. /\ UNCHANGED <<returned, raised, batch>> /\ phase[r] = "completing"
        /\ phase' = [phase EXCEPT ![r] = "loop"] /\ current' = [current EXCEPT ![r] = {}]
    BY <1>8 DEF Complete, NextOfBatch
  <2>3. /\ w.task \in Task /\ \A v \in current[r] : v = w
        /\ \A q \in Replica : \A v \in Hand(q) : v.task = w.task => q = r /\ v = w
        /\ \A q \in Replica : \A v \in Hand(q) : v.task \in Task
    BY <1>0, HandAlone
  <2>4. /\ status'[w.task] = "completed"
        /\ \A t \in Task \ {w.task} : status'[t] = status[t] /\ retries'[t] = retries[t]
    BY <2>1, <2>3 DEF Settle
  <2>5. \A q \in Replica : Hand(q)' \subseteq Hand(q) /\ \A v \in Hand(q)' : v.task # w.task
    BY <1>0, <2>2, <2>3 DEF Hand, Placed
  <2>6. ~Failing(w.task)' /\ \A t : t # w.task => (Failing(t)' <=> Failing(t))
    BY <2>2, <2>3 DEF Failing, Hand
  <2>7. \A q \in Replica : \A v \in Hand(q)' : v.retries = retries'[v.task]
    BY <1>0, <2>3, <2>4, <2>5 DEF Counted
  <2> QED
    BY <1>0, <2>2, <2>4, <2>6, <2>7 DEF Counted
<1>9. ASSUME NEW r \in Replica, CompleteNotFound(r) \/ Throw(r) PROVE FALSE
  BY <1>0, <1>9, <1>a DEF CompleteNotFound, Throw, Placed, Hand
<1>10. ASSUME NEW r \in Replica, Fail(r) PROVE Counted'
  <2>1. PICK w \in current[r] :
          IF status[w.task] = "open"
          THEN retries' = [retries EXCEPT ![w.task] = RetriesAfter(w)] /\ UNCHANGED status
          ELSE UNCHANGED engineVars
    BY <1>10 DEF Fail
  <2>2. /\ UNCHANGED <<returned, raised, batch>> /\ phase[r] = "failing"
        /\ phase' = [phase EXCEPT ![r] = "loop"] /\ current' = [current EXCEPT ![r] = {}]
    BY <1>10 DEF Fail, NextOfBatch
  <2>3. /\ w.task \in Task /\ \A v \in current[r] : v = w
        /\ \A q \in Replica : \A v \in Hand(q) : v.task = w.task => q = r /\ v = w
        /\ \A q \in Replica : \A v \in Hand(q) : v.task \in Task
    BY <1>0, HandAlone
  <2>4. w \in Fetched /\ w.retries # 0 /\ status[w.task] = "open" /\ w.retries = retries[w.task]
    BY <1>a DEF Hand
  <2>5. /\ retries'[w.task] = RetriesAfter(w) /\ status' = status
        /\ \A t \in Task \ {w.task} : retries'[t] = retries[t]
    BY <2>1, <2>3, <2>4
  <2>6. \A q \in Replica : Hand(q)' \subseteq Hand(q) /\ \A v \in Hand(q)' : v.task # w.task
    BY <1>0, <2>2, <2>3 DEF Hand, Placed
  <2>7. /\ Failing(w.task) /\ ~Failing(w.task)'
        /\ \A t : t # w.task => (Failing(t)' <=> Failing(t))
    BY <2>2, <2>3 DEF Failing, Hand
  <2>8. raised[w.task] = MaxRetries - Left(RetriesAfter(w))
    <3>1. raised[w.task] = MaxRetries - Left(retries[w.task]) + 1
      BY <1>0, <2>3, <2>7 DEF Counted
    <3>2. /\ Left(RetriesAfter(w)) = Left(w.retries) - 1
          /\ Left(w.retries) \in 1..MaxRetries
      BY <2>4, LeftSteps
    <3> QED
      BY <2>4, <3>1, <3>2
  <2>9. \A q \in Replica : \A v \in Hand(q)' : v.retries = retries'[v.task]
    BY <1>0, <2>3, <2>5, <2>6 DEF Counted
  <2> QED
    BY <1>0, <2>2, <2>4, <2>5, <2>7, <2>8, <2>9 DEF Counted
<1>11. CASE UNCHANGED vars
  BY <1>11, <1>c DEF vars, Hand
<1>12. ASSUME NEW r \in Replica, Disturbance(r) PROVE FALSE
  BY <1>0, <1>12 DEF Disturbance, PollFails, CompleteFails, ReportLost, Crash, Fault
<1>13. ASSUME NEW t \in Task, LockOutrun(t) PROVE FALSE
  BY <1>0, <1>13 DEF LockOutrun, Fault
<1> QED
  BY <1>1, <1>2, <1>3, <1>4, <1>5, <1>6, <1>7, <1>8, <1>9, <1>10, <1>11, <1>12,
     <1>13 DEF Next, Runner

LEMMA InvCount == Spec => []CountInv
<1>1. Init => CountInv
  <2> SUFFICES ASSUME Init PROVE Counted
    BY DEF CountInv
  <2>1. \A r \in Replica : Hand(r) = {} /\ phase[r] = "down"
    BY DEF Init, Hand
  <2>2. \A t : ~Failing(t)
    BY <2>1 DEF Failing
  <2>3. \A t \in Task : status[t] = "none" /\ raised[t] = 0 /\ returned[t] = 0
    BY DEF Init
  <2> QED
    BY <2>1, <2>2, <2>3, SettingsAssumption DEF Counted
<1>2. IInv /\ CleanInv /\ CountInv /\ [Next]_vars => CountInv'
  BY NextCounted DEF CountInv
<1> QED
  BY InvIInv, InvClean, <1>1, <1>2, PTL DEF Spec

\* Without a fault no task is worked on by two replicas, no handler returns
\* twice for the same task or runs more often than MaxRetries, and no error
\* is thrown.
THEOREM OnceUntilAFault == Spec => []OnceWithoutFaults
<1>1. ASSUME CleanInv, CountInv PROVE OnceWithoutFaults
  <2> SUFFICES ASSUME faults = 0, NEW t \in Task
               PROVE  /\ status[t] # "error"
                      /\ returned[t] <= 1
                      /\ returned[t] + raised[t] <= MaxRetries
                      /\ \A q, r \in Replica : t \in InHand(q) \cap InHand(r) => q = r
    BY DEF OnceWithoutFaults
  <2>1. Once /\ Apart /\ Counted
    BY <1>1 DEF CleanInv, CountInv
  <2>2. returned[t] + raised[t] <= MaxRetries
    BY <2>1 DEF Counted
  <2>3. status[t] # "error" /\ returned[t] <= 1
    BY <2>1 DEF Once
  <2>4. \A q, r \in Replica : t \in InHand(q) \cap InHand(r) => q = r
    BY <2>1 DEF Apart, InHand, Hand
  <2> QED
    BY <2>2, <2>3, <2>4
<1> QED
  BY InvClean, InvCount, <1>1, PTL
-----------------------------------------------------------------------------
(***************************************************************************)
(* The worker keeps its promise: under the mapping of ExternalTask every   *)
(* step is a step of TaskOutcome, or changes nothing it can see.           *)
(***************************************************************************)
USE DEF outcomeBar, effectBar

LEMMA InitPromise == Init => Outcome!TaskInit
BY DEF Init, Outcome!TaskInit, Incident, Unset

LEMMA OutcomeType ==
  ASSUME TypeOK'
  PROVE  outcomeBar' \in [Task -> Outcome!Outcomes]
BY DEF TypeOK, Outcome!Outcomes, Statuses

\* Settling a task whose handler has returned is an abstract end.
LEMMA SettlePromise ==
  ASSUME IInv, TypeOK', NEW t \in Task, NEW o \in {"completed", "error"},
         status[t] = "open", returned[t] > 0, Settle(t, o), UNCHANGED returned
  PROVE  Outcome!TaskNext
<1> USE DEF IInv, TypeOK, Settle
<1>1. Outcome!CanEnd(t)
  BY DEF Outcome!CanEnd, Outcome!Unsettled
<1>2. outcomeBar'[t] \in {"completed", "error"}
  BY DEF Incident
<1>3. \A s \in Task \ {t} : status'[s] = status[s] /\ retries'[s] = retries[s]
  OBVIOUS
<1>4. \A s \in Task \ {t} : outcomeBar'[s] = outcomeBar[s]
  BY <1>3 DEF Incident
<1>5. \A s \in Task : Outcome!TaskStep(s)
  BY <1>1, <1>2, <1>4 DEF Outcome!TaskStep
<1>6. effectBar' = effectBar
  OBVIOUS
<1> QED
  BY <1>5, <1>6, OutcomeType DEF Outcome!TaskNext

\* What only moves locks, batches and runners is hidden.
LEMMA HiddenPromise ==
  ASSUME UNCHANGED <<status, retries, returned>>
  PROVE  UNCHANGED <<outcomeBar, effectBar>>
BY DEF Incident

LEMMA NextPromise == IInv /\ TypeOK' /\ [Next]_vars
                       => [Outcome!TaskNext]_(Outcome!taskVars)
<1> DEFINE Kept == Outcome!TaskNext \/ UNCHANGED <<outcomeBar, effectBar>>
<1> SUFFICES ASSUME IInv, TypeOK', [Next]_vars PROVE Kept
  BY DEF Outcome!taskVars
<1> USE DEF IInv, TypeOK, engineVars, runnerVars, historyVars
<1>1. ASSUME NEW t \in Task, Create(t) PROVE Kept
  <2>1. outcomeBar[t] = "none" /\ UNCHANGED effectBar
    BY <1>1 DEF Create, Incident
  <2>2. status'[t] = "open" /\ retries'[t] = -1
    BY <1>1 DEF Create, Unset
  <2>3. outcomeBar'[t] = "pending"
    BY <2>2 DEF Incident
  <2>4. \A s \in Task \ {t} : status'[s] = status[s] /\ retries'[s] = retries[s]
    BY <1>1 DEF Create
  <2>5. \A s \in Task \ {t} : outcomeBar'[s] = outcomeBar[s]
    BY <2>4 DEF Incident
  <2>6. \A s \in Task : Outcome!TaskStep(s)
    BY <2>1, <2>3, <2>5 DEF Outcome!TaskStep
  <2> QED
    BY <2>1, <2>6, OutcomeType DEF Outcome!TaskNext
<1>2. ASSUME NEW t \in Task, Engine(t) \/ LockOutrun(t) PROVE Kept
  BY <1>2, HiddenPromise DEF Engine, LockExpires, BackoffEnds, LockOutrun
<1>3. ASSUME NEW r \in Replica, Start(r) \/ Begin(r) \/ HandlerRaises(r) PROVE Kept
  BY <1>3, HiddenPromise DEF Start, Begin, HandlerRaises
<1>4. ASSUME NEW r \in Replica, Poll(r) \/ PollFails(r) PROVE Kept
  BY <1>4, HiddenPromise DEF Poll, PollFails, LockBatch
<1>5. ASSUME NEW r \in Replica, HandlerReturns(r) PROVE Kept
  <2>1. PICK w \in current[r] : returned' = [returned EXCEPT ![w.task] = @ + 1]
    BY <1>5 DEF HandlerReturns
  <2>2. w.task \in Task /\ status[w.task] # "none"
    BY <2>1 DEF HandCreated, Fetched
  <2>3. effectBar' = effectBar \cup {w.task}
    BY <2>1, <2>2
  <2>4. outcomeBar[w.task] # "none"
    BY <2>2 DEF Incident
  <2>5. UNCHANGED outcomeBar
    BY <1>5 DEF HandlerReturns, Incident
  <2> QED
    BY <2>2, <2>3, <2>4, <2>5, OutcomeType
       DEF Outcome!TaskNext, Outcome!TaskStep, Outcome!CanRun
<1>6. ASSUME NEW r \in Replica, Complete(r) PROVE Kept
  <2>1. PICK w \in current[r] : status[w.task] = "open" /\ Settle(w.task, "completed")
    BY <1>6 DEF Complete
  <2>2. w.task \in Task /\ returned[w.task] > 0 /\ UNCHANGED returned
    BY <1>6, <2>1 DEF Complete, HandReturned, Fetched
  <2> QED
    BY <2>1, <2>2, SettlePromise
<1>7. ASSUME NEW r \in Replica, CompleteNotFound(r) \/ ReportLost(r) \/ Crash(r) PROVE Kept
  BY <1>7, HiddenPromise DEF CompleteNotFound, ReportLost, Crash
<1>8. ASSUME NEW r \in Replica, CompleteFails(r) PROVE Kept
  <2>1. CASE UNCHANGED engineVars
    BY <1>8, <2>1, HiddenPromise DEF CompleteFails
  <2>2. ASSUME NEW w \in current[r], status[w.task] = "open", Settle(w.task, "completed")
        PROVE  Kept
    <3>1. w.task \in Task /\ returned[w.task] > 0 /\ UNCHANGED returned
      BY <1>8, <2>2 DEF CompleteFails, HandReturned, Fetched
    <3> QED
      BY <2>2, <3>1, SettlePromise
  <2> QED
    BY <1>8, <2>1, <2>2 DEF CompleteFails
<1>9. ASSUME NEW r \in Replica, Throw(r) PROVE Kept
  <2>1. PICK w \in current[r] :
          \/ status[w.task] = "open" /\ Settle(w.task, "error")
          \/ UNCHANGED engineVars
    BY <1>9 DEF Throw
  <2>2. w.task \in Task /\ returned[w.task] > 0 /\ UNCHANGED returned
    BY <1>9, <2>1 DEF Throw, HandReturned, Fetched
  <2> QED
    BY <2>1, <2>2, SettlePromise, HiddenPromise
<1>10. ASSUME NEW r \in Replica, Fail(r) PROVE Kept
  <2>1. UNCHANGED <<status, returned>>
    BY <1>10 DEF Fail
  <2>2. CASE UNCHANGED retries
    BY <2>1, <2>2, HiddenPromise
  <2>3. ASSUME NEW w \in current[r], status[w.task] = "open",
               retries' = [retries EXCEPT ![w.task] = RetriesAfter(w)]
        PROVE  Kept
    <3>1. w.task \in Task /\ UNCHANGED effectBar
      BY <2>1, <2>3 DEF Fetched
    <3>2. Outcome!Unsettled(w.task) /\ Outcome!Unsettled(w.task)'
      BY <2>1, <2>3, <3>1 DEF Outcome!Unsettled, Incident
    <3>3. \A s \in Task \ {w.task} : outcomeBar'[s] = outcomeBar[s]
      BY <2>1, <2>3, <3>1 DEF Incident
    <3>4. \A s \in Task : Outcome!TaskStep(s)
      BY <3>2, <3>3 DEF Outcome!TaskStep
    <3> QED
      BY <3>1, <3>4, OutcomeType DEF Outcome!TaskNext
  <2> QED
    BY <1>10, <2>2, <2>3 DEF Fail
<1>11. CASE UNCHANGED vars
  BY <1>11, HiddenPromise DEF vars
<1> QED
  BY <1>1, <1>2, <1>3, <1>4, <1>5, <1>6, <1>7, <1>8, <1>9, <1>10, <1>11
     DEF Next, Runner, Disturbance

\* ExternalTask implements TaskOutcome: whatever is lost, late or repeated, a
\* process model may rely on the handler having returned before its task ends
\* and on the end being final.
THEOREM Implements == Spec => KeepsPromise
<1>1. IInv' => TypeOK'
  BY DEF IInv
<1> QED
  BY InvIInv, InitPromise, NextPromise, <1>1, PTL
     DEF Spec, KeepsPromise, Outcome!TaskSpec
=============================================================================
