------------------------ MODULE BackgroundTasksProofs ------------------------
(***************************************************************************)
(* Theorems about BackgroundTasks: any number of tasks, workers, requests, *)
(* numbers and faults, and any limit of the throttle.                      *)
(***************************************************************************)
EXTENDS BackgroundTasks, WaitCirclesProofs

USE LimitAssumption, BoundAssumption

\* The requests counted since the key last expired pass the limit by no more
\* than those that overlap at the check, each but the first.
THEOREM ThrottleOvershootIsBounded == Spec => []OvershootBounded
<1> DEFINE Inv == slots \in Nat /\ passed \subseteq Request /\ OvershootBounded
<1>1. Cardinality(Request) \in Nat
  BY FiniteAssumption, FS_CardinalityType
<1>2. Init => Inv
  BY <1>1, FS_EmptySet DEF Init, OvershootBounded
<1>3. Inv /\ [Next]_vars => Inv'
  <2> SUFFICES ASSUME Inv, [Next]_vars PROVE Inv'
    OBVIOUS
  <2>1. IsFiniteSet(passed) /\ Cardinality(passed) \in Nat
    BY FiniteAssumption, FS_Subset, FS_CardinalityType
  <2>2. ASSUME NEW q \in Request, Check(q) PROVE Inv'
    <3>1. Cardinality(passed') = Cardinality(passed) + 1
      BY <2>1, <2>2, FS_AddElement DEF Check
    <3>2. Cardinality(passed') <= Cardinality(Request)
      BY <2>2, FiniteAssumption, FS_Subset DEF Check
    <3> QED
      BY <1>1, <2>1, <2>2, <3>1, <3>2 DEF Check, Below, OvershootBounded
  <2>3. ASSUME NEW q \in Request, Admit(q) PROVE Inv'
    <3>1. CASE Count(q)
      <4>1. Cardinality(passed') = Cardinality(passed) - 1
        BY <2>1, <3>1, FS_RemoveElement DEF Count
      <4> QED
        BY <1>1, <2>1, <3>1, <4>1 DEF Count, OvershootBounded
    <3>2. CASE FailOpen(q)
      <4>1. Cardinality(passed') <= Cardinality(passed) /\ Cardinality(passed') \in Nat
        <5>1. passed' \subseteq passed
          BY <3>2 DEF FailOpen
        <5> QED
          BY <2>1, <5>1, FS_Subset, FS_CardinalityType
      <4> QED
        BY <1>1, <2>1, <3>2, <4>1 DEF FailOpen, OvershootBounded
    <3> QED
      BY <2>3, <3>1, <3>2 DEF Admit
  <2>4. CASE Expire
    BY <1>1, <2>1, <2>4 DEF Expire, OvershootBounded
  <2>5. CASE UNCHANGED throttleVars
    BY <2>5 DEF throttleVars, OvershootBounded
  <2>6. ASSUME NEW w \in Worker,
               \/ \E m \in Task : Deliver(w, m)
               \/ Step(w) \/ RowFails(w) \/ Crash(w) \/ TimesOut(w)
        PROVE  UNCHANGED throttleVars
    BY <2>6 DEF Deliver, Step, Send, NextFile, LookUp, SkipRow, Insert, DeadlockVictim,
                Commit, Ack, RowFails, Crash, TimesOut
  <2>7. CASE UNCHANGED vars
    BY <2>5, <2>7 DEF vars, throttleVars
  <2> QED
    BY <2>2, <2>3, <2>4, <2>5, <2>6, <2>7 DEF Next, Look, Import, SendBulk
<1> QED
  BY <1>2, <1>3, PTL DEF Spec
-----------------------------------------------------------------------------
LEMMA InitIInv == Init => IInv
<1> SUFFICES ASSUME Init PROVE IInv
  OBVIOUS
<1> USE DEF Init
<1>1. TypeOK
  <2>1. Free \in Runs
    BY DEF Free, Runs, Outs
  <2>2. NoTask \in TaskRecords
    BY DEF NoTask, TaskRecords
  <2> QED
    BY <2>1, <2>2 DEF TypeOK
<1>2. HoldsOne /\ NoTrace
  BY DEF HoldsOne, NoTrace, Free
<1>3. LeadsFit /\ LogsFit
  BY DEF LeadsFit, LogsFit, Free
<1>4. Counted
  <2>1. ASSUME NEW m \in Task, NEW pc PROVE Cardinality(At(run, m, pc)) = 0
    <3>1. At(run, m, pc) = {}
      BY DEF At, Free
    <3> QED
      BY <3>1, FS_EmptySet
  <2>2. ASSUME NEW m \in Task PROVE ~AppendsLog(m)
    BY DEF AppendsLog, NoTask
  <2> QED
    BY <2>1, <2>2 DEF Counted
<1>5. ResultsFit /\ NotLost
  BY DEF ResultsFit, NotLost, NoTask
<1> QED
  BY <1>1, <1>2, <1>3, <1>4, <1>5 DEF IInv

\* How many workers are at a place with a task, when one of them moves.
LEMMA AtType ==
  ASSUME NEW f, NEW m, NEW pc
  PROVE  IsFiniteSet(At(f, m, pc)) /\ Cardinality(At(f, m, pc)) \in Nat
<1>1. At(f, m, pc) \subseteq Worker
  BY DEF At
<1> QED
  BY <1>1, FiniteAssumption, FS_Subset, FS_CardinalityType

LEMMA AtLeaves ==
  ASSUME NEW f, NEW m, NEW pc, NEW w \in At(f, m, pc)
  PROVE  Cardinality(At(f, m, pc) \ {w}) = Cardinality(At(f, m, pc)) - 1
<1>1. IsFiniteSet(At(f, m, pc)) /\ Cardinality(At(f, m, pc)) \in Nat
  BY AtType
<1> QED
  BY <1>1, FS_RemoveElement, ZenonT(30)

LEMMA AtJoins ==
  ASSUME NEW f, NEW m, NEW pc, NEW w, w \notin At(f, m, pc)
  PROVE  Cardinality(At(f, m, pc) \cup {w}) = Cardinality(At(f, m, pc)) + 1
<1>1. IsFiniteSet(At(f, m, pc)) /\ Cardinality(At(f, m, pc)) \in Nat
  BY AtType
<1> QED
  BY <1>1, FS_AddElement, ZenonT(30)

LEMMA HeldIsTask ==
  ASSUME IInv, NEW w \in Worker, NEW m \in run[w].of
  PROVE  m \in Task /\ run[w].of = {m} /\ run[w].pc # "free"
BY DEF IInv, HoldsOne, Places

\* The task of a worker that has one.
LEMMA HeldTask ==
  ASSUME IInv, NEW w \in Worker, run[w].pc # "free"
  PROVE  \E m \in Task : /\ run[w].of = {m} /\ run[w].pc \in Places(task[m].kind)
                         /\ task[m].kind # "none"
BY DEF IInv, HoldsOne, Places
-----------------------------------------------------------------------------
(* The steps. *)

LEMMA AskKeeps ==
  ASSUME IInv, NEW m \in Task, NEW kind \in Kinds, NEW phones \in SUBSET Phones,
         NEW inline \in BOOLEAN, Ask(m, kind, phones, inline),
         slots' \in Nat, passed' \subseteq Request
  PROVE  IInv'
<1> DEFINE new == [kind |-> kind, phones |-> phones, inline |-> inline]
<1> USE DEF IInv
<1>1. /\ task' = [task EXCEPT ![m] = new] /\ queue' = [queue EXCEPT ![m] = 1]
      /\ UNCHANGED <<result, run, contacts, logged, sent, started, faults>>
      /\ task[m].kind = "none"
  BY DEF Ask, storeVars, NoTask
<1>2. TypeOK'
  <2>1. new \in TaskRecords
    BY DEF TaskRecords
  <2> QED
    BY <1>1, <2>1 DEF TypeOK
<1>3. \A n \in Task : /\ task'[n] = IF n = m THEN new ELSE task[n]
                      /\ queue'[n] = IF n = m THEN 1 ELSE queue[n]
  BY <1>1 DEF TypeOK
<1>4. \A w \in Worker : m \notin run[w].of
  BY <1>1 DEF HoldsOne, Places
<1>5. /\ queue[m] = 0 /\ started[m] = 0 /\ result[m] = "none"
      /\ logged[m] = 0 /\ sent[m] = 0
  BY <1>1 DEF NoTrace
<1>6. \A n \in Task : n # m => AppendsLog(n)' = AppendsLog(n)
  BY <1>3 DEF AppendsLog
<1>7. HoldsOne'
  <2> SUFFICES ASSUME NEW w \in Worker
               PROVE  \/ run[w].pc = "free" /\ run[w].of = {}
                      \/ \E n \in Task : run[w].of = {n} /\ run[w].pc \in Places(task'[n].kind)
    BY <1>1 DEF HoldsOne, Places
  <2> QED
    BY <1>3, <1>4 DEF HoldsOne
<1>8. NoTrace'
  BY <1>1, <1>3 DEF NoTrace, Kinds
<1>9. LeadsFit'
  BY <1>1, <1>3, <1>4, HeldIsTask DEF LeadsFit
<1>10. LogsFit'
  BY <1>1, <1>4, <1>6, HeldIsTask DEF LogsFit
<1>11. Counted'
  <2> SUFFICES ASSUME NEW n \in Task
               PROVE  /\ sent[n] + Cardinality(At(run, n, "send")) <= started[n]
                      /\ IF AppendsLog(n)'
                         THEN logged[n] + Cardinality(At(run, n, "commit"))
                                <= IF task'[n].kind = "send" THEN sent[n] ELSE started[n]
                         ELSE logged[n] = 0
                      /\ started[n] + queue'[n] <= 1 + faults
    BY <1>1 DEF Counted, At
  <2>1. CASE n # m
    BY <1>3, <1>6, <2>1 DEF Counted
  <2>2. CASE n = m
    <3>1. ASSUME NEW pc PROVE Cardinality(At(run, m, pc)) = 0
      <4>1. At(run, m, pc) = {}
        BY <1>4 DEF At
      <4> QED
        BY <4>1, FS_EmptySet
    <3> QED
      BY <1>3, <1>5, <2>2, <3>1 DEF TypeOK
  <2> QED
    BY <2>1, <2>2
<1>12. ResultsFit'
  BY <1>1, <1>3, <1>5, <1>6 DEF ResultsFit
<1>13. NotLost'
  BY <1>1, <1>3 DEF NotLost
<1> QED
  BY <1>2, <1>7, <1>8, <1>9, <1>10, <1>11, <1>12, <1>13

\* A worker goes on with its task: it stores nothing, sends nothing and ends nothing.
LEMMA MoveKeeps ==
  ASSUME IInv, NEW w \in Worker, NEW m \in Task, NEW r \in Runs,
         run[w].of = {m}, run[w].pc # "send", r.of = {m}, r.pc \in Places(task[m].kind) \ {"send"},
         run' = [run EXCEPT ![w] = r],
         UNCHANGED <<slots, passed, task, queue, result, contacts, logged, sent, started>>,
         faults' \in Nat, faults' >= faults,
         AppendsLog(m) => run[w].pc = "commit" /\ r.pc = "commit",
         task[m].kind = "leads" /\ r.out = "clean" =>
           /\ r.pc \in {"work", "insert"} => task[m].phones \subseteq contacts \cup r.adds \cup r.rows
           /\ r.pc = "commit" => r.doomed
           /\ r.pc # "ack"
  PROVE  IInv'
<1> USE DEF IInv
<1>1. TypeOK'
  BY DEF TypeOK
<1>2. \A v \in Worker : run'[v] = IF v = w THEN r ELSE run[v]
  BY DEF TypeOK
<1>3. \A n \in Task : AppendsLog(n)' = AppendsLog(n)
  BY DEF AppendsLog
<1>4. HoldsOne'
  BY <1>2 DEF HoldsOne
<1>5. NoTrace'
  BY DEF NoTrace
<1>6. LeadsFit'
  BY <1>2, HeldIsTask DEF LeadsFit
<1>7. LogsFit'
  BY <1>2, <1>3, HeldIsTask DEF LogsFit
<1>8. Counted'
  <2> SUFFICES ASSUME NEW n \in Task
               PROVE  /\ sent[n] + Cardinality(At(run', n, "send")) <= started[n]
                      /\ IF AppendsLog(n)
                         THEN logged[n] + Cardinality(At(run', n, "commit"))
                                <= IF task[n].kind = "send" THEN sent[n] ELSE started[n]
                         ELSE logged[n] = 0
                      /\ started[n] + queue[n] <= 1 + faults'
    BY <1>3 DEF Counted
  <2>0. run \in [Worker -> Runs]
    BY DEF TypeOK
  <2>1. Cardinality(At(run', n, "send")) = Cardinality(At(run, n, "send"))
    <3>1. (n \in run[w].of /\ run[w].pc = "send") <=> (n \in r.of /\ r.pc = "send")
      OBVIOUS
    <3>2. At([run EXCEPT ![w] = r], n, "send") = At(run, n, "send")
      BY <2>0, <3>1 DEF At
    <3> QED
      BY <3>2
  <2>2. ASSUME AppendsLog(n)
        PROVE  Cardinality(At(run', n, "commit")) = Cardinality(At(run, n, "commit"))
    <3>1. (n \in run[w].of /\ run[w].pc = "commit") <=> (n \in r.of /\ r.pc = "commit")
      BY <2>2
    <3>2. At([run EXCEPT ![w] = r], n, "commit") = At(run, n, "commit")
      BY <2>0, <3>1 DEF At
    <3> QED
      BY <3>2
  <2>3. started[n] + queue[n] <= 1 + faults'
    BY DEF Counted, TypeOK
  <2> QED
    BY <2>1, <2>2, <2>3 DEF Counted
<1>9. ResultsFit'
  BY <1>3 DEF ResultsFit
<1>10. NotLost'
  BY <1>2 DEF NotLost
<1> QED
  BY <1>1, <1>4, <1>5, <1>6, <1>7, <1>8, <1>9, <1>10

\* A worker on a circle waits.
LEMMA CirclesWait ==
  ASSUME NEW w \in Worker, Deadlocked(w)
  PROVE  Waits(w)
<1> DEFINE waits == {e \in Worker \X Worker : Waits(e[1]) /\ Blocks(e[2], e[1])}
<1>1. Closed({}, Worker, waits)
  BY DEF Closed
<1>2. PICK v \in Worker : <<w, v>> \in waits
  <2> HIDE DEF waits
  <2>1. {} \in SUBSET Worker
    OBVIOUS
  <2>2. OnCircle(w, Worker, waits)
    BY DEF Deadlocked, waits
  <2> QED
    BY <1>1, <2>1, <2>2 DEF OnCircle
<1> QED
  BY <1>2

\* The steps inside a file, and from one file to the next.
LEMMA FileStepKeeps ==
  ASSUME IInv, NEW w \in Worker,
         NextFile(w) \/ LookUp(w) \/ SkipRow(w) \/ Insert(w) \/ DeadlockVictim(w)
  PROVE  IInv'
<1> USE DEF IInv
<1>1. run[w] \in Runs /\ faults \in Nat /\ contacts \subseteq Phones
  BY DEF TypeOK
<1>2. run[w].pc \in {"file", "work", "insert"}
  BY CirclesWait DEF NextFile, LookUp, SkipRow, Insert, DeadlockVictim, Waits
<1>3. PICK m \in Task : run[w].of = {m} /\ run[w].pc \in Places(task[m].kind)
  BY <1>2, HeldTask
<1>4. /\ task[m].kind \in {"leads", "batch"} /\ ~AppendsLog(m)
      /\ task[m].kind = "leads" => run[w].pc # "file"
      /\ {"work", "insert", "commit"} \subseteq Places(task[m].kind)
      /\ task[m].kind = "batch" => {"file", "ack"} \subseteq Places(task[m].kind)
  BY <1>2, <1>3 DEF Places, AppendsLog
<1>5. task[m].kind = "leads" /\ run[w].out = "clean" =>
        task[m].phones \subseteq contacts \cup run[w].adds \cup run[w].rows
  BY <1>2, <1>3, <1>4 DEF LeadsFit
<1>6. UNCHANGED <<slots, passed, task, queue, result, contacts, logged, sent, started, faults>>
  BY DEF NextFile, LookUp, SkipRow, Insert, DeadlockVictim,
         throttleVars, queueVars, storeVars
<1>7. ASSUME NEW r \in Runs, r.of = run[w].of, run' = [run EXCEPT ![w] = r],
             \/ r.pc \in {"work", "insert", "commit"}
             \/ r.pc \in {"file", "ack"} /\ task[m].kind = "batch",
             task[m].kind = "leads" /\ r.out = "clean" =>
               /\ r.pc \in {"work", "insert"} => task[m].phones \subseteq contacts \cup r.adds \cup r.rows
               /\ r.pc = "commit" => r.doomed
      PROVE  IInv'
  <2>1. r.pc \in Places(task[m].kind) \ {"send"}
    BY <1>4, <1>7
  <2>2. task[m].kind = "leads" => r.pc # "ack"
    BY <1>7
  <2>3. run[w].pc # "send" /\ faults' \in Nat /\ faults' >= faults
    BY <1>1, <1>2, <1>6
  <2>4. AppendsLog(m) => run[w].pc = "commit" /\ r.pc = "commit"
    BY <1>4
  <2> QED
    BY <1>3, <1>6, <1>7, <2>1, <2>2, <2>3, <2>4, MoveKeeps
<1>8. CASE NextFile(w)
  <2>1. task[m].kind = "batch"
    BY <1>3, <1>4, <1>8 DEF NextFile
  <2>3. ASSUME NEW file \in SUBSET run[w].later,
               run' = [run EXCEPT ![w].pc = "work", ![w].rows = file, ![w].later = @ \ file]
        PROVE  IInv'
    <3> DEFINE r == [run[w] EXCEPT !.pc = "work", !.rows = file, !.later = @ \ file]
    <3>1. r \in Runs /\ r.of = run[w].of /\ r.pc = "work"
      BY <1>1 DEF Runs
    <3>2. run' = [run EXCEPT ![w] = r]
      BY <2>3
    <3> QED
      BY <2>1, <3>1, <3>2, <1>7
  <2>4. ASSUME NEW file \in SUBSET run[w].later, NEW out \in PassedOver(w),
               run' = [run EXCEPT ![w].pc = AfterFile(run[w].later \ file),
                                  ![w].out = out, ![w].later = @ \ file]
        PROVE  IInv'
    <3> DEFINE r == [run[w] EXCEPT !.pc = AfterFile(run[w].later \ file),
                                   !.out = out, !.later = @ \ file]
    <3>1. out \in Outs
      BY <1>1 DEF PassedOver, Outs, Runs
    <3>2. r \in Runs /\ r.of = run[w].of /\ r.pc \in {"file", "ack"}
      BY <1>1, <3>1 DEF Runs, AfterFile
    <3>3. run' = [run EXCEPT ![w] = r]
      BY <2>4
    <3> QED
      BY <2>1, <3>2, <3>3, <1>7
  <2> QED
    BY <1>8, <2>3, <2>4 DEF NextFile
<1>9. CASE LookUp(w)
  <2>1. PICK p \in run[w].rows :
           run' = IF Found(p) THEN [run EXCEPT ![w].rows = @ \ {p}]
                              ELSE [run EXCEPT ![w].pc = "insert", ![w].row = {p}]
    BY <1>9 DEF LookUp
  <2>2. CASE Found(p)
    <3> DEFINE r == [run[w] EXCEPT !.rows = @ \ {p}]
    <3>1. r \in Runs /\ r.of = run[w].of /\ r.pc = "work"
      BY <1>1, <1>9 DEF Runs, LookUp
    <3>2. run' = [run EXCEPT ![w] = r]
      BY <2>1, <2>2
    <3>3. task[m].kind = "leads" /\ r.out = "clean" =>
            task[m].phones \subseteq contacts \cup r.adds \cup r.rows
      BY <1>1, <1>5, <2>2 DEF Runs, Found
    <3> QED
      BY <3>1, <3>2, <3>3, <1>7
  <2>3. CASE ~Found(p)
    <3> DEFINE r == [run[w] EXCEPT !.pc = "insert", !.row = {p}]
    <3>1. r \in Runs /\ r.of = run[w].of /\ r.pc = "insert"
      BY <1>1 DEF Runs
    <3>2. run' = [run EXCEPT ![w] = r]
      BY <2>1, <2>3
    <3>3. task[m].kind = "leads" /\ r.out = "clean" =>
            task[m].phones \subseteq contacts \cup r.adds \cup r.rows
      BY <1>1, <1>5 DEF Runs
    <3> QED
      BY <3>1, <3>2, <3>3, <1>7
  <2> QED
    BY <2>2, <2>3
<1>10. ASSUME run' = [run EXCEPT ![w] = Doomed(run[w])] PROVE IInv'
  <2>1. /\ Doomed(run[w]) \in Runs /\ Doomed(run[w]).of = run[w].of
        /\ Doomed(run[w]).pc = "commit" /\ Doomed(run[w]).doomed
    BY <1>1 DEF Doomed, Runs, Outs
  <2> QED
    BY <1>7, <1>10, <2>1
<1>11. CASE Insert(w)
  <2>1. CASE run[w].row \subseteq contacts
    <3>1. run' = [run EXCEPT ![w] = Doomed(run[w])]
      BY <1>11, <2>1 DEF Insert
    <3> QED
      BY <1>10, <3>1
  <2>2. CASE ~(run[w].row \subseteq contacts)
    <3> DEFINE r == [run[w] EXCEPT !.pc = "work", !.rows = @ \ run[w].row, !.row = {},
                                   !.adds = @ \cup run[w].row]
    <3>1. r \in Runs /\ r.of = run[w].of /\ r.pc = "work"
      BY <1>1 DEF Runs
    <3>2. run' = [run EXCEPT ![w] = r]
      <4>1. run' = [run EXCEPT ![w] = IF run[w].row \subseteq contacts THEN Doomed(run[w]) ELSE r]
        BY <1>11 DEF Insert
      <4> HIDE DEF r
      <4> QED
        BY <4>1, <2>2
    <3>3. task[m].kind = "leads" /\ r.out = "clean" =>
            task[m].phones \subseteq contacts \cup r.adds \cup r.rows
      BY <1>1, <1>5 DEF Runs
    <3> QED
      BY <3>1, <3>2, <3>3, <1>7
  <2> QED
    BY <2>1, <2>2
<1>12. CASE DeadlockVictim(w)
  <2>1. run' = [run EXCEPT ![w] = Doomed(run[w])]
    BY <1>12 DEF DeadlockVictim
  <2> QED
    BY <1>10, <2>1
<1>14. CASE SkipRow(w)
  <2>1. PICK p \in run[w].rows : run' = [run EXCEPT ![w].rows = @ \ {p}, ![w].out = "partial"]
    BY <1>14 DEF SkipRow
  <2> DEFINE r == [run[w] EXCEPT !.rows = @ \ {p}, !.out = "partial"]
  <2>2. r \in Runs /\ r.of = run[w].of /\ r.pc = "work" /\ r.out = "partial"
    BY <1>1, <1>14 DEF Runs, Outs, SkipRow
  <2>3. run' = [run EXCEPT ![w] = r]
    BY <2>1
  <2> QED
    BY <2>2, <2>3, <1>7
<1> QED
  BY <1>8, <1>9, <1>11, <1>12, <1>14

\* A row that the database refuses.
LEMMA RowFailsKeeps ==
  ASSUME IInv, NEW w \in Worker, RowFails(w)
  PROVE  IInv'
<1> DEFINE r == Doomed(run[w])
<1> USE DEF IInv
<1>1. /\ run[w] \in Runs /\ run[w].pc \in {"work", "commit"}
      /\ run' = [run EXCEPT ![w] = r]
  BY DEF TypeOK, RowFails
<1>2. PICK m \in Task : run[w].of = {m} /\ run[w].pc \in Places(task[m].kind)
  BY <1>1, HeldTask
<1>3. r \in Runs /\ r.of = {m} /\ r.pc = "commit" /\ r.doomed
  BY <1>1, <1>2 DEF Doomed, Runs, Outs
<1>4. /\ UNCHANGED <<slots, passed, task, queue, result, contacts, logged, sent, started>>
      /\ faults' \in Nat /\ faults' >= faults
  BY DEF RowFails, Fault, TypeOK, throttleVars, queueVars, storeVars
<1>5. /\ r.pc \in Places(task[m].kind) \ {"send"}
      /\ AppendsLog(m) => run[w].pc = "commit"
  BY <1>1, <1>2, <1>3 DEF Places, AppendsLog
<1> QED
  BY <1>1, <1>2, <1>3, <1>4, <1>5, MoveKeeps

LEMMA FreeType == Free \in Runs /\ Free.pc = "free" /\ Free.of = {}
BY DEF Free, Runs, Outs

\* A worker takes a copy of a task: it is counted as started.
LEMMA DeliverKeeps ==
  ASSUME IInv, NEW w \in Worker, NEW m \in Task, Deliver(w, m)
  PROVE  IInv'
<1> DEFINE kind == task[m].kind
<1> USE DEF IInv
<1>1. /\ run \in [Worker -> Runs] /\ queue[m] \in Nat /\ queue[m] > 0
      /\ started \in [Task -> Nat] /\ queue \in [Task -> Nat]
  BY DEF TypeOK, Deliver, HasCopy
<1>2. run[w].pc = "free" /\ run[w].of = {}
  BY DEF Deliver, HoldsOne, Places
<1>3. kind \in Kinds /\ task[m].phones \subseteq Phones
  BY <1>1 DEF TypeOK, TaskRecords, NoTrace
<1>0. PICK out \in Openings(m) : run' = [run EXCEPT ![w] = Opened(m, out)]
  BY DEF Deliver
<1> DEFINE r == Opened(m, out)
<1>4. /\ r \in Runs /\ r.of = {m} /\ r.out = out
      /\ r.pc = IF out = "clean" THEN FirstStep(kind) ELSE "ack"
      /\ out = "clean" /\ kind = "leads" => r.rows = task[m].phones
  <2>1. CASE out = "clean"
    BY <1>3, <2>1 DEF Opened, Free, Runs, Outs, Kinds, FirstStep
  <2>2. CASE out # "clean"
    <3>1. out \in Outs
      BY DEF Openings, Outs
    <3> QED
      BY <2>2, <3>1 DEF Opened, Free, Runs
  <2> QED
    BY <2>1, <2>2
<1>5. /\ r.pc \in Places(kind) /\ r.pc # "free"
      /\ r.pc = "send" => kind = "send"
      /\ AppendsLog(m) /\ r.pc = "commit" => kind # "send"
      /\ kind = "leads" /\ out = "clean" => r.pc = "work"
      /\ r.pc = "ack" => out # "clean"
  BY <1>3, <1>4 DEF Kinds, FirstStep, Places, AppendsLog
<1>6. /\ run' = [run EXCEPT ![w] = r]
      /\ queue' = [queue EXCEPT ![m] = @ - 1] /\ started' = [started EXCEPT ![m] = @ + 1]
      /\ UNCHANGED <<slots, passed, task, result, contacts, logged, sent, faults>>
  BY <1>0 DEF Deliver, throttleVars, storeVars
<1> HIDE DEF r
<1>7. TypeOK'
  <2>1. run' \in [Worker -> Runs]
    BY <1>1, <1>4, <1>6
  <2>2. queue' \in [Task -> Nat] /\ started' \in [Task -> Nat]
    BY <1>1, <1>6
  <2> QED
    BY <1>6, <2>1, <2>2 DEF TypeOK
<1>8. /\ \A v \in Worker : run'[v] = IF v = w THEN r ELSE run[v]
      /\ \A n \in Task : /\ queue'[n] = IF n = m THEN queue[n] - 1 ELSE queue[n]
                         /\ started'[n] = IF n = m THEN started[n] + 1 ELSE started[n]
  BY <1>1, <1>6
<1>9. \A n \in Task : AppendsLog(n)' = AppendsLog(n)
  BY <1>6 DEF AppendsLog
<1>10. HoldsOne'
  BY <1>4, <1>5, <1>6, <1>8 DEF HoldsOne
<1>11. NoTrace'
  BY <1>3, <1>6, <1>8 DEF NoTrace, Kinds
<1>12. LeadsFit'
  BY <1>4, <1>5, <1>6, <1>8, HeldIsTask DEF LeadsFit
<1>13. LogsFit'
  BY <1>4, <1>5, <1>6, <1>8, <1>9, HeldIsTask DEF LogsFit
<1>14. Counted'
  <2> SUFFICES ASSUME NEW n \in Task
               PROVE  /\ sent[n] + Cardinality(At(run', n, "send")) <= started'[n]
                      /\ IF AppendsLog(n)
                         THEN logged[n] + Cardinality(At(run', n, "commit"))
                                <= IF task[n].kind = "send" THEN sent[n] ELSE started'[n]
                         ELSE logged[n] = 0
                      /\ started'[n] + queue'[n] <= 1 + faults
    BY <1>6, <1>9 DEF Counted
  <2>1. /\ sent[n] \in Nat /\ logged[n] \in Nat /\ started[n] \in Nat /\ queue[n] \in Nat
        /\ Cardinality(At(run, n, "send")) \in Nat /\ Cardinality(At(run, n, "commit")) \in Nat
    BY AtType DEF TypeOK
  <2>2. /\ sent[n] + Cardinality(At(run, n, "send")) <= started[n]
        /\ IF AppendsLog(n)
           THEN logged[n] + Cardinality(At(run, n, "commit"))
                  <= IF task[n].kind = "send" THEN sent[n] ELSE started[n]
           ELSE logged[n] = 0
        /\ started[n] + queue[n] <= 1 + faults
    BY DEF Counted
  <2>3. ASSUME NEW pc, n # m \/ r.pc # pc, pc # "free"
        PROVE  At(run', n, pc) = At(run, n, pc)
    BY <1>2, <1>4, <1>8, <2>3 DEF At
  <2>4. ASSUME NEW pc, n = m, r.pc = pc
        PROVE  Cardinality(At(run', n, pc)) = Cardinality(At(run, n, pc)) + 1
    <3>1. At(run', n, pc) = At(run, n, pc) \cup {w} /\ w \notin At(run, n, pc)
      BY <1>2, <1>4, <1>8, <2>4 DEF At
    <3> QED
      BY <3>1, AtJoins
  <2>5. CASE n # m
    BY <1>8, <2>2, <2>3, <2>5
  <2>6. CASE n = m
    <3>1. sent[n] + Cardinality(At(run', n, "send")) <= started'[n]
      <4>1. CASE r.pc = "send"
        BY <1>8, <2>1, <2>2, <2>4, <2>6, <4>1
      <4>2. CASE r.pc # "send"
        BY <1>8, <2>1, <2>2, <2>3, <2>6, <4>2
      <4> QED
        BY <4>1, <4>2
    <3>2. ASSUME AppendsLog(n)
          PROVE  logged[n] + Cardinality(At(run', n, "commit"))
                   <= IF task[n].kind = "send" THEN sent[n] ELSE started'[n]
      <4>1. CASE r.pc = "commit"
        BY <1>5, <1>8, <2>1, <2>2, <2>4, <2>6, <3>2, <4>1
      <4>2. CASE r.pc # "commit"
        BY <1>5, <1>8, <2>1, <2>2, <2>3, <2>6, <3>2, <4>2
      <4> QED
        BY <4>1, <4>2
    <3>3. started'[n] + queue'[n] <= 1 + faults
      BY <1>8, <2>1, <2>2, <2>6
    <3> QED
      BY <2>2, <3>1, <3>2, <3>3
  <2> QED
    BY <2>5, <2>6
<1>15. ResultsFit'
  BY <1>6, <1>9 DEF ResultsFit
<1>16. NotLost'
  BY <1>2, <1>4, <1>6, <1>8 DEF NotLost
<1> QED
  BY <1>7, <1>10, <1>11, <1>12, <1>13, <1>14, <1>15, <1>16

\* The messages go out: the task has now been sent, but not yet logged.
LEMMA SendKeeps ==
  ASSUME IInv, NEW w \in Worker, Send(w)
  PROVE  IInv'
<1> DEFINE r == [run[w] EXCEPT !.pc = "commit"]
<1> USE DEF IInv
<1>1. run \in [Worker -> Runs] /\ run[w] \in Runs /\ run[w].pc = "send" /\ sent \in [Task -> Nat]
  BY DEF TypeOK, Send
<1>2. PICK m \in Task : run[w].of = {m} /\ run[w].pc \in Places(task[m].kind)
  BY <1>1, HeldTask
<1>3. /\ r \in Runs /\ r.of = {m} /\ r.pc = "commit"
      /\ task[m].kind = "send" /\ AppendsLog(m) /\ r.pc \in Places(task[m].kind)
  BY <1>1, <1>2 DEF Runs, Places, AppendsLog
<1>4. /\ run' = [run EXCEPT ![w] = r]
      /\ sent' = [n \in Task |-> IF n \in run[w].of THEN sent[n] + 1 ELSE sent[n]]
      /\ UNCHANGED <<slots, passed, task, queue, result, contacts, logged, started, faults>>
  BY DEF Send, throttleVars, queueVars
<1> HIDE DEF r
<1>5. /\ \A v \in Worker : run'[v] = IF v = w THEN r ELSE run[v]
      /\ \A n \in Task : sent'[n] = IF n = m THEN sent[n] + 1 ELSE sent[n]
  BY <1>1, <1>2, <1>4
<1>6. TypeOK'
  <2>1. run' \in [Worker -> Runs] /\ sent' \in [Task -> Nat]
    BY <1>1, <1>3, <1>4
  <2> QED
    BY <1>4, <2>1 DEF TypeOK
<1>7. \A n \in Task : AppendsLog(n)' = AppendsLog(n)
  BY <1>4 DEF AppendsLog
<1>8. HoldsOne' /\ NoTrace'
  BY <1>3, <1>4, <1>5 DEF HoldsOne, NoTrace
<1>9. LeadsFit' /\ LogsFit'
  BY <1>3, <1>4, <1>5, <1>7, HeldIsTask DEF LeadsFit, LogsFit
<1>10. Counted'
  <2> SUFFICES ASSUME NEW n \in Task
               PROVE  /\ sent'[n] + Cardinality(At(run', n, "send")) <= started[n]
                      /\ IF AppendsLog(n)
                         THEN logged[n] + Cardinality(At(run', n, "commit"))
                                <= IF task[n].kind = "send" THEN sent'[n] ELSE started[n]
                         ELSE logged[n] = 0
                      /\ started[n] + queue[n] <= 1 + faults
    BY <1>4, <1>7 DEF Counted
  <2>1. /\ sent[n] \in Nat /\ logged[n] \in Nat /\ started[n] \in Nat
        /\ Cardinality(At(run, n, "send")) \in Nat /\ Cardinality(At(run, n, "commit")) \in Nat
    BY AtType DEF TypeOK
  <2>2. /\ sent[n] + Cardinality(At(run, n, "send")) <= started[n]
        /\ IF AppendsLog(n)
           THEN logged[n] + Cardinality(At(run, n, "commit"))
                  <= IF task[n].kind = "send" THEN sent[n] ELSE started[n]
           ELSE logged[n] = 0
        /\ started[n] + queue[n] <= 1 + faults
    BY DEF Counted
  <2>3. CASE n # m
    <3>1. ASSUME NEW pc PROVE At(run', n, pc) = At(run, n, pc)
      BY <1>2, <1>3, <1>5, <2>3 DEF At
    <3> QED
      BY <1>5, <2>2, <2>3, <3>1
  <2>4. CASE n = m
    <3>1. Cardinality(At(run', n, "send")) = Cardinality(At(run, n, "send")) - 1
      <4>1. At(run', n, "send") = At(run, n, "send") \ {w} /\ w \in At(run, n, "send")
        BY <1>1, <1>2, <1>3, <1>5, <2>4 DEF At
      <4> QED
        BY <4>1, AtLeaves
    <3>2. Cardinality(At(run', n, "commit")) = Cardinality(At(run, n, "commit")) + 1
      <4>1. At(run', n, "commit") = At(run, n, "commit") \cup {w} /\ w \notin At(run, n, "commit")
        BY <1>1, <1>2, <1>3, <1>5, <2>4 DEF At
      <4> QED
        BY <4>1, AtJoins
    <3> QED
      BY <1>3, <1>5, <2>1, <2>2, <2>4, <3>1, <3>2
  <2> QED
    BY <2>3, <2>4
<1>11. ResultsFit'
  BY <1>4, <1>7 DEF ResultsFit
<1>12. NotLost'
  BY <1>2, <1>3, <1>4, <1>5 DEF NotLost
<1> QED
  BY <1>6, <1>8, <1>9, <1>10, <1>11, <1>12

\* What is stored and what is free again, when a file or a task has ended.
LEMMA CommitKeeps ==
  ASSUME IInv, NEW w \in Worker, Commit(w)
  PROVE  IInv'
<1> USE DEF IInv
<1>1. /\ run \in [Worker -> Runs] /\ run[w] \in Runs /\ logged \in [Task -> Nat]
      /\ run[w].pc \in {"work", "commit"} /\ (run[w].pc = "work" => run[w].rows = {})
  BY DEF TypeOK, Commit, RowsDone
<1>2. PICK m \in Task : run[w].of = {m} /\ run[w].pc \in Places(task[m].kind)
  BY <1>1, HeldTask
<1>3. IsBatch(w) <=> task[m].kind = "batch"
  BY <1>2 DEF IsBatch
<1>0. PICK out \in Ends(w) :
         run' = [run EXCEPT ![w] =
                   [@ EXCEPT !.pc = IF IsBatch(w) THEN AfterFile(run[w].later) ELSE "ack",
                             !.adds = {}, !.doomed = FALSE, !.out = out]]
  BY DEF Commit
<1> DEFINE r == [run[w] EXCEPT !.pc = IF IsBatch(w) THEN AfterFile(run[w].later) ELSE "ack",
                               !.adds = {}, !.doomed = FALSE, !.out = out]
<1>4. /\ r \in Runs /\ r.of = {m} /\ r.out = out
      /\ r.pc = "ack" \/ (task[m].kind = "batch" /\ r.pc = "file")
      /\ r.pc = "ack" /\ out = "clean" => ~run[w].doomed
      /\ out = "clean" /\ task[m].kind = "leads" => run[w].out = "clean"
  <2>1. out \in Outs
    BY <1>1 DEF Ends, Outs, Runs
  <2>2. r \in Runs /\ r.of = {m} /\ r.out = out
    BY <1>1, <1>2, <2>1 DEF Runs, AfterFile
  <2>5. r.pc = "ack" \/ (IsBatch(w) /\ r.pc = "file")
    BY <1>1 DEF Runs, AfterFile
  <2>3. out = "clean" => ~run[w].doomed
    BY DEF Ends
  <2>4. out = "clean" /\ task[m].kind = "leads" => run[w].out = "clean"
    BY <1>2, <2>3 DEF Ends, AppendsLog
  <2> QED
    BY <1>3, <2>2, <2>3, <2>4, <2>5
<1>5. r.pc \in Places(task[m].kind) /\ (AppendsLog(m) => r.pc = "ack" /\ run[w].pc = "commit")
  BY <1>1, <1>2, <1>4 DEF Places, AppendsLog
<1>6. /\ run' = [run EXCEPT ![w] = r]
      /\ UNCHANGED <<slots, passed, task, queue, result, sent, started, faults>>
  BY <1>0 DEF Commit, throttleVars, queueVars
<1>7. /\ run[w].doomed => contacts' = contacts /\ logged' = logged
      /\ ~run[w].doomed =>
           /\ contacts' = contacts \cup run[w].adds
           /\ logged' = [n \in Task |-> IF n \in run[w].of /\ AppendsLog(n) THEN logged[n] + 1
                                                                        ELSE logged[n]]
  BY DEF Commit
<1> HIDE DEF r
<1>8. \A v \in Worker : run'[v] = IF v = w THEN r ELSE run[v]
  BY <1>1, <1>6
<1>9. \A n \in Task : logged'[n] = IF n = m /\ AppendsLog(n) /\ ~run[w].doomed
                                   THEN logged[n] + 1 ELSE logged[n]
  <2>1. CASE run[w].doomed
    BY <1>7, <2>1
  <2>2. CASE ~run[w].doomed
    BY <1>2, <1>7, <2>2
  <2> QED
    BY <2>1, <2>2
<1>10. contacts \subseteq contacts' /\ contacts' \subseteq Phones
  BY <1>1, <1>7 DEF Runs, TypeOK
<1>11. TypeOK'
  <2>1. run' \in [Worker -> Runs]
    BY <1>1, <1>4, <1>6
  <2>2. logged' \in [Task -> Nat]
    BY <1>1, <1>7
  <2> QED
    BY <1>6, <1>10, <2>1, <2>2 DEF TypeOK
<1>12. \A n \in Task : AppendsLog(n)' = AppendsLog(n) /\ logged[n] \in Nat
  BY <1>1, <1>6 DEF AppendsLog
<1>13. HoldsOne'
  BY <1>4, <1>5, <1>6, <1>8 DEF HoldsOne
<1>14. NoTrace'
  BY <1>6, <1>9 DEF NoTrace, AppendsLog
<1>15. LeadsFit'
  <2> SUFFICES ASSUME NEW v \in Worker, NEW n \in run'[v].of,
                      task[n].kind = "leads", run'[v].out = "clean"
               PROVE  /\ run'[v].pc \in {"work", "insert"} =>
                           task[n].phones \subseteq contacts' \cup run'[v].adds \cup run'[v].rows
                      /\ run'[v].pc = "commit" => run'[v].doomed
                      /\ run'[v].pc = "ack" => task[n].phones \subseteq contacts'
    BY <1>6 DEF LeadsFit
  <2>1. CASE v # w
    BY <1>8, <1>10, <2>1 DEF LeadsFit
  <2>2. CASE v = w
    <3>1. n = m /\ run'[v] = r /\ r.pc = "ack" /\ r.out = "clean"
      BY <1>4, <1>8, <2>2
    <3>2. ~run[w].doomed /\ run[w].out = "clean"
      BY <1>4, <3>1
    <3>3. task[m].phones \subseteq contacts \cup run[w].adds
      BY <1>1, <1>2, <3>1, <3>2 DEF LeadsFit
    <3> QED
      BY <1>7, <3>1, <3>2, <3>3
  <2> QED
    BY <2>1, <2>2
<1>16. LogsFit'
  <2> SUFFICES ASSUME NEW v \in Worker, NEW n \in run'[v].of, n \in Task,
                      AppendsLog(n), run'[v].pc = "ack", run'[v].out = "clean"
               PROVE  logged'[n] > 0
    BY <1>4, <1>8, <1>12, HeldIsTask DEF LogsFit
  <2>1. CASE v # w
    <3>1. logged[n] > 0
      BY <1>8, <2>1 DEF LogsFit
    <3> QED
      BY <1>9, <1>12, <3>1
  <2>2. CASE v = w
    <3>1. n = m /\ ~run[w].doomed
      BY <1>4, <1>8, <2>2
    <3> QED
      BY <1>9, <1>12, <3>1
  <2> QED
    BY <2>1, <2>2
<1>17. Counted'
  <2> SUFFICES ASSUME NEW n \in Task
               PROVE  /\ sent[n] + Cardinality(At(run', n, "send")) <= started[n]
                      /\ IF AppendsLog(n)
                         THEN logged'[n] + Cardinality(At(run', n, "commit"))
                                <= IF task[n].kind = "send" THEN sent[n] ELSE started[n]
                         ELSE logged'[n] = 0
                      /\ started[n] + queue[n] <= 1 + faults
    BY <1>6, <1>12 DEF Counted
  <2>1. /\ sent[n] \in Nat /\ logged[n] \in Nat /\ started[n] \in Nat
        /\ Cardinality(At(run, n, "send")) \in Nat /\ Cardinality(At(run, n, "commit")) \in Nat
    BY AtType DEF TypeOK
  <2>2. /\ sent[n] + Cardinality(At(run, n, "send")) <= started[n]
        /\ IF AppendsLog(n)
           THEN logged[n] + Cardinality(At(run, n, "commit"))
                  <= IF task[n].kind = "send" THEN sent[n] ELSE started[n]
           ELSE logged[n] = 0
        /\ started[n] + queue[n] <= 1 + faults
    BY DEF Counted
  <2>3. At(run', n, "send") = At(run, n, "send")
    BY <1>1, <1>4, <1>8 DEF At
  <2>4. CASE n # m
    <3>1. At(run', n, "commit") = At(run, n, "commit")
      BY <1>2, <1>4, <1>8, <2>4 DEF At
    <3> QED
      BY <1>9, <2>2, <2>3, <2>4, <3>1
  <2>5. CASE n = m
    <3>1. AppendsLog(n) =>
            Cardinality(At(run', n, "commit")) = Cardinality(At(run, n, "commit")) - 1
      <4> SUFFICES ASSUME AppendsLog(n)
                   PROVE  Cardinality(At(run', n, "commit")) = Cardinality(At(run, n, "commit")) - 1
        OBVIOUS
      <4>1. At(run', n, "commit") = At(run, n, "commit") \ {w} /\ w \in At(run, n, "commit")
        BY <1>1, <1>2, <1>4, <1>5, <1>8, <2>5 DEF At
      <4> QED
        BY <4>1, AtLeaves
    <3>2. logged'[n] = logged[n] \/ (logged'[n] = logged[n] + 1 /\ AppendsLog(n))
      BY <1>9
    <3>3. ASSUME AppendsLog(n)
          PROVE  logged'[n] + Cardinality(At(run', n, "commit"))
                   <= IF task[n].kind = "send" THEN sent[n] ELSE started[n]
      BY <2>1, <2>2, <3>1, <3>2, <3>3
    <3>4. ~AppendsLog(n) => logged'[n] = 0
      BY <2>2, <3>2
    <3> QED
      BY <2>2, <2>3, <3>3, <3>4
  <2> QED
    BY <2>4, <2>5
<1>18. ResultsFit'
  <2> SUFFICES ASSUME NEW n \in Task, result[n] = "clean"
               PROVE  /\ task[n].kind = "leads" => task[n].phones \subseteq contacts'
                      /\ AppendsLog(n) => logged'[n] > 0
    BY <1>6, <1>12 DEF ResultsFit
  <2> QED
    BY <1>9, <1>10, <1>12 DEF ResultsFit
<1>19. NotLost'
  BY <1>2, <1>4, <1>6, <1>8 DEF NotLost
<1> QED
  BY <1>11, <1>13, <1>14, <1>15, <1>16, <1>17, <1>18, <1>19

\* A worker that is free again takes its task out of every count.
LEMMA FreedCounts ==
  ASSUME NEW n \in Task, NEW w \in Worker, NEW pc, pc # "free",
         \A v \in Worker : run'[v] = IF v = w THEN Free ELSE run[v]
  PROVE  /\ Cardinality(At(run', n, pc)) \in Nat
         /\ Cardinality(At(run', n, pc)) <= Cardinality(At(run, n, pc))
<1>1. At(run', n, pc) \subseteq At(run, n, pc)
  BY FreeType DEF At
<1>2. IsFiniteSet(At(run, n, pc))
  BY AtType
<1> QED
  BY <1>1, <1>2, AtType, FS_Subset

LEMMA AckKeeps ==
  ASSUME IInv, NEW w \in Worker, Ack(w)
  PROVE  IInv'
<1> USE DEF IInv
<1>1. run \in [Worker -> Runs] /\ run[w].pc = "ack"
  BY DEF TypeOK, Ack
<1>2. PICK m \in Task : /\ run[w].of = {m} /\ task[m].kind # "none"
  BY <1>1, HeldTask
<1>3. /\ run' = [run EXCEPT ![w] = Free]
      /\ result' = [n \in Task |-> IF n \in run[w].of THEN run[w].out ELSE result[n]]
      /\ UNCHANGED <<slots, passed, task, queue, contacts, logged, sent, started, faults>>
  BY DEF Ack, throttleVars, storeVars
<1>4. /\ \A v \in Worker : run'[v] = IF v = w THEN Free ELSE run[v]
      /\ \A n \in Task : result'[n] = IF n = m THEN run[w].out ELSE result[n]
      /\ run[w].out \in Outs
  BY <1>1, <1>2, <1>3 DEF Runs
<1>5. TypeOK'
  <2>1. run' \in [Worker -> Runs]
    BY <1>1, <1>3, FreeType
  <2>2. result' \in [Task -> Outs \cup {"none"}]
    BY <1>3, <1>4 DEF TypeOK
  <2> QED
    BY <1>3, <2>1, <2>2 DEF TypeOK
<1>6. \A n \in Task : AppendsLog(n)' = AppendsLog(n)
  BY <1>3 DEF AppendsLog
<1>7. HoldsOne'
  BY <1>3, <1>4, FreeType DEF HoldsOne
<1>8. NoTrace'
  BY <1>2, <1>3, <1>4 DEF NoTrace
<1>9. LeadsFit' /\ LogsFit'
  BY <1>3, <1>4, <1>6, FreeType, HeldIsTask DEF LeadsFit, LogsFit
<1>10. Counted'
  <2> SUFFICES ASSUME NEW n \in Task
               PROVE  /\ sent[n] + Cardinality(At(run', n, "send")) <= started[n]
                      /\ IF AppendsLog(n)
                         THEN logged[n] + Cardinality(At(run', n, "commit"))
                                <= IF task[n].kind = "send" THEN sent[n] ELSE started[n]
                         ELSE logged[n] = 0
                      /\ started[n] + queue[n] <= 1 + faults
    BY <1>3, <1>6 DEF Counted
  <2>1. At(run', n, "send") = At(run, n, "send") /\ At(run', n, "commit") = At(run, n, "commit")
    BY <1>1, <1>4, FreeType DEF At
  <2> QED
    BY <2>1 DEF Counted
<1>11. ResultsFit'
  <2> SUFFICES ASSUME NEW n \in Task, result'[n] = "clean"
               PROVE  /\ task[n].kind = "leads" => task[n].phones \subseteq contacts
                      /\ AppendsLog(n) => logged[n] > 0
    BY <1>3, <1>6 DEF ResultsFit
  <2>1. CASE n = m
    <3>1. run[w].out = "clean"
      BY <1>4, <2>1
    <3> QED
      BY <1>1, <1>2, <2>1, <3>1 DEF LeadsFit, LogsFit
  <2>2. CASE n # m
    BY <1>4, <2>2 DEF ResultsFit
  <2> QED
    BY <2>1, <2>2
<1>12. NotLost'
  <2> SUFFICES ASSUME NEW n \in Task, task[n].kind # "none", ~task[n].inline, result'[n] = "none"
               PROVE  queue[n] > 0 \/ \E v \in Worker : n \in run'[v].of
    BY <1>3 DEF NotLost
  <2>1. n # m /\ result[n] = "none"
    BY <1>4 DEF Outs
  <2> QED
    BY <1>2, <1>4, <2>1 DEF NotLost
<1> QED
  BY <1>5, <1>7, <1>8, <1>9, <1>10, <1>11, <1>12

\* A delivery goes back to the queue: its worker is free again, or goes on.
LEMMA ReturnKeeps ==
  ASSUME IInv, NEW w \in Worker, Crash(w) \/ TimesOut(w)
  PROVE  IInv'
<1> USE DEF IInv
<1>1. run \in [Worker -> Runs] /\ queue \in [Task -> Nat] /\ faults \in Nat
  BY DEF TypeOK
<1>2. PICK m \in Task : run[w].of = {m} /\ task[m].kind # "none"
  <2>1. run[w].pc # "free"
    BY DEF Crash, TimesOut, HoldsOne, Places
  <2> QED
    BY <2>1, HeldTask
<1>3. /\ \/ run' = [run EXCEPT ![w] = Free]
         \/ run' = run
      /\ queue' = [n \in Task |-> IF n \in run[w].of THEN Back(n) ELSE queue[n]]
      /\ faults' = faults + 1
      /\ UNCHANGED <<slots, passed, task, result, contacts, logged, sent, started>>
  BY DEF Crash, TimesOut, Requeue, Fault, throttleVars, storeVars
<1>4. \A n \in Task : queue'[n] = IF n = m /\ ~task[m].inline THEN queue[n] + 1 ELSE queue[n]
  BY <1>2, <1>3 DEF Back
<1>5. \A v \in Worker : \/ run'[v] = run[v]
                        \/ v = w /\ run'[v] = Free
  BY <1>1, <1>3
<1>6. TypeOK'
  <2>1. run' \in [Worker -> Runs]
    BY <1>1, <1>3, FreeType
  <2>2. queue' \in [Task -> Nat]
    BY <1>1, <1>3 DEF Back
  <2> QED
    BY <1>1, <1>3, <2>1, <2>2 DEF TypeOK
<1>7. \A n \in Task : AppendsLog(n)' = AppendsLog(n)
  BY <1>3 DEF AppendsLog
<1>8. HoldsOne'
  BY <1>3, <1>5, FreeType DEF HoldsOne
<1>9. NoTrace'
  BY <1>2, <1>3, <1>4 DEF NoTrace
<1>10. LeadsFit' /\ LogsFit'
  BY <1>3, <1>5, <1>7, FreeType, HeldIsTask DEF LeadsFit, LogsFit
<1>11. Counted'
  <2> SUFFICES ASSUME NEW n \in Task
               PROVE  /\ sent[n] + Cardinality(At(run', n, "send")) <= started[n]
                      /\ IF AppendsLog(n)
                         THEN logged[n] + Cardinality(At(run', n, "commit"))
                                <= IF task[n].kind = "send" THEN sent[n] ELSE started[n]
                         ELSE logged[n] = 0
                      /\ started[n] + queue'[n] <= 1 + faults'
    BY <1>3, <1>7 DEF Counted
  <2>1. /\ sent[n] \in Nat /\ logged[n] \in Nat /\ started[n] \in Nat
        /\ Cardinality(At(run, n, "send")) \in Nat /\ Cardinality(At(run, n, "commit")) \in Nat
    BY AtType DEF TypeOK
  <2>2. ASSUME NEW pc \in {"send", "commit"}
        PROVE  /\ Cardinality(At(run', n, pc)) \in Nat
               /\ Cardinality(At(run', n, pc)) <= Cardinality(At(run, n, pc))
    <3>1. CASE run' = run
      BY <3>1, AtType
    <3>2. CASE run' = [run EXCEPT ![w] = Free]
      <4>1. \A v \in Worker : run'[v] = IF v = w THEN Free ELSE run[v]
        BY <1>1, <3>2
      <4>2. pc # "free"
        OBVIOUS
      <4> QED
        BY <4>1, <4>2, FreedCounts
    <3> QED
      BY <1>3, <3>1, <3>2
  <2>3. /\ sent[n] + Cardinality(At(run, n, "send")) <= started[n]
        /\ IF AppendsLog(n)
           THEN logged[n] + Cardinality(At(run, n, "commit"))
                  <= IF task[n].kind = "send" THEN sent[n] ELSE started[n]
           ELSE logged[n] = 0
        /\ started[n] + queue[n] <= 1 + faults
    BY DEF Counted
  <2>4. started[n] + queue'[n] <= 1 + faults'
    BY <1>1, <1>3, <1>4, <2>1, <2>3
  <2>5. sent[n] + Cardinality(At(run', n, "send")) <= started[n]
    BY <2>1, <2>2, <2>3
  <2>6. AppendsLog(n) => logged[n] + Cardinality(At(run', n, "commit"))
                           <= IF task[n].kind = "send" THEN sent[n] ELSE started[n]
    BY <2>1, <2>2, <2>3
  <2> QED
    BY <2>3, <2>4, <2>5, <2>6
<1>12. ResultsFit'
  BY <1>3, <1>7 DEF ResultsFit
<1>13. NotLost'
  <2> SUFFICES ASSUME NEW n \in Task, task[n].kind # "none", ~task[n].inline, result[n] = "none"
               PROVE  queue'[n] > 0 \/ \E v \in Worker : n \in run'[v].of
    BY <1>3 DEF NotLost
  <2>1. CASE n = m
    BY <1>1, <1>4, <2>1
  <2>2. CASE n # m
    BY <1>2, <1>4, <1>5, <2>2 DEF NotLost
  <2> QED
    BY <2>1, <2>2
<1> QED
  BY <1>6, <1>8, <1>9, <1>10, <1>11, <1>12, <1>13

\* The throttle alone moves.
LEMMA ThrottleKeeps ==
  ASSUME IInv, slots' \in Nat, passed' \subseteq Request,
         UNCHANGED <<queueVars, run, storeVars, started, faults>>
  PROVE  IInv'
<1>1. UNCHANGED <<task, queue, result, run, contacts, logged, sent, started, faults>>
  BY DEF queueVars, storeVars
<1>2. \A m \in Task : AppendsLog(m)' = AppendsLog(m)
  BY <1>1 DEF AppendsLog
<1>3. TypeOK' /\ HoldsOne' /\ NoTrace'
  BY <1>1 DEF IInv, TypeOK, HoldsOne, NoTrace
<1>4. LeadsFit' /\ LogsFit'
  BY <1>1 DEF IInv, LeadsFit, LogsFit, AppendsLog
<1>5. Counted' /\ ResultsFit' /\ NotLost'
  BY <1>1 DEF IInv, Counted, ResultsFit, NotLost, AppendsLog
<1> QED
  BY <1>3, <1>4, <1>5 DEF IInv

\* The invariant holds of every reachable state.
LEMMA InvIInv == Spec => []IInv
<1>1. IInv /\ [Next]_vars => IInv'
  <2> SUFFICES ASSUME IInv, [Next]_vars PROVE IInv'
    OBVIOUS
  <2>0. slots \in Nat /\ passed \subseteq Request
    BY DEF IInv, TypeOK
  <2>1. ASSUME NEW q \in Request, Check(q) \/ Look(q) PROVE IInv'
    BY <2>0, <2>1, ThrottleKeeps DEF Check, Look, Admit, Count, FailOpen
  <2>2. CASE Expire
    BY <2>0, <2>2, ThrottleKeeps DEF Expire
  <2>3. ASSUME NEW q \in Request, NEW m \in Task, Import(q, m) PROVE IInv'
    <3>1. slots' \in Nat /\ passed' \subseteq Request
      BY <2>0, <2>3 DEF Import, Admit, Count, FailOpen
    <3>2. PICK kind \in Kinds, phones \in SUBSET Phones, inline \in BOOLEAN :
             Ask(m, kind, phones, inline)
      BY <2>3 DEF Import, Kinds
    <3> QED
      BY <3>1, <3>2, AskKeeps
  <2>4. ASSUME NEW m \in Task, SendBulk(m) PROVE IInv'
    <3>1. slots' \in Nat /\ passed' \subseteq Request
      BY <2>0, <2>4 DEF SendBulk, throttleVars
    <3>2. Ask(m, "send", {}, FALSE) /\ "send" \in Kinds
      BY <2>4 DEF SendBulk, Kinds
    <3> QED
      BY <3>1, <3>2, AskKeeps
  <2>5. ASSUME NEW w \in Worker, NEW m \in Task, Deliver(w, m) PROVE IInv'
    BY <2>5, DeliverKeeps
  <2>6. ASSUME NEW w \in Worker, Step(w) PROVE IInv'
    BY <2>6, SendKeeps, FileStepKeeps, CommitKeeps, AckKeeps DEF Step
  <2>7. ASSUME NEW w \in Worker, RowFails(w) PROVE IInv'
    BY <2>7, RowFailsKeeps
  <2>8. ASSUME NEW w \in Worker, Crash(w) \/ TimesOut(w) PROVE IInv'
    BY <2>8, ReturnKeeps
  <2>9. CASE UNCHANGED vars
    BY <2>0, <2>9, ThrottleKeeps DEF vars, queueVars, storeVars
  <2> QED
    BY <2>1, <2>2, <2>3, <2>4, <2>5, <2>6, <2>7, <2>8, <2>9 DEF Next
<1> QED
  BY InitIInv, <1>1, PTL DEF Spec
-----------------------------------------------------------------------------
\* Tasks, queue, results and workers have their types.
THEOREM TaskTypes == Spec => []TypeOK
BY InvIInv, PTL DEF IInv

\* An accepted task without a result is in the queue or with a worker, however
\* many workers are lost and deliveries time out.
THEOREM TasksAreNotLost == Spec => []NotLost
BY InvIInv, PTL DEF IInv

\* A success without an error means that the numbers, or the rows, are stored;
\* rows are stored and messages sent at most once for each start, nothing is logged that was
\* not sent, and every start after the first is due to a fault.
THEOREM ResultsAreTrue == Spec => []ResultIsTrue
<1>1. IInv => ResultIsTrue
  <2> SUFFICES ASSUME IInv, NEW m \in Task
               PROVE  /\ result[m] = "clean" /\ task[m].kind = "leads" => task[m].phones \subseteq contacts
                      /\ result[m] = "clean" /\ AppendsLog(m) => logged[m] > 0
                      /\ logged[m] <= started[m] /\ sent[m] <= started[m]
                      /\ task[m].kind = "send" => logged[m] <= sent[m]
                      /\ started[m] + queue[m] <= 1 + faults
    BY DEF ResultIsTrue
  <2>1. /\ sent[m] \in Nat /\ logged[m] \in Nat /\ started[m] \in Nat
        /\ Cardinality(At(run, m, "send")) \in Nat /\ Cardinality(At(run, m, "commit")) \in Nat
    BY AtType DEF IInv, TypeOK
  <2>2. /\ sent[m] + Cardinality(At(run, m, "send")) <= started[m]
        /\ IF AppendsLog(m)
           THEN logged[m] + Cardinality(At(run, m, "commit"))
                  <= IF task[m].kind = "send" THEN sent[m] ELSE started[m]
           ELSE logged[m] = 0
        /\ started[m] + queue[m] <= 1 + faults
    BY DEF IInv, Counted
  <2>3. sent[m] <= started[m]
    BY <2>1, <2>2
  <2>4. CASE AppendsLog(m)
    <3>1. logged[m] <= IF task[m].kind = "send" THEN sent[m] ELSE started[m]
      BY <2>1, <2>2, <2>4
    <3>2. logged[m] <= started[m] /\ (task[m].kind = "send" => logged[m] <= sent[m])
      BY <2>1, <2>3, <3>1
    <3> QED
      BY <2>2, <2>3, <3>2 DEF IInv, ResultsFit
  <2>5. CASE ~AppendsLog(m)
    <3>1. logged[m] = 0 /\ task[m].kind # "send"
      BY <2>2, <2>5 DEF AppendsLog
    <3> QED
      BY <2>1, <2>2, <2>3, <2>5, <3>1 DEF IInv, ResultsFit
  <2> QED
    BY <2>4, <2>5
<1> QED
  BY InvIInv, <1>1, PTL
-----------------------------------------------------------------------------
(* Workers advance. *)

\* A step of a worker, or its loss, brings it closer to the end of its task.
LEMMA StepAdvances ==
  ASSUME TypeOK, RowsFit, NEW w \in Worker, Step(w) \/ Crash(w)
  PROVE  /\ run[w].pc # "free" /\ Closer(run'[w], run[w]) /\ RowFits(run'[w])
         /\ \A v \in Worker \ {w} : run'[v] = run[v]
<1>1. run \in [Worker -> Runs] /\ run[w] \in Runs
  BY DEF TypeOK
<1>2. RowFits(run[w])
  BY DEF RowsFit
<1> DEFINE Goal(r) == run[w].pc # "free" /\ Closer(r, run[w]) /\ RowFits(r)
<1>3. ASSUME NEW r, run' = [run EXCEPT ![w] = r], Goal(r)
      PROVE  Goal(run'[w]) /\ \A v \in Worker \ {w} : run'[v] = run[v]
  BY <1>1, <1>3
<1>4. CASE Send(w)
  <2> DEFINE r == [run[w] EXCEPT !.pc = "commit"]
  <2>1. run[w].pc = "send" /\ run' = [run EXCEPT ![w] = r]
    BY <1>4 DEF Send
  <2>2. r.later = run[w].later /\ r.rows = run[w].rows /\ r.pc = "commit"
    BY <1>1 DEF Runs
  <2>3. Goal(r)
    BY <2>1, <2>2 DEF Closer, StepsLeft, RowFits
  <2> QED
    BY <1>3, <2>1, <2>3
<1>6. CASE NextFile(w)
  <2>1. PICK file \in (SUBSET run[w].later) \ {{}} :
           \/ run' = [run EXCEPT ![w].pc = "work", ![w].rows = file, ![w].later = @ \ file]
           \/ \E out \in PassedOver(w) :
                run' = [run EXCEPT ![w].pc = AfterFile(run[w].later \ file),
                                   ![w].out = out, ![w].later = @ \ file]
    BY <1>6 DEF NextFile
  <2>2. run[w].pc = "file"
    BY <1>6 DEF NextFile
  <2>3. PICK p : p \in file /\ p \in run[w].later
    OBVIOUS
  <2>4. ASSUME NEW r, r.later = run[w].later \ file, r.pc # "insert" PROVE Goal(r)
    <3>1. r.later \subseteq run[w].later /\ r.later # run[w].later
      BY <2>3, <2>4
    <3> QED
      BY <2>2, <2>4, <3>1 DEF Closer, RowFits
  <2>5. CASE run' = [run EXCEPT ![w].pc = "work", ![w].rows = file, ![w].later = @ \ file]
    <3> DEFINE r == [run[w] EXCEPT !.pc = "work", !.rows = file, !.later = @ \ file]
    <3>1. r.later = run[w].later \ file /\ r.pc = "work" /\ run' = [run EXCEPT ![w] = r]
      BY <1>1, <2>5 DEF Runs
    <3> HIDE DEF r
    <3> QED
      BY <1>3, <2>4, <3>1
  <2>6. ASSUME NEW out, run' = [run EXCEPT ![w].pc = AfterFile(run[w].later \ file),
                                           ![w].out = out, ![w].later = @ \ file]
        PROVE  Goal(run'[w]) /\ \A v \in Worker \ {w} : run'[v] = run[v]
    <3> DEFINE r == [run[w] EXCEPT !.pc = AfterFile(run[w].later \ file),
                                   !.out = out, !.later = @ \ file]
    <3>1. r.later = run[w].later \ file /\ r.pc # "insert" /\ run' = [run EXCEPT ![w] = r]
      BY <1>1, <2>6 DEF Runs, AfterFile
    <3> HIDE DEF r
    <3> QED
      BY <1>3, <2>4, <3>1
  <2> QED
    BY <2>1, <2>5, <2>6
<1>7. CASE LookUp(w)
  <2>1. PICK p \in run[w].rows :
           run' = IF Found(p) THEN [run EXCEPT ![w].rows = @ \ {p}]
                              ELSE [run EXCEPT ![w].pc = "insert", ![w].row = {p}]
    BY <1>7 DEF LookUp
  <2>2. run[w].pc = "work"
    BY <1>7 DEF LookUp
  <2>3. CASE Found(p)
    <3> DEFINE r == [run[w] EXCEPT !.rows = @ \ {p}]
    <3>1. r.later = run[w].later /\ r.pc = run[w].pc /\ r.rows = run[w].rows \ {p}
      BY <1>1 DEF Runs
    <3>2. Goal(r)
      BY <2>2, <3>1 DEF Closer, StepsLeft, RowFits
    <3>3. run' = [run EXCEPT ![w] = r]
      BY <2>1, <2>3
    <3> QED
      BY <1>3, <3>2, <3>3
  <2>4. CASE ~Found(p)
    <3> DEFINE r == [run[w] EXCEPT !.pc = "insert", !.row = {p}]
    <3>1. r.later = run[w].later /\ r.pc = "insert" /\ r.rows = run[w].rows /\ r.row = {p}
      BY <1>1 DEF Runs
    <3>2. Goal(r)
      BY <2>2, <3>1 DEF Closer, StepsLeft, RowFits
    <3>3. run' = [run EXCEPT ![w] = r]
      BY <2>1, <2>4
    <3> QED
      BY <1>3, <3>2, <3>3
  <2> QED
    BY <2>3, <2>4
<1>8. ASSUME run' = [run EXCEPT ![w] = Doomed(run[w])], run[w].pc = "insert"
      PROVE  Goal(run'[w]) /\ \A v \in Worker \ {w} : run'[v] = run[v]
  <2>1. /\ Doomed(run[w]).pc = "commit" /\ Doomed(run[w]).rows = {}
        /\ Doomed(run[w]).later = run[w].later
    BY <1>1 DEF Doomed, Runs
  <2>2. Goal(Doomed(run[w]))
    BY <1>8, <2>1 DEF Closer, StepsLeft, RowFits
  <2> QED
    BY <1>3, <1>8, <2>2
<1>9. CASE Insert(w)
  <2>1. run[w].pc = "insert"
    BY <1>9 DEF Insert
  <2>2. CASE run[w].row \subseteq contacts
    BY <1>8, <1>9, <2>1, <2>2 DEF Insert
  <2>3. CASE ~(run[w].row \subseteq contacts)
    <3> DEFINE r == [run[w] EXCEPT !.pc = "work", !.rows = @ \ run[w].row, !.row = {},
                                   !.adds = @ \cup run[w].row]
    <3>1. run' = [run EXCEPT ![w] = r]
      <4>1. run' = [run EXCEPT ![w] = IF run[w].row \subseteq contacts THEN Doomed(run[w]) ELSE r]
        BY <1>9 DEF Insert
      <4> HIDE DEF r
      <4> QED
        BY <4>1, <2>3
    <3>2. r.later = run[w].later /\ r.pc = "work" /\ r.rows = run[w].rows \ run[w].row
      BY <1>1 DEF Runs
    <3>3. PICK p \in run[w].rows : run[w].row = {p}
      BY <1>2, <2>1 DEF RowFits
    <3>4. r.rows \subseteq run[w].rows /\ r.rows # run[w].rows
      BY <3>2, <3>3
    <3>5. Goal(r)
      BY <2>1, <3>2, <3>4 DEF Closer, StepsLeft, RowFits
    <3> QED
      BY <1>3, <3>1, <3>5
  <2> QED
    BY <2>2, <2>3
<1>10. CASE DeadlockVictim(w)
  BY <1>8, <1>10, CirclesWait DEF DeadlockVictim, Waits
<1>12. CASE Commit(w)
  <2>1. PICK out \in Ends(w) :
           run' = [run EXCEPT ![w] =
                     [@ EXCEPT !.pc = IF IsBatch(w) THEN AfterFile(run[w].later) ELSE "ack",
                               !.adds = {}, !.doomed = FALSE, !.out = out]]
    BY <1>12 DEF Commit
  <2> DEFINE r == [run[w] EXCEPT !.pc = IF IsBatch(w) THEN AfterFile(run[w].later) ELSE "ack",
                                 !.adds = {}, !.doomed = FALSE, !.out = out]
  <2>2. run[w].pc \in {"work", "commit"} /\ run' = [run EXCEPT ![w] = r]
    BY <1>12, <2>1 DEF Commit, RowsDone
  <2>3. r.later = run[w].later /\ r.rows = run[w].rows /\ r.pc \in {"file", "ack"}
    BY <1>1 DEF Runs, AfterFile
  <2>4. Goal(r)
    BY <2>2, <2>3 DEF Closer, StepsLeft, RowFits
  <2> QED
    BY <1>3, <2>2, <2>4
<1>13. CASE Ack(w) \/ Crash(w)
  <2>1. run[w].pc # "free" /\ run' = [run EXCEPT ![w] = Free]
    BY <1>13 DEF Ack, Crash
  <2>2. Free.pc = "free" /\ Free.later = {}
    BY DEF Free
  <2>3. run[w].pc \in {"file", "send", "work", "insert", "commit", "ack"}
    BY <1>1, <2>1 DEF Runs
  <2>4. Goal(Free)
    BY <2>1, <2>2, <2>3 DEF Closer, StepsLeft, RowFits
  <2> QED
    BY <1>3, <2>1, <2>4
<1>14. CASE SkipRow(w)
  <2>1. PICK p \in run[w].rows : run' = [run EXCEPT ![w].rows = @ \ {p}, ![w].out = "partial"]
    BY <1>14 DEF SkipRow
  <2> DEFINE r == [run[w] EXCEPT !.rows = @ \ {p}, !.out = "partial"]
  <2>2. run[w].pc = "work" /\ run' = [run EXCEPT ![w] = r]
    BY <1>14, <2>1 DEF SkipRow
  <2>3. r.later = run[w].later /\ r.pc = "work" /\ r.rows = run[w].rows \ {p}
    BY <1>1, <2>2 DEF Runs
  <2>4. Goal(r)
    BY <2>2, <2>3 DEF Closer, StepsLeft, RowFits
  <2> QED
    BY <1>3, <2>2, <2>4
<1> QED
  BY <1>4, <1>6, <1>7, <1>9, <1>10, <1>12, <1>13, <1>14 DEF Step

\* What the other steps do to the workers.
LEMMA OthersLeave ==
  ASSUME TypeOK, RowsFit, [Next]_vars, NEW w \in Worker, ~Step(w), ~Crash(w), run[w].pc # "free"
  PROVE  \/ run'[w] = run[w]
         \/ run'[w] = Doomed(run[w]) /\ run[w].pc \in {"work", "commit"}
<1>1. run \in [Worker -> Runs]
  BY DEF TypeOK
<1>2. CASE \/ UNCHANGED vars \/ Expire
           \/ \E q \in Request : Check(q) \/ Look(q) \/ \E m \in Task : Import(q, m)
           \/ \E m \in Task : SendBulk(m)
           \/ \E v \in Worker : TimesOut(v)
  BY <1>2 DEF vars, Expire, Check, Look, Import, SendBulk, Ask, TimesOut
<1>3. ASSUME NEW v \in Worker, Step(v) \/ Crash(v) PROVE run'[w] = run[w]
  BY <1>3, StepAdvances
<1>4. ASSUME NEW v \in Worker, NEW m \in Task, Deliver(v, m) PROVE run'[w] = run[w]
  BY <1>1, <1>4 DEF Deliver
<1>5. ASSUME NEW v \in Worker, RowFails(v)
      PROVE  \/ run'[w] = run[w]
             \/ run'[w] = Doomed(run[w]) /\ run[w].pc \in {"work", "commit"}
  BY <1>1, <1>5 DEF RowFails
<1> QED
  BY <1>2, <1>3, <1>4, <1>5 DEF Next

\* A worker inserts a row of the current file.
LEMMA RowsFitAlways == Spec => []RowsFit
<1>1. Init => RowsFit
  BY DEF Init, RowsFit, RowFits, Free
<1>2. TypeOK /\ RowsFit /\ [Next]_vars => RowsFit'
  <2> SUFFICES ASSUME TypeOK, RowsFit, [Next]_vars, NEW w \in Worker PROVE RowFits(run'[w])
    BY DEF RowsFit
  <2>1. run \in [Worker -> Runs] /\ run[w] \in Runs /\ RowFits(run[w])
    BY DEF TypeOK, RowsFit
  <2>2. CASE Step(w) \/ Crash(w)
    BY <2>2, StepAdvances
  <2>3. CASE ~Step(w) /\ ~Crash(w) /\ run[w].pc # "free"
    <3>1. Doomed(run[w]).pc = "commit"
      BY <2>1 DEF Doomed, Runs
    <3> QED
      BY <2>1, <2>3, <3>1, OthersLeave DEF RowFits
  <2>4. CASE ~Step(w) /\ ~Crash(w) /\ run[w].pc = "free"
    <3>1. CASE \E m \in Task : Deliver(w, m)
      <4>1. PICK m \in Task : Deliver(w, m)
        BY <3>1
      <4>2. PICK out \in Openings(m) : run'[w] = Opened(m, out)
        BY <2>1, <4>1 DEF Deliver
      <4>3. Opened(m, out).pc \in {FirstStep(task[m].kind), "ack"}
        BY DEF Opened, Free
      <4> QED
        BY <4>2, <4>3 DEF FirstStep, RowFits
    <3>2. ASSUME ~\E m \in Task : Deliver(w, m) PROVE run'[w] = run[w]
      <4>1. CASE \/ UNCHANGED vars \/ Expire
                 \/ \E q \in Request : Check(q) \/ Look(q) \/ \E m \in Task : Import(q, m)
                 \/ \E m \in Task : SendBulk(m)
                 \/ \E v \in Worker : TimesOut(v)
        BY <4>1 DEF vars, Expire, Check, Look, Import, SendBulk, Ask, TimesOut
      <4>2. ASSUME NEW v \in Worker, Step(v) \/ Crash(v) PROVE run'[w] = run[w]
        BY <2>4, <4>2, StepAdvances
      <4>3. ASSUME NEW v \in Worker, RowFails(v) \/ \E m \in Task : Deliver(v, m)
            PROVE  run'[w] = run[w]
        <5>1. v # w
          BY <2>4, <3>2, <4>3 DEF RowFails
        <5> QED
          BY <2>1, <4>3, <5>1 DEF RowFails, Deliver
      <4> QED
        BY <4>1, <4>2, <4>3 DEF Next
    <3> QED
      BY <2>1, <3>1, <3>2
  <2> QED
    BY <2>2, <2>3, <2>4
<1> QED
  BY TaskTypes, <1>1, <1>2, PTL DEF Spec

\* No worker comes closer to the end of its task for ever.
LEMMA TasksAreFinite ==
   IsWellFoundedOn({e \in Runs \X Runs : Closer(e[1], e[2])}, Runs)
<1> DEFINE R == {e \in Runs \X Runs : Closer(e[1], e[2])}
<1>1. ASSUME NEW T \in SUBSET Runs, T # {}
      PROVE  \E a \in T : \A b \in T : ~Closer(b, a)
  <2>1. PICK later \in {a.later : a \in T} :
           \A t \in {a.later : a \in T} : t \subseteq later => t = later
    <3> DEFINE C == {a.later : a \in T}
    <3>1. C \subseteq SUBSET Phones /\ C # {}
      BY <1>1 DEF Runs
    <3>2. \E S \in C : \A t \in C : t \subseteq S => t = S
      <4> HIDE DEF C
      <4> QED
        BY <3>1, FiniteAssumption, SmallestSet
    <3> QED
      BY <3>2
  <2> DEFINE U == {a \in T : a.later = later}
  <2>2. PICK n \in {StepsLeft(a.pc) : a \in U} :
           \A t \in {StepsLeft(a.pc) : a \in U} : n <= t
    <3> DEFINE C == {StepsLeft(a.pc) : a \in U}
    <3>1. \A a \in U : StepsLeft(a.pc) \in 0..4
      BY DEF StepsLeft
    <3>2. C \subseteq 0..4 /\ C # {}
      BY <1>1, <3>1
    <3>3. \E k \in C : \A t \in C : k <= t
      <4> HIDE DEF C
      <4>1. CASE 0 \in C
        BY <3>2, <4>1
      <4>2. CASE 0 \notin C /\ 1 \in C
        BY <3>2, <4>2
      <4>3. CASE 0 \notin C /\ 1 \notin C /\ 2 \in C
        BY <3>2, <4>3
      <4>4. CASE 0 \notin C /\ 1 \notin C /\ 2 \notin C /\ 3 \in C
        BY <3>2, <4>4
      <4>5. CASE 0 \notin C /\ 1 \notin C /\ 2 \notin C /\ 3 \notin C
        <5>1. \A t \in C : t = 4
          BY <3>2, <4>5
        <5>2. PICK k \in C : TRUE
          BY <3>2
        <5> QED
          BY <5>1, <5>2
      <4> QED
        BY <4>1, <4>2, <4>3, <4>4, <4>5
    <3> QED
      BY <3>3
  <2> DEFINE V == {a \in U : StepsLeft(a.pc) = n}
  <2>3. PICK rows \in {a.rows : a \in V} :
           \A t \in {a.rows : a \in V} : t \subseteq rows => t = rows
    <3> DEFINE C == {a.rows : a \in V}
    <3>1. C \subseteq SUBSET Phones /\ C # {}
      BY <1>1, <2>2 DEF Runs
    <3>2. \E S \in C : \A t \in C : t \subseteq S => t = S
      <4> HIDE DEF C
      <4> QED
        BY <3>1, FiniteAssumption, SmallestSet
    <3> QED
      BY <3>2
  <2> DEFINE W == {a \in V : a.rows = rows}
  <2>4. PICK a \in W : a.pc = "work" => \A b \in W : b.pc = "work"
    BY <2>3
  <2>5. ASSUME NEW b \in T, Closer(b, a) PROVE FALSE
    <3>1. b.later = later
      BY <2>1, <2>4, <2>5 DEF Closer
    <3>2. StepsLeft(b.pc) <= n /\ n <= StepsLeft(b.pc)
      BY <2>2, <2>4, <2>5, <3>1 DEF Closer
    <3>3. StepsLeft(b.pc) = n
      BY <3>2 DEF StepsLeft
    <3>4. b.rows = rows
      BY <2>3, <2>4, <2>5, <3>1, <3>3 DEF Closer
    <3>5. a.pc = "work" /\ b.pc = "insert"
      BY <2>4, <2>5, <3>1, <3>3, <3>4 DEF Closer
    <3> QED
      BY <2>4, <3>1, <3>3, <3>4, <3>5
  <2> QED
    BY <2>4, <2>5
<1>2. ASSUME NEW T, T \subseteq Runs, T # {}
      PROVE  \E a \in T : \A b \in T : <<b, a>> \notin R
  BY <1>1, <1>2
<1> QED
  BY <1>2, MinWF

\* Every step of a worker brings it closer to the end of its task, nothing takes
\* it back, and it cannot come closer for ever.
THEOREM WorkersOnlyAdvance ==
  /\ Spec => WorkersAdvance
  /\ IsWellFoundedOn({e \in Runs \X Runs : Closer(e[1], e[2])}, Runs)
<1>1. TypeOK /\ RowsFit /\ [Next]_vars =>
        [\A w \in Worker : run[w].pc # "free" =>
           /\ Step(w) => Closer(run'[w], run[w])
           /\ \/ UNCHANGED <<run[w].later, run[w].pc, run[w].rows>>
              \/ Closer(run'[w], run[w])]_vars
  <2> SUFFICES ASSUME TypeOK, RowsFit, [Next]_vars, NEW w \in Worker, run[w].pc # "free"
               PROVE  /\ Step(w) => Closer(run'[w], run[w])
                      /\ \/ UNCHANGED <<run[w].later, run[w].pc, run[w].rows>>
                         \/ Closer(run'[w], run[w])
    OBVIOUS
  <2>1. CASE Step(w) \/ Crash(w)
    BY <2>1, StepAdvances
  <2>2. CASE ~Step(w) /\ run'[w] = run[w]
    BY <2>2
  <2>3. CASE ~Step(w) /\ run'[w] = Doomed(run[w]) /\ run[w].pc \in {"work", "commit"}
    <3>1. run[w] \in Runs
      BY DEF TypeOK
    <3>2. run'[w].pc = "commit" /\ run'[w].later = run[w].later /\ run'[w].rows = {}
      BY <2>3, <3>1 DEF Doomed, Runs
    <3>3. CASE run[w].pc = "commit" /\ run[w].rows = {}
      BY <2>3, <3>2, <3>3
    <3>4. CASE run[w].pc = "work" \/ run[w].rows # {}
      BY <2>3, <3>2, <3>4 DEF Closer, StepsLeft
    <3> QED
      BY <2>3, <3>3, <3>4
  <2> QED
    BY <2>1, <2>2, <2>3, OthersLeave
<1>2. Spec => WorkersAdvance
  BY TaskTypes, RowsFitAlways, <1>1, PTL DEF Spec, WorkersAdvance
<1> QED
  BY <1>2, TasksAreFinite
=============================================================================
