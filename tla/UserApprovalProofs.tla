-------------------------- MODULE UserApprovalProofs --------------------------
(***************************************************************************)
(* Theorems about UserApproval: any number of concurrent requests, of      *)
(* reminders and of faults.                                                *)
(***************************************************************************)
EXTENDS UserApproval, TLAPS

USE BoundsAssumption, RequestAssumption

\* Enough of the state's type for the steps that follow.
LEMMA WrittenType ==
  ASSUME TypeOK, NEW k \in Kinds
  PROVE  Written(k) \in Users
BY DEF TypeOK, Written, Users, Kinds

LEMMA ArriveType ==
  ASSUME TypeOK, NEW t \in Tasks, Arrive(t)
  PROVE  outcome' \in [Tasks -> Process!Outcomes]
BY DEF TypeOK, Arrive, Process!Outcomes

LEMMA NodesAreTasks ==
  ASSUME NEW k \in Tokens, NEW n \in ServiceNodes
  PROVE  <<k, n>> \in Tasks
BY DEF Tasks

LEMMA FirstToken == 1 \in Tokens
BY DEF Tokens

LEMMA DoneType ==
  ASSUME TypeOK, NEW q \in Request, Done(q)
  PROVE  /\ pc' \in [Request -> Places]
         /\ kind' \in [Request -> Kinds \cup {"none"}]
         /\ chosen' \in [Request -> Tokens \cup {NoToken}]
BY DEF TypeOK, Done, Goto, Places

LEMMA DecideType ==
  ASSUME TypeOK, NEW k \in Tokens, NEW d \in {"approve", "reject"}, Decide(k, d)
  PROVE  /\ outcome' \in [Tasks -> Process!Outcomes]
         /\ review' \subseteq Tokens
         /\ decided' \subseteq {"approve", "reject"}
         /\ effect' = effect
<1>1. <<k, IF d = "approve" THEN "activate_user" ELSE "notify_user_rejected">> \in Tasks
  BY NodesAreTasks DEF ServiceNodes
<1> QED
  BY <1>1, ArriveType DEF Decide, TypeOK

LEMMA InitIInv == Init => IInv
<1> SUFFICES ASSUME Init PROVE IInv
  OBVIOUS
<1> USE DEF Init, Nobody
<1>1. TypeOK
  <2>1. user \in Users
    BY DEF Users
  <2>2. outcome \in [Tasks -> Process!Outcomes] /\ effect = {}
    BY DEF Process!TaskInit, Process!Outcomes
  <2>3. pc \in [Request -> Places]
    BY DEF Places
  <2>4. faults \in 0..MaxFaults
    OBVIOUS
  <2>5. /\ kind \in [Request -> Kinds \cup {"none"}]
        /\ chosen \in [Request -> Tokens \cup {NoToken}]
    OBVIOUS
  <2>6. /\ rowLock \in Request \cup {Nobody}
        /\ review \subseteq Tokens /\ decided \subseteq {"approve", "reject"}
        /\ applied \subseteq Kinds
    OBVIOUS
  <2>7. barred \in BOOLEAN /\ orphan \in BOOLEAN
    OBVIOUS
  <2> QED
    BY <2>1, <2>2, <2>3, <2>4, <2>5, <2>6, <2>7, Zenon DEF TypeOK
<1>2. OneWriter /\ KindsFit /\ RowFits /\ ApprovedByAdmin /\ BarredInactive
  BY DEF OneWriter, KindsFit, Busy, RowFits, ApprovedByAdmin, BarredInactive
<1>3. \A t \in Tasks : outcome[t] = "none"
  BY DEF Process!TaskInit
<1>4. ActivationDecided
  BY <1>3, NodesAreTasks DEF ActivationDecided, ServiceNodes
<1>5. ProcessIsKnown
  BY <1>3, NodesAreTasks, FirstToken DEF ProcessIsKnown, ServiceNodes
<1>6. TokensFit
  BY <1>3, NodesAreTasks DEF TokensFit, TokenFits, ServiceNodes
<1>7. DecidedOnce /\ ActivationsLand
  BY <1>3, NodesAreTasks DEF DecidedOnce, ActivationsLand, ServiceNodes, Process!TaskInit
<1> QED
  BY <1>1, <1>2, <1>4, <1>5, <1>6, <1>7 DEF IInv

\* Every step of a request and of the process keeps the types.
LEMMA NextTypeOK == TypeOK /\ KindsFit /\ [Next]_vars => TypeOK'
<1> SUFFICES ASSUME TypeOK, KindsFit, [Next]_vars PROVE TypeOK'
  OBVIOUS
<1> USE DEF TypeOK, requestVars, processVars, historyVars
<1>1. ASSUME NEW q \in Request, NEW k \in Kinds, Begin(q, k) PROVE TypeOK'
  BY <1>1 DEF Begin, Goto, Places
<1>2. ASSUME NEW q \in Request, Write(q) PROVE TypeOK'
  <2>1. pc' \in [Request -> Places]
    BY <1>2 DEF Write, Goto, AfterWrite, Places
  <2> QED
    BY <1>2, <2>1 DEF Write
<1>3. ASSUME NEW q \in Request, WriteRefused(q) PROVE TypeOK'
  BY <1>3, DoneType DEF WriteRefused
<1>4. ASSUME NEW q \in Request, StartProcess(q) PROVE TypeOK'
  <2>1. outcome' \in [Tasks -> Process!Outcomes]
    BY <1>4, ArriveType, NodesAreTasks, FirstToken DEF StartProcess, ServiceNodes
  <2> QED
    BY <1>4, <2>1 DEF StartProcess, Goto, Places
<1>5. ASSUME NEW q \in Request, StartFails(q) PROVE TypeOK'
  <2>1. faults' \in 0..MaxFaults /\ pc' \in [Request -> Places]
    BY <1>5 DEF StartFails, Fault, Goto, Places
  <2> QED
    BY <1>5, <2>1 DEF StartFails
<1>16. ASSUME NEW q \in Request, ListFails(q) PROVE TypeOK'
  BY <1>16 DEF ListFails, Fault, Goto, Places
<1>6. ASSUME NEW q \in Request, ListTasks(q) PROVE TypeOK'
  BY <1>6 DEF ListTasks, Goto, Places
<1>7. ASSUME NEW q \in Request, CompleteTask(q) PROVE TypeOK'
  <2>1. kind[q] \in {"approve", "reject"}
    BY <1>7 DEF CompleteTask, KindsFit
  <2>2. /\ outcome' \in [Tasks -> Process!Outcomes]
        /\ review' \subseteq Tokens
        /\ decided' \subseteq {"approve", "reject"}
        /\ effect' = effect
    <3>1. CASE chosen[q] \in review
      BY <1>7, <2>1, <3>1, DecideType DEF CompleteTask
    <3>2. CASE chosen[q] \notin review
      BY <1>7, <3>2 DEF CompleteTask
    <3> QED
      BY <3>1, <3>2
  <2> QED
    BY <1>7, <2>2 DEF CompleteTask, Goto, Places
<1>8. ASSUME NEW q \in Request, CompleteLost(q) PROVE TypeOK'
  BY <1>8 DEF CompleteLost, Fault, Goto, Places
<1>9. ASSUME NEW q \in Request, Commit(q) PROVE TypeOK'
  <2>1. kind[q] \in Kinds
    BY <1>9 DEF Commit, KindsFit, Busy
  <2>2. user' \in Users
    BY <1>9, <2>1, WrittenType DEF Commit
  <2>3. barred' \in BOOLEAN
    BY <1>9, <2>1 DEF Commit
  <2>4. applied' \subseteq Kinds
    BY <1>9, <2>1 DEF Commit
  <2>5. /\ pc' \in [Request -> Places]
        /\ kind' \in [Request -> Kinds \cup {"none"}]
        /\ chosen' \in [Request -> Tokens \cup {NoToken}]
    BY <1>9, DoneType DEF Commit
  <2> QED
    BY <1>9, <2>2, <2>3, <2>4, <2>5 DEF Commit
<1>10. ASSUME NEW q \in Request, Abort(q) PROVE TypeOK'
  <2>1. /\ pc' \in [Request -> Places]
        /\ kind' \in [Request -> Kinds \cup {"none"}]
        /\ chosen' \in [Request -> Tokens \cup {NoToken}]
    BY <1>10, DoneType DEF Abort
  <2>2. /\ outcome' \in [Tasks -> Process!Outcomes]
        /\ effect' \subseteq Tasks /\ review' \subseteq Tokens /\ orphan' \in BOOLEAN
        /\ decided' = decided
    BY <1>10 DEF Abort, Process!Outcomes
  <2>3. rowLock' \in Request \cup {Nobody} /\ faults' \in 0..MaxFaults
    BY <1>10 DEF Abort, Fault
  <2> QED
    BY <1>10, <2>1, <2>2, <2>3 DEF Abort
<1>11. ASSUME NEW k \in Tokens, Reminder(k) PROVE TypeOK'
  <2>1. outcome' \in [Tasks -> Process!Outcomes]
    BY <1>11, ArriveType, NodesAreTasks DEF Reminder, ServiceNodes
  <2> QED
    BY <1>11, <2>1 DEF Reminder
<1>12. ASSUME NEW k \in Tokens, NEW n \in ServiceNodes, Handle(k, n) PROVE TypeOK'
  <2>1. user' \in Users
    BY <1>12 DEF Handle, Users
  <2> QED
    BY <1>12, <2>1, NodesAreTasks DEF Handle
<1>13. ASSUME NEW k \in Tokens, NEW n \in ServiceNodes, Finish(k, n) PROVE TypeOK'
  <2>1. outcome' \in [Tasks -> Process!Outcomes]
    BY <1>13 DEF Finish, Process!Outcomes
  <2> QED
    BY <1>13, <2>1 DEF Finish
<1>14. ASSUME NEW k \in Tokens, NEW n \in ServiceNodes, WorkFails(k, n) PROVE TypeOK'
  <2>1. outcome' \in [Tasks -> Process!Outcomes]
    BY <1>14 DEF WorkFails, ThrowError, RunOut, Revive, Process!Outcomes
  <2>2. faults' \in 0..MaxFaults
    BY <1>14 DEF WorkFails, ThrowError, RunOut, Revive, Fault
  <2> QED
    BY <1>14, <2>1, <2>2 DEF WorkFails, ThrowError, RunOut, Revive
<1>15. CASE UNCHANGED vars
  BY <1>15 DEF vars
<1> QED
  BY <1>1, <1>2, <1>3, <1>4, <1>5, <1>6, <1>7, <1>8, <1>9, <1>10, <1>11, <1>12,
     <1>13, <1>14, <1>15, <1>16 DEF Next, Serve, Disturb, Work
-----------------------------------------------------------------------------
\* The row lock belongs to the one transaction that has written the row.
LEMMA NextOneWriter == TypeOK /\ OneWriter /\ [Next]_vars => OneWriter'
<1> SUFFICES ASSUME TypeOK, OneWriter, [Next]_vars PROVE OneWriter'
  OBVIOUS
<1> USE DEF TypeOK, OneWriter, Nobody, requestVars, processVars, historyVars, Goto
<1>1. ASSUME NEW q \in Request, NEW k \in Kinds, Begin(q, k) PROVE OneWriter'
  BY <1>1 DEF Begin
<1>2. ASSUME NEW q \in Request, Write(q) PROVE OneWriter'
  <2>1. AfterWrite(kind[q]) \in {"start", "list", "commit"}
    BY DEF AfterWrite
  <2>2. pc' = [pc EXCEPT ![q] = AfterWrite(kind[q])] /\ rowLock' = q /\ rowLock = "nobody"
    BY <1>2 DEF Write
  <2> QED
    BY <2>1, <2>2
<1>3. ASSUME NEW q \in Request, WriteRefused(q) PROVE OneWriter'
  BY <1>3 DEF WriteRefused, Done
<1>4. ASSUME NEW q \in Request, StartProcess(q) PROVE OneWriter'
  BY <1>4 DEF StartProcess
<1>5. ASSUME NEW q \in Request, StartFails(q) \/ ListFails(q) PROVE OneWriter'
  BY <1>5 DEF StartFails, ListFails
<1>6. ASSUME NEW q \in Request, ListTasks(q) PROVE OneWriter'
  BY <1>6 DEF ListTasks
<1>7. ASSUME NEW q \in Request, CompleteTask(q) \/ CompleteLost(q) PROVE OneWriter'
  BY <1>7 DEF CompleteTask, CompleteLost
<1>8. ASSUME NEW q \in Request, Commit(q) PROVE OneWriter'
  BY <1>8 DEF Commit, Done
<1>9. ASSUME NEW q \in Request, Abort(q) PROVE OneWriter'
  BY <1>9 DEF Abort, Done
<1>10. ASSUME NEW k \in Tokens, Reminder(k) PROVE OneWriter'
  BY <1>10 DEF Reminder
<1>11. ASSUME NEW k \in Tokens, NEW n \in ServiceNodes, Work(k, n) \/ WorkFails(k, n)
       PROVE  OneWriter'
  BY <1>11 DEF Work, Handle, Finish, WorkFails, ThrowError, RunOut, Revive
<1>12. CASE UNCHANGED vars
  BY <1>12 DEF vars
<1> QED
  BY <1>1, <1>2, <1>3, <1>4, <1>5, <1>6, <1>7, <1>8, <1>9, <1>10, <1>11, <1>12
     DEF Next, Serve, Disturb

\* A handler that has passed its checks is in the part of the code they lead to.
LEMMA NextKindsFit == TypeOK /\ KindsFit /\ [Next]_vars => KindsFit'
<1> SUFFICES ASSUME TypeOK, KindsFit, [Next]_vars PROVE KindsFit'
  OBVIOUS
<1> USE DEF TypeOK, KindsFit, Busy, requestVars, processVars, historyVars, Goto
<1>1. ASSUME NEW q \in Request, NEW k \in Kinds, Begin(q, k) PROVE KindsFit'
  BY <1>1 DEF Begin, Kinds
<1>2. ASSUME NEW q \in Request, Write(q) PROVE KindsFit'
  <2>1. /\ AfterWrite(kind[q]) \in {"start", "list", "commit"}
        /\ AfterWrite(kind[q]) = "start" => kind[q] = "register"
        /\ AfterWrite(kind[q]) = "list" => kind[q] \in {"approve", "reject"}
    BY DEF AfterWrite
  <2>2. pc' = [pc EXCEPT ![q] = AfterWrite(kind[q])] /\ kind' = kind /\ pc[q] = "write"
    BY <1>2 DEF Write
  <2> QED
    BY <2>1, <2>2
<1>3. ASSUME NEW q \in Request, WriteRefused(q) PROVE KindsFit'
  BY <1>3 DEF WriteRefused, Done
<1>4. ASSUME NEW q \in Request, StartProcess(q) PROVE KindsFit'
  BY <1>4 DEF StartProcess
<1>5. ASSUME NEW q \in Request, StartFails(q) \/ ListFails(q) PROVE KindsFit'
  BY <1>5 DEF StartFails, ListFails
<1>6. ASSUME NEW q \in Request, ListTasks(q) PROVE KindsFit'
  BY <1>6 DEF ListTasks
<1>7. ASSUME NEW q \in Request, CompleteTask(q) \/ CompleteLost(q) PROVE KindsFit'
  BY <1>7 DEF CompleteTask, CompleteLost
<1>8. ASSUME NEW q \in Request, Commit(q) PROVE KindsFit'
  BY <1>8 DEF Commit, Done
<1>9. ASSUME NEW q \in Request, Abort(q) PROVE KindsFit'
  BY <1>9 DEF Abort, Done
<1>10. ASSUME NEW k \in Tokens, Reminder(k) PROVE KindsFit'
  BY <1>10 DEF Reminder
<1>11. ASSUME NEW k \in Tokens, NEW n \in ServiceNodes, Work(k, n) \/ WorkFails(k, n)
       PROVE  KindsFit'
  BY <1>11 DEF Work, Handle, Finish, WorkFails, ThrowError, RunOut, Revive
<1>12. CASE UNCHANGED vars
  BY <1>12 DEF vars
<1> QED
  BY <1>1, <1>2, <1>3, <1>4, <1>5, <1>6, <1>7, <1>8, <1>9, <1>10, <1>11, <1>12
     DEF Next, Serve, Disturb

\* What a committing transaction makes of the row, by kind.
LEMMA CommitRow ==
  ASSUME IInv, NEW q \in Request, Commit(q)
  PROVE  /\ user.registered => user'.registered
         /\ user.approved => user'.approved
         /\ user.process => user'.process
         /\ user'.registered
         /\ user'.approved => \/ user.approved \/ kind[q] \in {"approve", "create"}
         /\ user'.active => \/ user.active
                            \/ kind[q] = "activate"
                            \/ ~user.registered
         /\ kind[q] \in {"reject", "deactivate"} => ~user'.active
         /\ kind[q] = "register" => user'.process = (outcome[<<1, "notify_admins">>] # "none")
         /\ kind[q] \notin {"register", "create"} => user'.process = user.process
         /\ kind[q] \in Kinds
<1>1. kind[q] \in Kinds
  BY DEF Commit, IInv, TypeOK, KindsFit, Busy
<1>2. kind[q] \in {"register", "create"} => ~user.registered /\ ~user.approved /\ ~user.process
  BY DEF Commit, IInv, RowFits
<1>3. kind[q] \notin {"register", "create"} => user.registered
  BY <1>1 DEF IInv, RowFits, Kinds
<1> QED
  BY <1>1, <1>2, <1>3 DEF Commit, Written, IInv, TypeOK, Users, Kinds

\* No step takes a registration, an approval or a process id back.
LEMMA RowGrows ==
  ASSUME IInv, [Next]_vars
  PROVE  /\ user.registered => user'.registered
         /\ user.approved => user'.approved
         /\ user.process => user'.process
<1>1. CASE \E q \in Request : Commit(q)
  BY <1>1, CommitRow
<1>2. CASE \E k \in Tokens, n \in ServiceNodes : Handle(k, n)
  BY <1>2 DEF Handle, IInv, TypeOK, Users
<1>3. CASE user' = user
  BY <1>3
<1>4. \/ \E q \in Request : Commit(q)
      \/ \E k \in Tokens, n \in ServiceNodes : Handle(k, n)
      \/ user' = user
  BY DEF vars, Next, Serve, Disturb, Work, WorkFails, Begin, Write, WriteRefused,
         StartProcess, StartFails, ListTasks, ListFails, CompleteTask, CompleteLost,
         Abort, Finish, ThrowError, RunOut, Revive, Reminder
<1> QED
  BY <1>1, <1>2, <1>3, <1>4

\* The only steps that change the row.
LEMMA RowSteps ==
  ASSUME [Next]_vars
  PROVE  \/ \E q \in Request : Commit(q)
         \/ \E k \in Tokens, n \in ServiceNodes : Handle(k, n)
         \/ UNCHANGED <<user, applied, barred>>
BY DEF vars, historyVars, Next, Serve, Disturb, Work, WorkFails, Begin, Write,
       WriteRefused, StartProcess, StartFails, ListTasks, ListFails, CompleteTask,
       CompleteLost, Abort, Finish, ThrowError, RunOut, Revive, Reminder

\* A check made on the row still holds when the request acts on it.
LEMMA NextRowFits == IInv /\ [Next]_vars => RowFits'
<1> SUFFICES ASSUME IInv, [Next]_vars PROVE RowFits'
  OBVIOUS
<1> USE DEF IInv, TypeOK, RowFits, requestVars, processVars, historyVars, Goto, Nobody
<1> DEFINE Fits(q) ==
      /\ pc[q] \in {"start", "commit"} /\ kind[q] \in {"register", "create"}
           => ~user.registered
      /\ kind[q] \in {"approve", "reject", "activate", "deactivate"} => user.registered
<1>1. ASSUME NEW q \in Request, NEW k \in Kinds, Begin(q, k) PROVE RowFits'
  BY <1>1 DEF Begin, Admits, Kinds
<1>2. ASSUME NEW q \in Request, Write(q) PROVE RowFits'
  <2>1. Fits(q)'
    BY <1>2 DEF Write
  <2>2. \A p \in Request \ {q} : Fits(p)'
    BY <1>2 DEF Write
  <2>3. user' = user
    BY <1>2 DEF Write
  <2> QED
    BY <2>1, <2>2, <2>3
<1>3. ASSUME NEW q \in Request, WriteRefused(q) PROVE RowFits'
  BY <1>3 DEF WriteRefused, Done
<1>4. ASSUME NEW q \in Request, StartProcess(q) \/ StartFails(q) PROVE RowFits'
  BY <1>4 DEF StartProcess, StartFails
<1>5. ASSUME NEW q \in Request, ListFails(q) \/ ListTasks(q) PROVE RowFits'
  <2>1. kind[q] \in {"approve", "reject"} /\ kind' = kind /\ user' = user
    BY <1>5 DEF ListFails, ListTasks, KindsFit
  <2>2. \A p \in Request \ {q} : pc'[p] = pc[p]
    BY <1>5 DEF ListFails, ListTasks
  <2> QED
    BY <2>1, <2>2
<1>6. ASSUME NEW q \in Request, CompleteTask(q) \/ CompleteLost(q) PROVE RowFits'
  <2>1. kind[q] \in {"approve", "reject"} /\ kind' = kind /\ user' = user
    BY <1>6 DEF CompleteTask, CompleteLost, KindsFit
  <2>2. \A p \in Request \ {q} : pc'[p] = pc[p]
    BY <1>6 DEF CompleteTask, CompleteLost
  <2> QED
    BY <2>1, <2>2
<1>7. ASSUME NEW q \in Request, Commit(q) PROVE RowFits'
  <2>1. user'.registered
    BY <1>7, CommitRow
  <2>2. \A p \in Request \ {q} : pc'[p] = pc[p] /\ kind'[p] = kind[p]
    BY <1>7 DEF Commit, Done
  <2>3. \A p \in Request \ {q} : pc[p] \notin {"start", "commit"}
    BY <1>7 DEF Commit, OneWriter
  <2>4. pc'[q] = "idle" /\ kind'[q] = "none"
    BY <1>7 DEF Commit, Done
  <2> QED
    BY <2>1, <2>2, <2>3, <2>4
<1>8. ASSUME NEW q \in Request, Abort(q) PROVE RowFits'
  BY <1>8 DEF Abort, Done
<1>9. ASSUME NEW k \in Tokens, NEW n \in ServiceNodes, Handle(k, n) PROVE RowFits'
  BY <1>9 DEF Handle, Users
<1>10. ASSUME NEW k \in Tokens, NEW n \in ServiceNodes, Finish(k, n) \/ WorkFails(k, n)
       PROVE  RowFits'
  BY <1>10 DEF Finish, WorkFails, ThrowError, RunOut, Revive
<1>11. ASSUME NEW k \in Tokens, Reminder(k) PROVE RowFits'
  BY <1>11 DEF Reminder
<1>12. CASE UNCHANGED vars
  BY <1>12 DEF vars
<1> QED
  BY <1>1, <1>2, <1>3, <1>4, <1>5, <1>6, <1>7, <1>8, <1>9, <1>10, <1>11, <1>12
     DEF Next, Serve, Disturb, Work

\* The process reaches activate_user on a decision to approve only.
LEMMA NextActivationDecided == IInv /\ [Next]_vars => ActivationDecided'
<1> SUFFICES ASSUME IInv, [Next]_vars PROVE ActivationDecided'
  OBVIOUS
<1> USE DEF IInv, TypeOK, ActivationDecided, requestVars, processVars, historyVars
<1>1. CASE outcome' = outcome /\ decided' = decided
  BY <1>1
<1>2. ASSUME NEW q \in Request, StartProcess(q) PROVE ActivationDecided'
  BY <1>2, FirstToken, NodesAreTasks DEF StartProcess, Arrive, ServiceNodes
<1>3. ASSUME NEW q \in Request, CompleteTask(q) PROVE ActivationDecided'
  <2>1. CASE chosen[q] \in review
    <3> DEFINE k == chosen[q]
    <3>1. Decide(k, kind[q]) /\ k \in Tokens
      BY <1>3, <2>1 DEF CompleteTask
    <3>2. CASE kind[q] = "approve"
      BY <3>1, <3>2 DEF Decide
    <3>3. CASE kind[q] # "approve"
      <4>1. outcome' = [outcome EXCEPT ![<<k, "notify_user_rejected">>] = "pending"]
        BY <3>1, <3>3 DEF Decide, Arrive
      <4>2. \A j \in Tokens : outcome'[<<j, "activate_user">>] = outcome[<<j, "activate_user">>]
        BY <4>1, NodesAreTasks DEF ServiceNodes
      <4> QED
        BY <3>1, <4>2 DEF Decide
    <3> QED
      BY <3>2, <3>3
  <2>2. CASE chosen[q] \notin review
    BY <1>3, <2>2 DEF CompleteTask
  <2> QED
    BY <2>1, <2>2
<1>4. ASSUME NEW q \in Request, Abort(q) PROVE ActivationDecided'
  BY <1>4, NodesAreTasks DEF Abort, ServiceNodes
<1>5. ASSUME NEW k \in Tokens, NEW n \in ServiceNodes, Finish(k, n) \/ WorkFails(k, n)
      PROVE  ActivationDecided'
  <2>1. outcome[<<k, n>>] # "none" /\ decided' = decided
    BY <1>5 DEF Finish, WorkFails, ThrowError, RunOut, Revive,
                Process!CanEnd, Process!Unsettled
  <2>2. ASSUME NEW j \in Tokens, outcome'[<<j, "activate_user">>] # "none"
        PROVE  outcome[<<j, "activate_user">>] # "none"
    <3>1. <<j, "activate_user">> \in Tasks
      BY NodesAreTasks DEF ServiceNodes
    <3>2. CASE <<j, "activate_user">> = <<k, n>>
      BY <2>1, <3>2
    <3>3. CASE <<j, "activate_user">> # <<k, n>>
      <4>1. outcome'[<<j, "activate_user">>] = outcome[<<j, "activate_user">>]
        BY <1>5, <3>1, <3>3 DEF Finish, WorkFails, ThrowError, RunOut, Revive
      <4> QED
        BY <2>2, <4>1
    <3> QED
      BY <3>2, <3>3
  <2> QED
    BY <2>1, <2>2
<1>6. ASSUME NEW k \in Tokens, Reminder(k) PROVE ActivationDecided'
  <2>1. \A j \in Tokens : outcome'[<<j, "activate_user">>] = outcome[<<j, "activate_user">>]
    BY <1>6, NodesAreTasks DEF Reminder, Arrive, ServiceNodes
  <2> QED
    BY <1>6, <2>1 DEF Reminder
<1>7. \/ outcome' = outcome /\ decided' = decided
      \/ \E q \in Request : StartProcess(q) \/ CompleteTask(q) \/ Abort(q)
      \/ \E k \in Tokens : \/ Reminder(k)
                           \/ \E n \in ServiceNodes : Finish(k, n) \/ WorkFails(k, n)
  BY DEF vars, Next, Serve, Disturb, Work, Begin, Write, WriteRefused, StartFails,
         ListTasks, ListFails, CompleteLost, Commit, Handle
<1> QED
  BY <1>1, <1>2, <1>3, <1>4, <1>5, <1>6, <1>7

\* Approvals come from administrators.
LEMMA NextApprovedByAdmin == IInv /\ [Next]_vars => ApprovedByAdmin'
<1> SUFFICES ASSUME IInv, [Next]_vars PROVE ApprovedByAdmin'
  OBVIOUS
<1> USE DEF IInv, TypeOK, ApprovedByAdmin
<1>1. decided \subseteq decided' /\ applied \subseteq applied'
  BY DEF vars, historyVars, processVars, Next, Serve, Disturb, Work, WorkFails, Begin,
         Write, WriteRefused, StartProcess, StartFails, ListTasks, ListFails,
         CompleteTask, Decide, CompleteLost, Commit, Abort, Handle, Finish,
         ThrowError, RunOut, Revive, Reminder
<1>2. ASSUME NEW q \in Request, Commit(q) PROVE ApprovedByAdmin'
  <2>1. kind[q] \in applied'
    BY <1>2 DEF Commit
  <2> QED
    BY <1>1, <1>2, <2>1, CommitRow
<1>3. ASSUME NEW k \in Tokens, NEW n \in ServiceNodes, Handle(k, n) PROVE ApprovedByAdmin'
  <2>1. CASE n = "activate_user"
    <3>1. "approve" \in decided
      BY <1>3, <2>1 DEF Handle, Process!CanRun, ActivationDecided
    <3> QED
      BY <1>1, <3>1
  <2>2. CASE n # "activate_user"
    BY <1>1, <1>3, <2>2 DEF Handle
  <2> QED
    BY <2>1, <2>2
<1> QED
  BY <1>1, <1>2, <1>3, RowSteps

\* A barred account stays inactive.
LEMMA NextBarredInactive == IInv /\ [Next]_vars => BarredInactive'
<1> SUFFICES ASSUME IInv, [Next]_vars, barred' PROVE user'.registered /\ ~user'.active
  BY DEF BarredInactive
<1> USE DEF IInv, TypeOK, BarredInactive
<1>1. ASSUME NEW q \in Request, Commit(q) PROVE user'.registered /\ ~user'.active
  <2>1. user'.registered
    BY <1>1, CommitRow
  <2>2. CASE kind[q] \in {"reject", "deactivate"}
    BY <1>1, <2>1, <2>2, CommitRow
  <2>3. CASE kind[q] \notin {"reject", "deactivate"}
    <3>1. barred /\ kind[q] # "activate"
      BY <1>1, <2>3 DEF Commit
    <3> QED
      BY <1>1, <2>1, <3>1, CommitRow
  <2> QED
    BY <2>2, <2>3
<1>2. ASSUME NEW k \in Tokens, NEW n \in ServiceNodes, Handle(k, n)
      PROVE  user'.registered /\ ~user'.active
  BY <1>2 DEF Handle, historyVars, Users
<1> QED
  BY <1>1, <1>2, RowSteps

\* The id of a running process is not lost.
LEMMA NextProcessIsKnown == IInv /\ [Next]_vars => ProcessIsKnown'
<1> SUFFICES ASSUME IInv, [Next]_vars PROVE ProcessIsKnown'
  OBVIOUS
<1> DEFINE first == <<1, "notify_admins">>
<1> USE DEF IInv, TypeOK, requestVars, processVars, historyVars, Goto, Nobody
<1>0. first \in Tasks /\ (user.registered /\ user.process => user'.registered /\ user'.process)
  BY FirstToken, NodesAreTasks, RowGrows DEF ServiceNodes
<1>1. ASSUME NEW q \in Request, Commit(q) PROVE ProcessIsKnown'
  <2>1. outcome' = outcome /\ rowLock = q
    BY <1>1 DEF Commit, OneWriter
  <2>2. CASE outcome[first] # "none"
    <3>1. (user.registered /\ user.process) \/ kind[q] = "register"
      BY <2>1, <2>2 DEF ProcessIsKnown
    <3>2. user'.registered /\ user'.process
      BY <1>0, <1>1, <2>2, <3>1, CommitRow
    <3> QED
      BY <3>2 DEF ProcessIsKnown
  <2>3. CASE outcome[first] = "none"
    BY <2>1, <2>3 DEF ProcessIsKnown
  <2> QED
    BY <2>2, <2>3
<1>2. ASSUME NEW q \in Request, StartProcess(q) PROVE ProcessIsKnown'
  <2>1. kind'[q] = "register" /\ pc'[q] = "commit" /\ rowLock' = q
    BY <1>2 DEF StartProcess, KindsFit, OneWriter
  <2> QED
    BY <2>1 DEF ProcessIsKnown
<1>3. ASSUME NEW q \in Request, Abort(q) PROVE ProcessIsKnown'
  <2>1. CASE outcome'[first] = "none"
    BY <2>1 DEF ProcessIsKnown
  <2>2. CASE outcome'[first] # "none"
    <3>1. outcome' = outcome /\ ~(kind[q] = "register" /\ rowLock = q)
      BY <1>0, <1>3, <2>2 DEF Abort
    <3>2. CASE user.registered /\ user.process
      BY <1>0, <3>2 DEF ProcessIsKnown
    <3>3. ASSUME NEW p \in Request, kind[p] = "register", pc[p] = "commit", rowLock = p
          PROVE  ProcessIsKnown'
      <4>1. p # q
        BY <3>1, <3>3
      <4>2. kind'[p] = "register" /\ pc'[p] = "commit" /\ rowLock' = p
        BY <1>3, <3>3, <4>1 DEF Abort, Done
      <4> QED
        BY <4>2 DEF ProcessIsKnown
    <3> QED
      BY <2>2, <3>1, <3>2, <3>3 DEF ProcessIsKnown
  <2> QED
    BY <2>1, <2>2
<1>4. ASSUME outcome'[first] # "none" => outcome[first] # "none",
             \A p \in Request : kind[p] = "register" /\ pc[p] = "commit" /\ rowLock = p
                => kind'[p] = "register" /\ pc'[p] = "commit" /\ rowLock' = p
      PROVE  ProcessIsKnown'
  BY <1>0, <1>4 DEF ProcessIsKnown
<1>5. ASSUME NEW q \in Request, NEW k \in Kinds, Begin(q, k) PROVE ProcessIsKnown'
  BY <1>4, <1>5 DEF Begin
<1>6. ASSUME NEW q \in Request, Write(q) \/ WriteRefused(q) PROVE ProcessIsKnown'
  BY <1>4, <1>6 DEF Write, WriteRefused, Done
<1>7. ASSUME NEW q \in Request, StartFails(q) \/ ListTasks(q) \/ ListFails(q) \/ CompleteLost(q)
      PROVE  ProcessIsKnown'
  BY <1>4, <1>7 DEF StartFails, ListTasks, ListFails, CompleteLost
<1>8. ASSUME NEW q \in Request, CompleteTask(q) PROVE ProcessIsKnown'
  <2>1. outcome'[first] = outcome[first]
    <3>1. CASE chosen[q] \in review
      <4>1. PICK n \in {"activate_user", "notify_user_rejected"} :
              outcome' = [outcome EXCEPT ![<<chosen[q], n>>] = "pending"]
        BY <1>8, <3>1 DEF CompleteTask, Decide, Arrive
      <4>2. <<chosen[q], n>> # first
        OBVIOUS
      <4> QED
        BY <1>0, <4>1, <4>2
    <3>2. CASE chosen[q] \notin review
      BY <1>8, <3>2 DEF CompleteTask
    <3> QED
      BY <3>1, <3>2
  <2>2. kind' = kind /\ rowLock' = rowLock /\ pc[q] = "complete" /\ pc' = [pc EXCEPT ![q] = "commit"]
    BY <1>8 DEF CompleteTask
  <2> QED
    BY <1>4, <2>1, <2>2
<1>9. ASSUME NEW k \in Tokens, Reminder(k) PROVE ProcessIsKnown'
  <2>1. outcome'[first] = outcome[first]
    BY <1>0, <1>9 DEF Reminder, Arrive
  <2> QED
    BY <1>4, <1>9, <2>1 DEF Reminder
<1>10. ASSUME NEW k \in Tokens, NEW n \in ServiceNodes, Handle(k, n) PROVE ProcessIsKnown'
  BY <1>4, <1>10 DEF Handle
<1>11. ASSUME NEW k \in Tokens, NEW n \in ServiceNodes, Finish(k, n) \/ WorkFails(k, n)
       PROVE  ProcessIsKnown'
  <2>1. outcome[<<k, n>>] # "none"
    BY <1>11 DEF Finish, WorkFails, ThrowError, RunOut, Revive,
                 Process!CanEnd, Process!Unsettled
  <2>2. outcome'[first] # "none" => outcome[first] # "none"
    BY <1>0, <1>11, <2>1 DEF Finish, WorkFails, ThrowError, RunOut, Revive
  <2> QED
    BY <1>4, <1>11, <2>2 DEF Finish, WorkFails, ThrowError, RunOut, Revive
<1>12. CASE UNCHANGED vars
  BY <1>4, <1>12 DEF vars
<1> QED
  BY <1>1, <1>2, <1>3, <1>5, <1>6, <1>7, <1>8, <1>9, <1>10, <1>11, <1>12
     DEF Next, Serve, Disturb, Work
-----------------------------------------------------------------------------
(***************************************************************************)
(* Where the tokens of the process are.                                    *)
(***************************************************************************)
\* A task that is given an outcome leaves every other task as it is.
OnlyMoves(k, n, v) ==
  /\ outcome'[<<k, n>>] = v
  /\ \A m \in ServiceNodes \ {n} : outcome'[<<k, m>>] = outcome[<<k, m>>]
  /\ \A j \in Tokens \ {k}, m \in ServiceNodes : outcome'[<<j, m>>] = outcome[<<j, m>>]

LEMMA OneOutcome ==
  ASSUME TypeOK, NEW k \in Tokens, NEW n \in ServiceNodes, NEW v,
         outcome' = [outcome EXCEPT ![<<k, n>>] = v]
  PROVE  OnlyMoves(k, n, v)
<1>1. /\ DOMAIN outcome = Tasks
      /\ \A j \in Tokens, m \in ServiceNodes : <<j, m>> \in Tasks
  BY DEF TypeOK, Tasks
<1>2. \A j, m : <<j, m>> = <<k, n>> => j = k /\ m = n
  OBVIOUS
<1> QED
  BY <1>1, <1>2 DEF OnlyMoves

\* The end of an activation is the arrival of the notification behind it.
LEMMA TwoOutcomes ==
  ASSUME TypeOK, NEW k \in Tokens,
         outcome' = [outcome EXCEPT ![<<k, "activate_user">>] = "completed",
                                    ![<<k, "notify_user_approved">>] = "pending"]
  PROVE  /\ outcome'[<<k, "activate_user">>] = "completed"
         /\ outcome'[<<k, "notify_user_approved">>] = "pending"
         /\ outcome'[<<k, "notify_admins">>] = outcome[<<k, "notify_admins">>]
         /\ outcome'[<<k, "send_reminder">>] = outcome[<<k, "send_reminder">>]
         /\ outcome'[<<k, "notify_user_rejected">>] = outcome[<<k, "notify_user_rejected">>]
         /\ \A j \in Tokens \ {k}, m \in ServiceNodes : outcome'[<<j, m>>] = outcome[<<j, m>>]
<1>1. /\ DOMAIN outcome = Tasks
      /\ \A j \in Tokens, m \in ServiceNodes : <<j, m>> \in Tasks
  BY DEF TypeOK, Tasks
<1>2. \A j, m, o : <<j, m>> = <<k, o>> => j = k /\ m = o
  OBVIOUS
<1> QED
  BY <1>1, <1>2 DEF ServiceNodes

\* A registration that has the row finds no process running.
LEMMA StartsOnce ==
  ASSUME IInv, NEW q \in Request, StartProcess(q)
  PROVE  outcome[<<1, "notify_admins">>] = "none"
<1>1. ~user.registered /\ rowLock = q
  BY DEF IInv, StartProcess, KindsFit, RowFits, OneWriter
<1>2. \A p \in Request : rowLock = p /\ pc[p] = "commit" => FALSE
  BY <1>1 DEF StartProcess
<1> QED
  BY <1>1, <1>2 DEF IInv, ProcessIsKnown

\* A token fits as long as its tasks and its review are what they were.
LEMMA TokenStays ==
  ASSUME TokensFit, user.registered => user'.registered, NEW j \in Tokens,
         \A m \in ServiceNodes : outcome'[<<j, m>>] = outcome[<<j, m>>],
         j \in review' <=> j \in review
  PROVE  TokenFits(j)'
<1>1. TokenFits(j)
  BY DEF TokensFit
<1>2. /\ outcome'[<<j, "notify_admins">>] = outcome[<<j, "notify_admins">>]
      /\ outcome'[<<j, "send_reminder">>] = outcome[<<j, "send_reminder">>]
      /\ outcome'[<<j, "activate_user">>] = outcome[<<j, "activate_user">>]
      /\ outcome'[<<j, "notify_user_rejected">>] = outcome[<<j, "notify_user_rejected">>]
      /\ outcome'[<<j, "notify_user_approved">>] = outcome[<<j, "notify_user_approved">>]
  BY DEF ServiceNodes
<1>3. Passed(j)' <=> Passed(j)
  BY <1>2 DEF Passed, Entry
<1> QED
  BY <1>1, <1>2, <1>3 DEF TokenFits

LEMMA TokensStay ==
  ASSUME TokensFit, user.registered => user'.registered, UNCHANGED <<outcome, review>>
  PROVE  TokensFit'
BY TokenStays DEF TokensFit

\* Where one task of token k moves, what is left to show is that k fits.
LEMMA OneTokenMoves ==
  ASSUME TypeOK, TokensFit, user.registered => user'.registered,
         NEW k \in Tokens, NEW n \in ServiceNodes, NEW v,
         outcome' = [outcome EXCEPT ![<<k, n>>] = v],
         \A j \in Tokens \ {k} : j \in review' <=> j \in review,
         TokenFits(k)'
  PROVE  TokensFit'
<1>1. OnlyMoves(k, n, v)
  BY OneOutcome, Zenon
<1>2. \A j \in Tokens \ {k} : TokenFits(j)'
  BY <1>1, TokenStays DEF OnlyMoves
<1> QED
  BY <1>2 DEF TokensFit

\* A task that is still there stays there or ends: what must be over before
\* the token goes on has not gone on.
LEMMA TaskMoves ==
  ASSUME TypeOK, TokensFit, user.registered => user'.registered,
         NEW k \in Tokens, NEW n \in ServiceNodes, NEW v, v # "none",
         outcome[<<k, n>>] \in {"pending", "incident"},
         outcome' = [outcome EXCEPT ![<<k, n>>] = v], UNCHANGED review
  PROVE  TokensFit'
<1>0. OnlyMoves(k, n, v)
  BY OneOutcome, Zenon
<1>1. /\ TokenFits(k)
      /\ outcome'[<<k, n>>] = v
      /\ \A m \in ServiceNodes \ {n} : outcome'[<<k, m>>] = outcome[<<k, m>>]
  BY <1>0 DEF OnlyMoves, TokensFit
<1>2. ASSUME n = "notify_admins" PROVE TokenFits(k)'
  BY <1>1, <1>2 DEF TokenFits, Passed, Entry, ServiceNodes
<1>3. ASSUME n = "send_reminder" PROVE TokenFits(k)'
  BY <1>1, <1>3 DEF TokenFits, Passed, Entry, ServiceNodes
<1>4. ASSUME n = "activate_user" PROVE TokenFits(k)'
  BY <1>1, <1>4 DEF TokenFits, Passed, Entry, ServiceNodes
<1>5. ASSUME n = "notify_user_rejected" PROVE TokenFits(k)'
  BY <1>1, <1>5 DEF TokenFits, Passed, Entry, ServiceNodes
<1>6. ASSUME n = "notify_user_approved" PROVE TokenFits(k)'
  BY <1>1, <1>6 DEF TokenFits, Passed, Entry, ServiceNodes
<1>7. TokenFits(k)'
  BY <1>2, <1>3, <1>4, <1>5, <1>6 DEF ServiceNodes
<1> QED
  BY <1>7, OneTokenMoves

LEMMA NextTokensFit == IInv /\ [Next]_vars => TokensFit'
<1> SUFFICES ASSUME IInv, [Next]_vars PROVE TokensFit'
  OBVIOUS
<1> USE DEF IInv, requestVars, processVars, historyVars
<1>1. user.registered => user'.registered
  BY RowGrows
<1>2. ASSUME NEW q \in Request, StartProcess(q) PROVE TokensFit'
  <2>1. outcome[<<1, "notify_admins">>] = "none" /\ 1 \in Tokens
    BY <1>2, FirstToken, StartsOnce
  <2>2. TokenFits(1)
    BY <2>1 DEF TokensFit
  <2>3. outcome' = [outcome EXCEPT ![<<1, "notify_admins">>] = "pending"] /\ UNCHANGED review
    BY <1>2 DEF StartProcess, Arrive
  <2>4. "notify_admins" \in ServiceNodes
    BY DEF ServiceNodes
  <2>5. OnlyMoves(1, "notify_admins", "pending")
    BY <2>1, <2>3, <2>4, OneOutcome, Zenon
  <2>6. TokenFits(1)'
    BY <2>1, <2>2, <2>3, <2>5 DEF OnlyMoves, TokenFits, Passed, Entry, ServiceNodes
  <2> QED
    BY <1>1, <2>1, <2>3, <2>4, <2>6, OneTokenMoves, Zenon
<1>3. ASSUME NEW q \in Request, CompleteTask(q) PROVE TokensFit'
  <2>1. CASE chosen[q] \in review
    <3>1. PICK k \in Tokens : k = chosen[q]
      BY <2>1 DEF TypeOK
    <3>2. PICK n \in {"activate_user", "notify_user_rejected"} :
            outcome' = [outcome EXCEPT ![<<k, n>>] = "pending"]
      BY <1>3, <2>1, <3>1 DEF CompleteTask, Decide, Arrive
    <3>3. review' = review \ {k} /\ user' = user /\ k \in review
      BY <1>3, <2>1, <3>1 DEF CompleteTask, Decide
    <3>4. user.registered
      BY <1>3 DEF CompleteTask, KindsFit, RowFits
    <3>5. TokenFits(k)
      BY DEF TokensFit
    <3>6. n \in ServiceNodes /\ \A j \in Tokens \ {k} : j \in review' <=> j \in review
      BY <3>3 DEF ServiceNodes
    <3>10. OnlyMoves(k, n, "pending")
      BY <3>2, <3>6, OneOutcome, Zenon
    <3>7. ASSUME n = "activate_user" PROVE TokenFits(k)'
      BY <3>3, <3>4, <3>5, <3>10, <3>7 DEF OnlyMoves, TokenFits, Passed, Entry, ServiceNodes
    <3>8. ASSUME n = "notify_user_rejected" PROVE TokenFits(k)'
      BY <3>3, <3>4, <3>5, <3>10, <3>8 DEF OnlyMoves, TokenFits, Passed, Entry, ServiceNodes
    <3>9. TokenFits(k)'
      BY <3>7, <3>8
    <3> QED
      BY <1>1, <3>2, <3>6, <3>9, OneTokenMoves, Zenon
  <2>2. CASE chosen[q] \notin review
    BY <1>1, <1>3, <2>2, TokensStay DEF CompleteTask
  <2> QED
    BY <2>1, <2>2
<1>4. ASSUME NEW q \in Request, Abort(q) PROVE TokensFit'
  <2>1. CASE UNCHANGED <<outcome, review>>
    BY <1>1, <2>1, TokensStay
  <2>2. CASE outcome' = [t \in Tasks |-> "none"] /\ review' = {}
    <3>1. \A j \in Tokens, m \in ServiceNodes : outcome'[<<j, m>>] = "none"
      BY <2>2, NodesAreTasks
    <3> QED
      BY <2>2, <3>1 DEF TokensFit, TokenFits, ServiceNodes
  <2> QED
    BY <1>4, <2>1, <2>2 DEF Abort
<1>5. ASSUME NEW k \in Tokens, Reminder(k) PROVE TokensFit'
  <2>1. PICK j \in Tokens : j = k + 1
    BY <1>5 DEF Reminder
  <2>2. j # 1 /\ outcome[<<j, "send_reminder">>] = "none" /\ TokenFits(j)
    BY <1>5, <2>1 DEF Reminder, Tokens, TokensFit
  <2>3. /\ outcome' = [outcome EXCEPT ![<<j, "send_reminder">>] = "pending"]
        /\ UNCHANGED review
    BY <1>5, <2>1 DEF Reminder, Arrive
  <2>4. "send_reminder" \in ServiceNodes
    BY DEF ServiceNodes
  <2>5. OnlyMoves(j, "send_reminder", "pending")
    BY <2>3, <2>4, OneOutcome, Zenon
  <2>6. TokenFits(j)'
    BY <2>2, <2>3, <2>5 DEF OnlyMoves, TokenFits, Passed, Entry, ServiceNodes
  <2> QED
    BY <1>1, <2>3, <2>4, <2>6, OneTokenMoves, Zenon
<1>6. ASSUME NEW k \in Tokens, NEW n \in ServiceNodes, Finish(k, n) PROVE TokensFit'
  <2>1. outcome[<<k, n>>] \in {"pending", "incident"} /\ user' = user /\ TokenFits(k)
    BY <1>6 DEF Finish, Process!CanEnd, Process!Unsettled, TokensFit
  <2>2. CASE n = "activate_user"
    <3>1. outcome' = [outcome EXCEPT ![<<k, "activate_user">>] = "completed",
                                     ![<<k, "notify_user_approved">>] = "pending"]
          /\ review' = review
      BY <1>6, <2>2 DEF Finish
    <3>2. /\ outcome'[<<k, "activate_user">>] = "completed"
          /\ outcome'[<<k, "notify_user_approved">>] = "pending"
          /\ outcome'[<<k, "notify_admins">>] = outcome[<<k, "notify_admins">>]
          /\ outcome'[<<k, "send_reminder">>] = outcome[<<k, "send_reminder">>]
          /\ outcome'[<<k, "notify_user_rejected">>] = outcome[<<k, "notify_user_rejected">>]
          /\ \A j \in Tokens \ {k}, m \in ServiceNodes : outcome'[<<j, m>>] = outcome[<<j, m>>]
      BY <3>1, TwoOutcomes, Zenon
    <3>3. TokenFits(k)'
      BY <2>1, <2>2, <3>1, <3>2 DEF TokenFits, Passed, Entry
    <3>4. \A j \in Tokens \ {k} : TokenFits(j)'
      BY <1>1, <3>1, <3>2, TokenStays
    <3> QED
      BY <3>3, <3>4 DEF TokensFit
  <2>3. CASE n \in {"notify_user_rejected", "notify_user_approved"}
    <3>1. outcome' = [outcome EXCEPT ![<<k, n>>] = "completed"] /\ review' = review
      BY <1>6, <2>3 DEF Finish
    <3> QED
      BY <1>1, <2>1, <3>1, TaskMoves
  <2>4. CASE n \in {"notify_admins", "send_reminder"}
    <3>1. outcome' = [outcome EXCEPT ![<<k, n>>] = "completed"] /\ review' = review \cup {k}
      BY <1>6, <2>4 DEF Finish
    <3>2. n = Entry(k) /\ ~Passed(k)
      BY <2>1, <2>4 DEF TokenFits, Entry, Passed
    <3>3. OnlyMoves(k, n, "completed")
      BY <3>1, OneOutcome, Zenon
    <3>4. Passed(k)'
      BY <3>2, <3>3 DEF OnlyMoves, Passed, Entry
    <3>5. ASSUME n = "notify_admins" PROVE TokenFits(k)'
      BY <2>1, <3>1, <3>2, <3>3, <3>4, <3>5 DEF OnlyMoves, TokenFits, Entry, ServiceNodes
    <3>6. ASSUME n = "send_reminder" PROVE TokenFits(k)'
      BY <2>1, <3>1, <3>2, <3>3, <3>4, <3>6 DEF OnlyMoves, TokenFits, Entry, ServiceNodes
    <3>7. TokenFits(k)'
      BY <2>4, <3>5, <3>6
    <3> QED
      BY <1>1, <3>1, <3>7, OneTokenMoves
  <2> QED
    BY <2>2, <2>3, <2>4 DEF ServiceNodes
<1>7. ASSUME NEW k \in Tokens, NEW n \in ServiceNodes, WorkFails(k, n) PROVE TokensFit'
  <2>1. PICK v \in {"error", "incident", "pending"} : outcome' = [outcome EXCEPT ![<<k, n>>] = v]
    BY <1>7 DEF WorkFails, ThrowError, RunOut, Revive
  <2>2. outcome[<<k, n>>] \in {"pending", "incident"} /\ UNCHANGED review
    BY <1>7 DEF WorkFails, ThrowError, RunOut, Revive, Process!CanEnd, Process!Unsettled
  <2> QED
    BY <1>1, <2>1, <2>2, TaskMoves
<1>8. \/ UNCHANGED <<outcome, review>>
      \/ \E q \in Request : StartProcess(q) \/ CompleteTask(q) \/ Abort(q)
      \/ \E k \in Tokens : \/ Reminder(k)
                           \/ \E n \in ServiceNodes : Finish(k, n) \/ WorkFails(k, n)
  BY DEF vars, Next, Serve, Disturb, Work, Begin, Write, WriteRefused, StartFails,
         ListTasks, ListFails, CompleteLost, Commit, Handle
<1> QED
  BY <1>1, <1>2, <1>3, <1>4, <1>5, <1>6, <1>7, <1>8, TokensStay

\* Only the transaction that has the row takes a review away, so what a
\* request has found stays; the tokens' places keep the two decisions apart.
LEMMA NextDecidedOnce == IInv /\ TokensFit' /\ [Next]_vars => DecidedOnce'
<1> SUFFICES ASSUME IInv, TokensFit', [Next]_vars PROVE DecidedOnce'
  OBVIOUS
<1> USE DEF IInv, TypeOK, requestVars, processVars, historyVars, Goto
<1> DEFINE Found(q) == pc[q] = "complete" => chosen[q] \in review
<1>0. \A q \in Request : Found(q)
  BY DEF DecidedOnce
<1>1. \A k \in Tokens : \/ outcome'[<<k, "activate_user">>] = "none"
                        \/ outcome'[<<k, "notify_user_rejected">>] = "none"
  BY DEF TokensFit, TokenFits
<1>2. ASSUME NEW q \in Request, NEW k \in Kinds, Begin(q, k) PROVE \A p \in Request : Found(p)'
  BY <1>0, <1>2 DEF Begin
<1>3. ASSUME NEW q \in Request, Write(q) PROVE \A p \in Request : Found(p)'
  <2>1. AfterWrite(kind[q]) # "complete"
    BY DEF AfterWrite
  <2> QED
    BY <1>0, <1>3, <2>1 DEF Write
<1>4. ASSUME NEW q \in Request, WriteRefused(q) \/ Commit(q) PROVE \A p \in Request : Found(p)'
  BY <1>0, <1>4 DEF WriteRefused, Commit, Done
<1>5. ASSUME NEW q \in Request, StartProcess(q) \/ StartFails(q) PROVE \A p \in Request : Found(p)'
  BY <1>0, <1>5 DEF StartProcess, StartFails
<1>6. ASSUME NEW q \in Request, ListTasks(q) \/ ListFails(q) PROVE \A p \in Request : Found(p)'
  BY <1>0, <1>6 DEF ListTasks, ListFails
<1>7. ASSUME NEW q \in Request, CompleteTask(q) \/ CompleteLost(q)
      PROVE  \A p \in Request : Found(p)'
  <2>1. pc'[q] # "complete"
    BY <1>7 DEF CompleteTask, CompleteLost
  <2>2. \A p \in Request \ {q} : pc'[p] # "complete"
    BY <1>7 DEF CompleteTask, CompleteLost, OneWriter
  <2> QED
    BY <2>1, <2>2
<1>8. ASSUME NEW q \in Request, Abort(q) PROVE \A p \in Request : Found(p)'
  <2>1. ASSUME NEW p \in Request, pc'[p] = "complete" PROVE chosen'[p] \in review'
    <3>1. p # q /\ pc[p] = "complete" /\ chosen'[p] = chosen[p] /\ rowLock = p
      BY <1>8, <2>1 DEF Abort, Done, OneWriter
    <3>2. review' = review
      BY <1>8, <3>1 DEF Abort
    <3> QED
      BY <1>0, <3>1, <3>2
  <2> QED
    BY <2>1
<1>9. ASSUME NEW k \in Tokens, NEW n \in ServiceNodes, Work(k, n) \/ WorkFails(k, n)
      PROVE  \A p \in Request : Found(p)'
  BY <1>0, <1>9 DEF Work, Handle, Finish, WorkFails, ThrowError, RunOut, Revive
<1>10. ASSUME NEW k \in Tokens, Reminder(k) PROVE \A p \in Request : Found(p)'
  BY <1>0, <1>10 DEF Reminder
<1>11. ASSUME UNCHANGED vars PROVE \A p \in Request : Found(p)'
  BY <1>0, <1>11 DEF vars
<1>12. \A p \in Request : Found(p)'
  BY <1>2, <1>3, <1>4, <1>5, <1>6, <1>7, <1>8, <1>9, <1>10, <1>11 DEF Next, Serve, Disturb
<1> QED
  BY <1>1, <1>12 DEF DecidedOnce

\* An activation that has run has approved the account, and no transaction
\* takes that back.
LEMMA NextActivationsLand == IInv /\ [Next]_vars => ActivationsLand'
<1> SUFFICES ASSUME IInv, [Next]_vars PROVE ActivationsLand'
  OBVIOUS
<1> USE DEF IInv, ActivationsLand, requestVars, processVars, historyVars
<1>1. user.approved => user'.approved
  BY RowGrows
<1>2. CASE effect' \subseteq effect
  BY <1>1, <1>2
<1>3. ASSUME NEW k \in Tokens, NEW n \in ServiceNodes, Handle(k, n) PROVE ActivationsLand'
  <2>1. effect' = effect \cup {<<k, n>>} /\ outcome[<<k, n>>] # "none"
    BY <1>3 DEF Handle, Process!CanRun
  <2>2. CASE n = "activate_user"
    <3>1. user.registered
      BY <2>1, <2>2 DEF TokensFit, TokenFits
    <3>2. user'.approved
      BY <1>3, <2>2, <3>1 DEF Handle, TypeOK, Users
    <3> QED
      BY <3>2
  <2>3. CASE n # "activate_user"
    BY <1>1, <2>1, <2>3
  <2> QED
    BY <2>2, <2>3
<1>4. effect' \subseteq effect \/ \E k \in Tokens, n \in ServiceNodes : Handle(k, n)
  BY DEF vars, Next, Serve, Disturb, Work, WorkFails, Begin, Write, WriteRefused,
         StartProcess, StartFails, ListTasks, ListFails, CompleteTask, Decide,
         CompleteLost, Commit, Abort, Finish, ThrowError, RunOut, Revive, Reminder
<1> QED
  BY <1>2, <1>3, <1>4
-----------------------------------------------------------------------------
LEMMA InvIInv == Spec => []IInv
<1>1. IInv /\ [Next]_vars => IInv'
  BY NextTypeOK, NextOneWriter, NextKindsFit, NextRowFits, NextActivationDecided,
     NextApprovedByAdmin, NextBarredInactive, NextProcessIsKnown, NextTokensFit,
     NextDecidedOnce, NextActivationsLand DEF IInv
<1> QED
  BY InitIInv, <1>1, PTL DEF Spec

\* Type correctness of the row, the requests and the process.
THEOREM ApprovalTypes == Spec => []TypeOK
<1>1. IInv => TypeOK
  BY DEF IInv
<1> QED
  BY InvIInv, <1>1, PTL

\* Nobody is approved but by an administrator's request or decision.
THEOREM ApprovalsAreByAdmins == Spec => []ApprovedByAdmin
<1>1. IInv => ApprovedByAdmin
  BY DEF IInv
<1> QED
  BY InvIInv, <1>1, PTL

\* A rejected or deactivated user stays out until it is activated.
THEOREM BarredUsersStayOut == Spec => []BarredStaysOut
<1>1. IInv => BarredStaysOut
  BY DEF IInv, BarredInactive, BarredStaysOut, CanLogin
<1> QED
  BY InvIInv, <1>1, PTL

\* A review is decided once, by the request that has found it.
THEOREM ReviewsAreDecidedOnce == Spec => []DecidedOnce
<1>1. IInv => DecidedOnce
  BY DEF IInv
<1> QED
  BY InvIInv, <1>1, PTL

\* The row of a process whose activation has run is approved.
THEOREM ActivationsReachTheRow == Spec => []ActivationsLand
<1>1. IInv => ActivationsLand
  BY DEF IInv
<1> QED
  BY InvIInv, <1>1, PTL

\* The process a request may have to complete is the one the row names.
THEOREM ProcessesAreKnown == Spec => []ProcessIsKnown
<1>1. IInv => ProcessIsKnown
  BY DEF IInv
<1> QED
  BY InvIInv, <1>1, PTL

\* What a registration and an approval have committed is final.
THEOREM ApprovalsAreFinal == Spec => ApprovalIsFinal
<1>1. IInv /\ [Next]_vars => [/\ user.registered => user'.registered
                              /\ user.approved => user'.approved
                              /\ user.process => user'.process]_vars
  BY RowGrows
<1> QED
  BY InvIInv, <1>1, PTL DEF Spec, ApprovalIsFinal
-----------------------------------------------------------------------------
(***************************************************************************)
(* The process takes no step but those of TaskOutcome, until an aborted    *)
(* registration abandons it.                                               *)
(***************************************************************************)
\* One task of the process moves the way TaskOutcome lets it.
LEMMA TaskPromise ==
  ASSUME TypeOK, TypeOK', NEW t \in Tasks, NEW v,
         outcome' = [outcome EXCEPT ![t] = v], UNCHANGED effect,
         \/ outcome[t] = "none" /\ v = "pending"
         \/ Process!CanEnd(t) /\ v \in {"completed", "error"}
         \/ Process!Unsettled(t) /\ v \in {"pending", "incident"}
  PROVE  Process!TaskNext
<1>1. outcome'[t] = v /\ \A u \in Tasks \ {t} : outcome'[u] = outcome[u]
  BY DEF TypeOK
<1>2. Process!TaskStep(t)
  BY <1>1 DEF Process!TaskStep, Process!Unsettled
<1>3. \A u \in Tasks : Process!TaskStep(u)
  BY <1>1, <1>2 DEF Process!TaskStep
<1>4. outcome' \in [Tasks -> Process!Outcomes]
  BY DEF TypeOK
<1> QED
  BY <1>3, <1>4 DEF Process!TaskNext

LEMMA NextPromise ==
  ASSUME IInv, IInv', [Next]_vars
  PROVE  Process!TaskNext \/ Abandoned \/ UNCHANGED <<outcome, effect>>
<1> DEFINE Kept == Process!TaskNext \/ Abandoned \/ UNCHANGED <<outcome, effect>>
<1> SUFFICES Kept
  OBVIOUS
<1> USE DEF requestVars, processVars, historyVars
<1>0. TypeOK /\ TypeOK' /\ TokensFit
  BY DEF IInv
<1>1. ASSUME NEW q \in Request, StartProcess(q) PROVE Kept
  <2>1. outcome[<<1, "notify_admins">>] = "none" /\ <<1, "notify_admins">> \in Tasks
    BY <1>1, StartsOnce, FirstToken, NodesAreTasks DEF ServiceNodes
  <2>2. /\ outcome' = [outcome EXCEPT ![<<1, "notify_admins">>] = "pending"]
        /\ UNCHANGED effect
    BY <1>1 DEF StartProcess, Arrive
  <2> QED
    BY <1>0, <2>1, <2>2, TaskPromise, Zenon
<1>2. ASSUME NEW q \in Request, CompleteTask(q) PROVE Kept
  <2>1. CASE chosen[q] \in review
    <3>1. PICK k \in Tokens : k = chosen[q]
      BY <1>0, <2>1 DEF TypeOK
    <3>2. PICK n \in {"activate_user", "notify_user_rejected"} :
            outcome' = [outcome EXCEPT ![<<k, n>>] = "pending"]
      BY <1>2, <2>1, <3>1 DEF CompleteTask, Decide, Arrive
    <3>3. effect' = effect /\ TokenFits(k)
      BY <1>0, <1>2, <2>1 DEF CompleteTask, Decide, TokensFit
    <3>4. outcome[<<k, n>>] = "none"
      BY <2>1, <3>1, <3>3 DEF TokenFits
    <3>5. <<k, n>> \in Tasks
      BY NodesAreTasks DEF ServiceNodes
    <3> QED
      BY <1>0, <3>2, <3>3, <3>4, <3>5, TaskPromise, Zenon
  <2>2. CASE chosen[q] \notin review
    BY <1>2, <2>2 DEF CompleteTask
  <2> QED
    BY <2>1, <2>2
<1>3. ASSUME NEW q \in Request, Abort(q) PROVE Kept
  <2>1. CASE UNCHANGED processVars
    BY <2>1
  <2>2. CASE ~UNCHANGED processVars
    <3>1. /\ kind[q] = "register" /\ rowLock = q
          /\ orphan' /\ effect' = {} /\ outcome' = [t \in Tasks |-> "none"]
      BY <1>3, <2>2 DEF Abort
    <3>2. ~user.registered
      BY <3>1 DEF IInv, OneWriter, KindsFit, RowFits
    <3> QED
      BY <3>1, <3>2 DEF Abandoned
  <2> QED
    BY <2>1, <2>2
<1>4. ASSUME NEW k \in Tokens, Reminder(k) PROVE Kept
  <2>1. PICK j \in Tokens : j = k + 1
    BY <1>4 DEF Reminder
  <2>2. /\ outcome[<<j, "send_reminder">>] = "none"
        /\ outcome' = [outcome EXCEPT ![<<j, "send_reminder">>] = "pending"]
        /\ UNCHANGED effect
    BY <1>4, <2>1 DEF Reminder, Arrive
  <2>3. <<j, "send_reminder">> \in Tasks
    BY NodesAreTasks DEF ServiceNodes
  <2> QED
    BY <1>0, <2>2, <2>3, TaskPromise, Zenon
<1>5. ASSUME NEW k \in Tokens, NEW n \in ServiceNodes, Handle(k, n) PROVE Kept
  <2>1. /\ outcome' = outcome /\ effect' = effect \cup {<<k, n>>}
        /\ Process!CanRun(<<k, n>>) /\ <<k, n>> \in Tasks
    BY <1>5, NodesAreTasks DEF Handle
  <2>2. outcome' \in [Tasks -> Process!Outcomes]
    BY <1>0 DEF TypeOK
  <2> QED
    BY <2>1, <2>2 DEF Process!TaskNext, Process!TaskStep
<1>6. ASSUME NEW k \in Tokens, NEW n \in ServiceNodes, Finish(k, n) PROVE Kept
  <2>1. effect' = effect /\ Process!CanEnd(<<k, n>>) /\ <<k, n>> \in Tasks
    BY <1>6, NodesAreTasks DEF Finish
  <2>2. CASE n # "activate_user"
    <3>1. outcome' = [outcome EXCEPT ![<<k, n>>] = "completed"]
      BY <1>6, <2>2 DEF Finish
    <3> QED
      BY <1>0, <2>1, <3>1, TaskPromise, Zenon
  <2>3. CASE n = "activate_user"
    <3> DEFINE a == <<k, "activate_user">>
               b == <<k, "notify_user_approved">>
    <3>1. outcome' = [outcome EXCEPT ![a] = "completed", ![b] = "pending"]
      BY <1>6, <2>3 DEF Finish
    <3>2. a \in Tasks /\ b \in Tasks /\ a # b
      BY NodesAreTasks DEF ServiceNodes
    <3>3. outcome[a] # "completed" /\ TokenFits(k)
      BY <1>0, <2>1, <2>3 DEF Process!CanEnd, Process!Unsettled, TokensFit
    <3>4. outcome[b] = "none"
      BY <3>3 DEF TokenFits
    <3>5. /\ outcome'[a] = "completed" /\ outcome'[b] = "pending"
          /\ \A u \in Tasks \ {a, b} : outcome'[u] = outcome[u]
      <4> HIDE DEF a, b
      <4> QED
        BY <1>0, <3>1, <3>2 DEF TypeOK
    <3>6. Process!TaskStep(a) /\ Process!TaskStep(b)
      BY <2>1, <2>3, <3>4, <3>5 DEF Process!TaskStep
    <3>7. \A u \in Tasks : Process!TaskStep(u)
      BY <3>5, <3>6 DEF Process!TaskStep
    <3>8. outcome' \in [Tasks -> Process!Outcomes]
      BY <1>0 DEF TypeOK
    <3> QED
      BY <2>1, <3>7, <3>8 DEF Process!TaskNext
  <2> QED
    BY <2>2, <2>3
<1>7. ASSUME NEW k \in Tokens, NEW n \in ServiceNodes, WorkFails(k, n) PROVE Kept
  <2>1. <<k, n>> \in Tasks /\ UNCHANGED effect
    BY <1>7, NodesAreTasks DEF WorkFails, ThrowError, RunOut, Revive
  <2>2. PICK v \in {"error", "pending", "incident"} :
          /\ outcome' = [outcome EXCEPT ![<<k, n>>] = v]
          /\ \/ Process!CanEnd(<<k, n>>) /\ v = "error"
             \/ Process!Unsettled(<<k, n>>) /\ v \in {"pending", "incident"}
    BY <1>7 DEF WorkFails, ThrowError, RunOut, Revive, Process!Unsettled
  <2> QED
    BY <1>0, <2>1, <2>2, TaskPromise
<1>8. \/ UNCHANGED <<outcome, effect>>
      \/ \E q \in Request : StartProcess(q) \/ CompleteTask(q) \/ Abort(q)
      \/ \E k \in Tokens :
           \/ Reminder(k)
           \/ \E n \in ServiceNodes : Handle(k, n) \/ Finish(k, n) \/ WorkFails(k, n)
  BY DEF vars, Next, Serve, Disturb, Work, Begin, Write, WriteRefused, StartFails,
         ListTasks, ListFails, CompleteLost, Commit
<1> QED
  BY <1>1, <1>2, <1>3, <1>4, <1>5, <1>6, <1>7, <1>8

\* Requests, reminders and handlers drive the process by steps that the worker
\* is known to carry out (ExternalTask's theorem Implements).
THEOREM ProcessFollowsTheWorker == Spec => ProcessFollowsPromise
<1>1. IInv /\ IInv' /\ [Next]_vars =>
        [Process!TaskNext \/ Abandoned]_<<outcome, effect>>
  BY NextPromise
<1> QED
  BY InvIInv, <1>1, PTL DEF Spec, ProcessFollowsPromise

=============================================================================
