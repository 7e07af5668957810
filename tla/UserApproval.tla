---------------------------- MODULE UserApproval ----------------------------
(***************************************************************************)
(* The registration of a user and its approval by an administrator: the    *)
(* HTTP handlers of modules/auth/api/routes.py with UserApprovalWorkflow-  *)
(* Service, the user_approval process of user_approval.bpmn, and the       *)
(* handlers of its service tasks in camunda/workers/user_approval.py.      *)
(*                                                                         *)
(* An account is one row of tenant_users.  A request is one transaction,   *)
(* committed after its handler (get_db_session): its UPDATE takes the row  *)
(* lock and is seen by others at the commit only, while the calls to       *)
(* Camunda made in between take effect at once.  The process engine is     *)
(* external; its service tasks do what TaskOutcome promises.               *)
(*                                                                         *)
(* Accounts share nothing but code, so one account is modelled.            *)
(***************************************************************************)
EXTENDS Integers

CONSTANTS Request,    \* requests that may be in progress at a time
          MaxTokens,  \* bound: tokens of the process, one more per reminder
          MaxFaults   \* bound: aborted transactions and failed calls

ASSUME BoundsAssumption == MaxTokens \in Nat \ {0} /\ MaxFaults \in Nat
ASSUME RequestAssumption == "nobody" \notin Request

Tokens == 1..MaxTokens
ServiceNodes == {"notify_admins", "activate_user", "notify_user_approved",
                 "notify_user_rejected", "send_reminder"}
Tasks == Tokens \X ServiceNodes

VARIABLES user,      \* the committed row
          rowLock,   \* the request whose transaction has written the row
          pc,        \* where each request is in its handler
          kind,      \* what it asks for
          chosen,    \* the admin_review task it is about to complete
          outcome,   \* what has become of each service task of the process
          effect,    \* the service tasks whose handler has returned
          review,    \* the tokens waiting at admin_review
          decided,   \* history: the decisions the process has been given
          applied,   \* history: the kinds of requests committed
          barred,    \* history: rejected or deactivated, not activated since
          orphan,    \* history: a process was started for a row never committed
          faults     \* bound: the faults so far

requestVars == <<rowLock, pc, kind, chosen>>
processVars == <<outcome, effect, review, decided>>
historyVars == <<applied, barred, orphan>>
vars == <<user, requestVars, processVars, historyVars, faults>>

Process == INSTANCE TaskOutcome WITH Task <- Tasks
-----------------------------------------------------------------------------
Kinds == {"register", "create", "approve", "reject", "activate", "deactivate"}
Places == {"idle", "write", "start", "list", "complete", "commit"}
Nobody == "nobody"
NoToken == 0

Users == [registered : BOOLEAN, approved : BOOLEAN, active : BOOLEAN, process : BOOLEAN]

TypeOK == /\ user \in Users
          /\ rowLock \in Request \cup {Nobody}
          /\ pc \in [Request -> Places]
          /\ kind \in [Request -> Kinds \cup {"none"}]
          /\ chosen \in [Request -> Tokens \cup {NoToken}]
          /\ outcome \in [Tasks -> Process!Outcomes]
          /\ effect \subseteq Tasks
          /\ review \subseteq Tokens
          /\ decided \subseteq {"approve", "reject"}
          /\ applied \subseteq Kinds
          /\ barred \in BOOLEAN
          /\ orphan \in BOOLEAN
          /\ faults \in 0..MaxFaults

Init == /\ user = [registered |-> FALSE, approved |-> FALSE,
                   active |-> FALSE, process |-> FALSE]
        /\ rowLock = Nobody
        /\ pc = [q \in Request |-> "idle"]
        /\ kind = [q \in Request |-> "none"]
        /\ chosen = [q \in Request |-> NoToken]
        /\ Process!TaskInit
        /\ review = {}
        /\ decided = {}
        /\ applied = {}
        /\ barred = FALSE
        /\ orphan = FALSE
        /\ faults = 0

Fault == faults < MaxFaults /\ faults' = faults + 1

\* login: what both of its checks let through.
CanLogin == user.registered /\ user.active /\ user.approved
-----------------------------------------------------------------------------
(***************************************************************************)
(* Requests.                                                               *)
(***************************************************************************)
\* The checks a handler makes on the committed row before it writes; where
\* they fail, the request ends with an HTTP error and has changed nothing.
Admits(k) == CASE k \in {"register", "create"} -> ~user.registered
               [] k = "approve" -> user.registered /\ ~user.approved
               [] OTHER -> user.registered

Goto(q, place) == pc' = [pc EXCEPT ![q] = place]

Done(q) == /\ Goto(q, "idle")
           /\ kind' = [kind EXCEPT ![q] = "none"]
           /\ chosen' = [chosen EXCEPT ![q] = NoToken]

Begin(q, k) == /\ pc[q] = "idle"
               /\ Admits(k)
               /\ Goto(q, "write")
               /\ kind' = [kind EXCEPT ![q] = k]
               /\ UNCHANGED <<user, rowLock, chosen, processVars, historyVars, faults>>

\* The INSERT or UPDATE waits for the row (or the unique username) held by
\* another transaction.  The process id is read in the same transaction.
AfterWrite(k) == IF k = "register" THEN "start"
                 ELSE IF k \in {"approve", "reject"} /\ user.process THEN "list"
                 ELSE "commit"

\* Faulty: a second registration is not refused.
WriteUnchecked(q) == /\ pc[q] = "write"
                     /\ rowLock = Nobody
                     /\ rowLock' = q
                     /\ Goto(q, AfterWrite(kind[q]))
                     /\ UNCHANGED <<user, kind, chosen, processVars, historyVars, faults>>

\* Faulty: a write does not wait for the transaction that has the row.
WriteNoWait(q) == /\ pc[q] = "write"
                  /\ ~(kind[q] \in {"register", "create"} /\ user.registered)
                  /\ rowLock' = q
                  /\ Goto(q, AfterWrite(kind[q]))
                  /\ UNCHANGED <<user, kind, chosen, processVars, historyVars, faults>>

Write(q) == /\ pc[q] = "write"
            /\ rowLock = Nobody
            /\ ~(kind[q] \in {"register", "create"} /\ user.registered)
            /\ rowLock' = q
            /\ Goto(q, AfterWrite(kind[q]))
            /\ UNCHANGED <<user, kind, chosen, processVars, historyVars, faults>>

\* The other registration has committed: the unique username is taken.
WriteRefused(q) == /\ pc[q] = "write"
                   /\ rowLock = Nobody
                   /\ kind[q] \in {"register", "create"} /\ user.registered
                   /\ Done(q)
                   /\ UNCHANGED <<user, rowLock, processVars, historyVars, faults>>

Arrive(t) == outcome' = [outcome EXCEPT ![t] = "pending"]

\* on_user_registered starts the process, which runs ahead of the commit.
StartProcess(q) == /\ pc[q] = "start"
                   /\ Arrive(<<1, "notify_admins">>)
                   /\ Goto(q, "commit")
                   /\ UNCHANGED <<user, rowLock, kind, chosen, effect, review,
                                  decided, historyVars, faults>>

\* The call fails and the registration goes on without a process.  If only
\* the answer was lost the engine has one, whose id is stored nowhere: no
\* request can complete its review and it is not followed any further.
StartFails(q) == /\ pc[q] = "start"
                 /\ Fault
                 /\ orphan' \in {orphan, TRUE}
                 /\ Goto(q, "commit")
                 /\ UNCHANGED <<user, rowLock, kind, chosen, processVars,
                                applied, barred>>

\* list_tasks: the first admin_review task of an answer in no stated order.
ListTasks(q) == /\ pc[q] = "list"
                /\ \/ \E k \in review : /\ chosen' = [chosen EXCEPT ![q] = k]
                                        /\ Goto(q, "complete")
                   \/ /\ review = {}
                      /\ Goto(q, "commit")
                      /\ UNCHANGED chosen
                /\ UNCHANGED <<user, rowLock, kind, processVars, historyVars, faults>>

ListFails(q) == /\ pc[q] = "list"
                /\ Fault
                /\ Goto(q, "commit")
                /\ UNCHANGED <<user, rowLock, kind, chosen, processVars, historyVars>>

\* Faulty: both branches of the gateway lead to the activation.
DecideOneWay(k, decision) ==
  /\ review' = review \ {k}
  /\ decided' = decided \cup {decision}
  /\ Arrive(<<k, "activate_user">>)
  /\ UNCHANGED effect

\* Faulty: the decision is stored under a name the process does not know.
DecideMisnamed(k, decision) ==
  /\ review' = review \ {k}
  /\ decided' = decided \cup {IF decision = "reject" THEN "rejected" ELSE decision}
  /\ Arrive(<<k, IF decision = "approve" THEN "activate_user"
                                         ELSE "notify_user_rejected">>)
  /\ UNCHANGED effect

\* The gateway gw_decision, taken in the engine's own transaction.
Decide(k, decision) ==
  /\ review' = review \ {k}
  /\ decided' = decided \cup {decision}
  /\ Arrive(<<k, IF decision = "approve" THEN "activate_user"
                                         ELSE "notify_user_rejected">>)
  /\ UNCHANGED effect

\* Completing a task that is gone raises, which the service swallows.
CompleteTask(q) == /\ pc[q] = "complete"
                   /\ IF chosen[q] \in review THEN Decide(chosen[q], kind[q])
                                              ELSE UNCHANGED processVars
                   /\ Goto(q, "commit")
                   /\ chosen' = [chosen EXCEPT ![q] = NoToken]
                   /\ UNCHANGED <<user, rowLock, kind, historyVars, faults>>

\* The request is lost; a lost answer is a CompleteTask like any other.
CompleteLost(q) == /\ pc[q] = "complete"
                   /\ Fault
                   /\ Goto(q, "commit")
                   /\ chosen' = [chosen EXCEPT ![q] = NoToken]
                   /\ UNCHANGED <<user, rowLock, kind, processVars, historyVars>>
-----------------------------------------------------------------------------
\* Faulty: an approval also activates the account.
WrittenActive(k) ==
  CASE k = "register" -> [registered |-> TRUE, approved |-> FALSE, active |-> TRUE,
                          process |-> outcome[<<1, "notify_admins">>] # "none"]
    [] k = "create" -> [registered |-> TRUE, approved |-> TRUE, active |-> TRUE,
                        process |-> FALSE]
    [] k = "approve" -> [user EXCEPT !.approved = TRUE, !.active = TRUE]
    [] k \in {"reject", "deactivate"} -> [user EXCEPT !.active = FALSE]
    [] k = "activate" -> [user EXCEPT !.active = TRUE]

\* Faulty: a rejection takes an approval back.
WrittenUnapproved(k) ==
  IF k = "reject" THEN [user EXCEPT !.active = FALSE, !.approved = FALSE]
                  ELSE WrittenActive(k)

\* What the transaction makes of the row.
Written(k) ==
  CASE k = "register" -> [registered |-> TRUE, approved |-> FALSE, active |-> TRUE,
                          process |-> outcome[<<1, "notify_admins">>] # "none"]
    [] k = "create" -> [registered |-> TRUE, approved |-> TRUE, active |-> TRUE,
                        process |-> FALSE]
    [] k = "approve" -> [user EXCEPT !.approved = TRUE]
    [] k \in {"reject", "deactivate"} -> [user EXCEPT !.active = FALSE]
    [] k = "activate" -> [user EXCEPT !.active = TRUE]

Commit(q) == /\ pc[q] = "commit"
             /\ user' = Written(kind[q])
             /\ rowLock' = Nobody
             /\ Done(q)
             /\ applied' = applied \cup {kind[q]}
             /\ barred' = CASE kind[q] \in {"reject", "deactivate"} -> TRUE
                            [] kind[q] = "activate" -> FALSE
                            [] OTHER -> barred
             /\ UNCHANGED <<processVars, orphan, faults>>

\* Faulty: an aborted transaction keeps the row.
AbortKeepsRow(q) == /\ pc[q] # "idle"
                    /\ Fault
                    /\ Done(q)
                    /\ UNCHANGED <<user, rowLock, processVars, historyVars>>

\* The process dies, the connection drops or the commit fails: the database
\* forgets the request, Camunda does not.
Abort(q) == /\ pc[q] # "idle"
            /\ Fault
            /\ rowLock' = IF rowLock = q THEN Nobody ELSE rowLock
            /\ Done(q)
            /\ IF kind[q] = "register" /\ rowLock = q /\ outcome[<<1, "notify_admins">>] # "none"
               THEN /\ outcome' = [t \in Tasks |-> "none"]
                    /\ effect' = {}
                    /\ review' = {}
                    /\ orphan' = TRUE
                    /\ UNCHANGED decided
               ELSE UNCHANGED <<processVars, orphan>>
            /\ UNCHANGED <<user, applied, barred>>
-----------------------------------------------------------------------------
(***************************************************************************)
(* The service tasks.                                                      *)
(***************************************************************************)
\* Faulty: the activation is rolled back like the rejection.
HandleRollsBack(k, n) ==
  /\ Process!CanRun(<<k, n>>)
  /\ n \in {"activate_user", "notify_user_rejected"} => rowLock = Nobody
  /\ effect' = effect \cup {<<k, n>>}
  /\ UNCHANGED <<user, requestVars, outcome, review, decided, historyVars, faults>>

\* handle_activate_approved_user commits is_approved; handle_notify_user_-
\* rejected writes is_active, builds a NotificationModel from arguments the
\* model does not have, and rolls back.  Both wait for the row lock.  The
\* other handlers only write notifications.
WritesRow(n) == n \in {"activate_user", "notify_user_rejected"}

Handle(k, n) ==
  /\ Process!CanRun(<<k, n>>)
  /\ WritesRow(n) => rowLock = Nobody
  /\ effect' = effect \cup {<<k, n>>}
  /\ user' = IF n = "activate_user" /\ user.registered
             THEN [user EXCEPT !.approved = TRUE] ELSE user
  /\ UNCHANGED <<requestVars, outcome, review, decided, historyVars, faults>>

\* The end of a service task is the arrival of its token at the next node.
Finish(k, n) ==
  /\ Process!CanEnd(<<k, n>>)
  /\ outcome' = IF n = "activate_user"
                THEN [outcome EXCEPT ![<<k, n>>] = "completed",
                                     ![<<k, "notify_user_approved">>] = "pending"]
                ELSE [outcome EXCEPT ![<<k, n>>] = "completed"]
  /\ review' = IF n \in {"notify_admins", "send_reminder"} THEN review \cup {k} ELSE review
  /\ UNCHANGED <<user, requestVars, effect, decided, historyVars, faults>>

\* A HANDLER_ERROR no boundary event catches ends the token.
ThrowError(k, n) == /\ Process!CanEnd(<<k, n>>)
                    /\ Fault
                    /\ outcome' = [outcome EXCEPT ![<<k, n>>] = "error"]
                    /\ UNCHANGED <<user, requestVars, effect, review, decided, historyVars>>

RunOut(k, n) == /\ outcome[<<k, n>>] = "pending"
                /\ Fault
                /\ outcome' = [outcome EXCEPT ![<<k, n>>] = "incident"]
                /\ UNCHANGED <<user, requestVars, effect, review, decided, historyVars>>

Revive(k, n) == /\ outcome[<<k, n>>] = "incident"
                /\ outcome' = [outcome EXCEPT ![<<k, n>>] = "pending"]
                /\ UNCHANGED <<user, requestVars, effect, review, decided,
                               historyVars, faults>>

\* timer_reminder does not cancel the review: a second token goes through
\* send_reminder to a review of its own, which has a timer again.
Reminder(k) == /\ k \in review
               /\ k + 1 \in Tokens
               /\ outcome[<<k + 1, "send_reminder">>] = "none"
               /\ Arrive(<<k + 1, "send_reminder">>)
               /\ UNCHANGED <<user, requestVars, effect, review, decided,
                              historyVars, faults>>
-----------------------------------------------------------------------------
\* What a request does when nothing goes wrong around it.
Serve(q) == \/ Write(q) \/ WriteRefused(q) \/ StartProcess(q) \/ ListTasks(q)
            \/ CompleteTask(q) \/ Commit(q)

Disturb(q) == StartFails(q) \/ ListFails(q) \/ CompleteLost(q) \/ Abort(q)

Work(k, n) == Handle(k, n) \/ Finish(k, n)

WorkFails(k, n) == ThrowError(k, n) \/ RunOut(k, n) \/ Revive(k, n)

Next == \/ \E q \in Request : \/ \E k \in Kinds : Begin(q, k)
                              \/ Serve(q) \/ Disturb(q)
        \/ \E k \in Tokens : \/ Reminder(k)
                             \/ \E n \in ServiceNodes : Work(k, n) \/ WorkFails(k, n)

\* A request runs to its end and a waiting transaction gets the row in the
\* order it asked for it, so the lock is a matter of strong fairness; the
\* workers do not stop working (EventuallySettled).
Fairness ==
  /\ \A q \in Request : SF_vars(Serve(q))
  /\ SF_vars(\E k \in Tokens, n \in ServiceNodes : Work(k, n))

Spec == Init /\ [][Next]_vars
FairSpec == Spec /\ Fairness
-----------------------------------------------------------------------------
(***************************************************************************)
(* Properties.                                                             *)
(***************************************************************************)
\* Nobody is approved but by an administrator: the row was created by one,
\* an approve request was committed, or the process was told to approve; no
\* reminder, late worker or aborted request approves on its own.
ApprovedByAdmin ==
  user.approved => "approve" \in decided \/ applied \cap {"approve", "create"} # {}

\* A rejected or deactivated user cannot log in until an administrator
\* activates the account: neither a worker that acts on an earlier approval
\* nor a later approve request lets it back in.
BarredStaysOut == barred => ~CanLogin

\* A process that a request may have to complete is always the one whose id
\* the row holds, but for a registration that is about to commit.
ProcessIsKnown ==
  outcome[<<1, "notify_admins">>] # "none" =>
    \/ user.registered /\ user.process
    \/ \E q \in Request : kind[q] = "register" /\ pc[q] = "commit" /\ rowLock = q

\* A review is decided once: the row lock, which a request takes before it
\* looks for a review, keeps the one it has found for it alone, and a token
\* that was sent to the activation is never sent to the rejection as well.
DecidedOnce ==
  /\ \A q \in Request : pc[q] = "complete" => chosen[q] \in review
  /\ \A k \in Tokens : \/ outcome[<<k, "activate_user">>] = "none"
                        \/ outcome[<<k, "notify_user_rejected">>] = "none"

\* Once the handler of an activation has returned the account is approved,
\* whichever requests have committed or aborted before and after it.
ActivationsLand ==
  \A k \in Tokens : <<k, "activate_user">> \in effect => user.approved

\* What a registration and an approval have committed is never taken back,
\* whichever requests and workers follow.
ApprovalIsFinal == [][/\ user.registered => user'.registered
                      /\ user.approved => user'.approved
                      /\ user.process => user'.process]_vars

\* A decision to approve reaches the row even when the request that took it
\* was aborted: the activation is retried until it has run or is an incident.
ApprovalLands ==
  \A k \in Tokens : outcome[<<k, "activate_user">>] = "pending" ~>
                      (user.approved \/ outcome[<<k, "activate_user">>] = "incident")

\* The process that the requests and handlers drive is one the worker can
\* carry out (TaskOutcome): no task arrives twice, is ended unhandled or ended
\* again.  A process is abandoned with the registration that started it only,
\* never once the row that names it is committed.
Abandoned == /\ ~user.registered
             /\ orphan' /\ effect' = {} /\ outcome' = [t \in Tasks |-> "none"]

ProcessFollowsPromise == [][Process!TaskNext \/ Abandoned]_<<outcome, effect>>

\* Every request ends: a transaction that died does not keep the row.
RequestsEnd == \A q \in Request : pc[q] # "idle" ~> pc[q] = "idle"
-----------------------------------------------------------------------------
(***************************************************************************)
(* The inductive invariant behind the safety properties: a request that    *)
(* has passed its checks still finds the row they were made on.            *)
(***************************************************************************)
Busy(q) == pc[q] # "idle"

\* A transaction that has written the row holds it until it ends, whatever
\* Camunda answers, and no other has it written meanwhile.
OneWriter ==
  \A q \in Request : pc[q] \in {"start", "list", "complete", "commit"} <=> rowLock = q

KindsFit ==
  \A q \in Request : /\ Busy(q) <=> kind[q] # "none"
                     /\ pc[q] = "start" => kind[q] = "register"
                     /\ pc[q] \in {"list", "complete"} => kind[q] \in {"approve", "reject"}

RowFits ==
  /\ user.approved \/ user.process => user.registered
  /\ \A q \in Request :
       /\ pc[q] \in {"start", "commit"} /\ kind[q] \in {"register", "create"}
            => ~user.registered
       /\ kind[q] \in {"approve", "reject", "activate", "deactivate"} => user.registered

ActivationDecided ==
  \A k \in Tokens : outcome[<<k, "activate_user">>] # "none" => "approve" \in decided

\* The first token comes by notify_admins, every other by send_reminder.
Entry(k) == IF k = 1 THEN "notify_admins" ELSE "send_reminder"

Passed(k) == outcome[<<k, Entry(k)>>] = "completed"

\* Where a token is: not yet at its review, at it, or past its gateway.
TokenFits(k) ==
  /\ k = 1 => outcome[<<k, "send_reminder">>] = "none"
  /\ k # 1 => outcome[<<k, "notify_admins">>] = "none"
  /\ k \in review => /\ Passed(k)
                     /\ outcome[<<k, "activate_user">>] = "none"
                     /\ outcome[<<k, "notify_user_rejected">>] = "none"
  /\ outcome[<<k, "activate_user">>] # "none"
       => Passed(k) /\ user.registered /\ outcome[<<k, "notify_user_rejected">>] = "none"
  /\ outcome[<<k, "notify_user_rejected">>] # "none" => Passed(k)
  /\ outcome[<<k, "notify_user_approved">>] # "none"
       => outcome[<<k, "activate_user">>] = "completed"

TokensFit == \A k \in Tokens : TokenFits(k)

BarredInactive == barred => user.registered /\ ~user.active

IInv == /\ TypeOK /\ OneWriter /\ KindsFit /\ RowFits
        /\ ActivationDecided /\ ApprovedByAdmin /\ BarredInactive /\ ProcessIsKnown
        /\ TokensFit /\ DecidedOnce /\ ActivationsLand
-----------------------------------------------------------------------------
(***************************************************************************)
(* What the source says of itself and the code does not do.                *)
(***************************************************************************)
\* approve_user: "Approve a pending user (admin only). Completes Camunda task
\* when enabled."  Without any fault, a committed approval of a user with a
\* process has completed an admin_review task of it.
ApproveCompletesTask ==
  faults = 0 /\ "approve" \in applied /\ user.process => "approve" \in decided

\* handle_notify_user_rejected: "Deactivate the user".  Once it has returned,
\* the user is inactive unless an administrator activated the account.
RejectionDeactivates ==
  (\E k \in Tokens : <<k, "notify_user_rejected">> \in effect)
    => ~user.active \/ "activate" \in applied

=============================================================================
