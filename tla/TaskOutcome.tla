---------------------------- MODULE TaskOutcome ----------------------------
(***************************************************************************)
(* What the external-task worker promises to the process models: the       *)
(* handler of a service task returns at least once before the task ends,   *)
(* an ended task stays ended, and a task whose handler keeps failing       *)
(* becomes an incident.  Nothing is promised about running a handler only  *)
(* once, nor about not running it after the task has ended.                *)
(*                                                                         *)
(* ExternalTask implements this specification; UserApproval lets its       *)
(* service tasks do whatever the guards below allow.                       *)
(***************************************************************************)
CONSTANT Task

VARIABLES outcome,   \* what has become of each task
          effect     \* the tasks whose handler has returned at least once

taskVars == <<outcome, effect>>

Outcomes == {"none", "pending", "incident", "completed", "error"}

TaskInit == /\ outcome = [t \in Task |-> "none"]
            /\ effect = {}

Unsettled(t) == outcome[t] \in {"pending", "incident"}

\* A handler may return while its task is there, and, on a replica that has
\* lost its lock, after that.
CanRun(t) == outcome[t] # "none"

\* Only the result of a handler that returned ends a task.
CanEnd(t) == Unsettled(t) /\ t \in effect

\* What one step may make of a task: it arrives, ends, runs out of retries,
\* or is handed retries again by a late report of an older attempt.
TaskStep(t) == \/ outcome[t] = "none" /\ outcome'[t] = "pending"
               \/ CanEnd(t) /\ outcome'[t] \in {"completed", "error"}
               \/ Unsettled(t) /\ Unsettled(t)'
               \/ UNCHANGED outcome[t]

\* One step of the system may move several tasks: the end of one is the
\* arrival of the next.
TaskNext == /\ outcome' \in [Task -> Outcomes]
            /\ \A t \in Task : TaskStep(t)
            /\ effect \subseteq effect'
            /\ \A t \in effect' \ effect : t \in Task /\ CanRun(t)

TaskSpec == TaskInit /\ [][TaskNext]_taskVars
=============================================================================
