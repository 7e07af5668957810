--------------------------- MODULE FunnelJourney ---------------------------
(***************************************************************************)
(* The funnel stage of one contact, which is kept twice: in the row of the *)
(* contact and in the journey, a process of the engine that goes through   *)
(* the stages in order.                                                    *)
(*                                                                         *)
(* An event request (FunnelJourneyService.correlate_event) updates the     *)
(* row, tells the engine while its transaction still holds the row, and    *)
(* commits whatever the engine has answered.  The engine moves the journey *)
(* that waits for the event, whose service task then writes the stage to   *)
(* the row again, by the name its process variable current_stage has then. *)
(*                                                                         *)
(* The process routes start, move and delete a journey without the row;    *)
(* the contact routes write the row without the journey.                   *)
(*                                                                         *)
(* The service tasks do what TaskOutcome lets them do.  Left out are the   *)
(* timers of stale stages, which only write notifications, and the end of  *)
(* the contact itself.  A caller's variables may also name another contact *)
(* to a journey: it then writes to this one's row nothing, and to that     *)
(* one's row what a patch may write.                                       *)
(***************************************************************************)
EXTENDS Integers, FiniteSets

CONSTANTS Journey,     \* the processes that may be started for the contact
          Request,     \* requests that may overlap
          Last,        \* the stages are 0 .. Last
          Nobody,      \* no transaction
          Other,       \* a name that is no stage
          Unset,       \* no name: none is given, or it is for another contact
          MaxRequests, \* bound: requests begun
          MaxFaults    \* bound: lost calls, aborted requests, failing or late handlers

ASSUME StagesAssumption == Last \in Nat \ {0}
ASSUME JourneyAssumption == IsFiniteSet(Journey)
ASSUME NobodyAssumption == Nobody \notin Request
ASSUME NamesAssumption == Other \notin Nat /\ Unset \notin Nat \cup {Other}
ASSUME BoundsAssumption == MaxRequests \in Nat /\ MaxFaults \in Nat

VARIABLES row,         \* current_stage of the committed row
          rowLock,     \* the request whose transaction has updated the row
          req,         \* what each request is at
          outcome,     \* what has become of each service task
          effect,      \* the tasks whose handler has returned at least once
          value,       \* current_stage of the process when it came to each task
          deleted,     \* the journeys that have been deleted
          disturbed,   \* history: the row was last written by something else
                       \* than the current task of a journey or its event
          begun, faults

requestVars == <<rowLock, req>>
engineVars == <<outcome, effect, value, deleted>>
boundVars == <<begun, faults>>
vars == <<row, requestVars, engineVars, disturbed, boundVars>>

Stages == 0 .. Last      \* lead_acquired, sms_sent, ..., payment_received
Names == Stages \cup {Other}
Values == Names \cup {Unset}
Tasks == Journey \X Stages

Process == INSTANCE TaskOutcome WITH Task <- Tasks

\* "stage": what a request writes to the row; "value": the current_stage an
\* event gives to the engine; "moved": the journeys the engine has moved on for
\* it; "seen": the stage the merge of a patch or an edit has read.
Idle == [pc |-> "idle", stage |-> 0, value |-> 0, moved |-> {}, seen |-> 0]

Requests == [pc : {"idle", "update", "correlate", "commit", "edit", "write"},
             stage : Names, value : Values, moved : SUBSET Journey, seen : Names]

TypeOK == /\ row \in Names
          /\ rowLock \in Request \cup {Nobody}
          /\ req \in [Request -> Requests]
          /\ outcome \in [Tasks -> Process!Outcomes]
          /\ effect \subseteq Tasks
          /\ value \in [Tasks -> Values]
          /\ deleted \subseteq Journey
          /\ disturbed \in BOOLEAN
          /\ begun \in Nat /\ faults \in Nat

Init == /\ row = 0
        /\ rowLock = Nobody
        /\ req = [q \in Request |-> Idle]
        /\ Process!TaskInit
        /\ value = [t \in Tasks |-> Unset]
        /\ deleted = {}
        /\ disturbed = FALSE
        /\ begun = 0 /\ faults = 0

Fault == faults < MaxFaults /\ faults' = faults + 1
-----------------------------------------------------------------------------
(* The journeys, as the engine sees them. *)

Started(p) == outcome[<<p, 0>>] # "none"

Reached(p, k) == outcome[<<p, k>>] # "none"

\* The stage the journey is at, or was at when its token ended.
At(p, k) == Reached(p, k) /\ (k < Last => ~Reached(p, k + 1))

\* The token is at the catch event after the task of stage k.
WaitsAfter(p, k) == /\ p \notin deleted
                    /\ At(p, k) /\ k < Last /\ outcome[<<p, k>>] = "completed"

\* The journeys of S come to the tasks of stage k, current_stage being v.
Arrive(S, k, v) ==
  /\ outcome' = [t \in Tasks |-> IF t[1] \in S /\ t[2] = k THEN "pending" ELSE outcome[t]]
  /\ value' = [t \in Tasks |-> IF t[1] \in S /\ t[2] = k THEN v ELSE value[t]]

Counted == begun < MaxRequests /\ begun' = begun + 1

Starts(p, v) == /\ ~Started(p)
                /\ Arrive({p}, 0, v)
                /\ UNCHANGED <<row, requestVars, effect, deleted, disturbed, faults>>

\* start_journey and start_batch_journeys do not look for a journey that is
\* there.  A start whose answer is lost is a start all the same.
Start(p) == Starts(p, 0) /\ UNCHANGED begun

\* POST /processes/instances: the variables are the caller's.
StartByHand(p) == Counted /\ \E v \in Values : Starts(p, v)

\* POST /processes/messages, to this process by its id, or by the phone number
\* to the only one that waits for it.  The variables are the caller's: they set
\* current_stage, or leave the one that was there.  The row is left alone.
Message(p) ==
  /\ Counted
  /\ \E e \in 1 .. Last, v \in Values : WaitsAfter(p, e - 1) /\ Arrive({p}, e, v)
  /\ UNCHANGED <<row, requestVars, effect, deleted, disturbed, faults>>

\* DELETE /processes/instances: what is not there any more is not found.  A
\* handler that has fetched a task of the journey runs on.
Ended(p) == \/ outcome[<<p, Last>>] = "completed"
            \/ \E k \in Stages : outcome[<<p, k>>] = "error"

Delete(p) == /\ Started(p) /\ ~Ended(p) /\ p \notin deleted
             /\ deleted' = deleted \cup {p}
             /\ UNCHANGED <<row, requestVars, outcome, effect, value, disturbed, boundVars>>
-----------------------------------------------------------------------------
(* Requests. *)

Begins(q, r) == /\ req[q].pc = "idle"
                /\ Counted
                /\ req' = [req EXCEPT ![q] = r]
                /\ UNCHANGED <<row, rowLock, engineVars, disturbed, faults>>

\* Faulty: a name that is no stage is not refused.
EventNamesAny == 1 .. Last + 1

\* The events: any stage but the first.
EventNames == 1 .. Last

\* An event is reported, in whatever order; the caller's variables may give the
\* engine another current_stage.
Event(q) == \E e \in EventNames, v \in Values :
              Begins(q, [Idle EXCEPT !.pc = "update", !.stage = e, !.value = v])

\* _update_contact_stage waits for the transaction that has the row.
Update(q) == /\ req[q].pc = "update"
             /\ rowLock = Nobody
             /\ rowLock' = q
             /\ req' = [req EXCEPT ![q].pc = "correlate"]
             /\ UNCHANGED <<row, engineVars, disturbed, boundVars>>

Waiting(e) == {p \in Journey : WaitsAfter(p, e - 1)}

\* Faulty: the message goes to every journey that waits for it.
HearingAll(e) == Waiting(e)

\* Camunda refuses a message that no journey, or more than one, waits for.
Hearing(e) == IF Cardinality(Waiting(e)) = 1 THEN Waiting(e) ELSE {}

\* The answer is not looked at: an error, too, leads to the commit.
Correlate(q) ==
  LET heard == Hearing(req[q].stage)
  IN /\ req[q].pc = "correlate"
     /\ Arrive(heard, req[q].stage, req[q].value)
     /\ req' = [req EXCEPT ![q].pc = "commit", ![q].moved = heard]
     /\ UNCHANGED <<row, rowLock, effect, deleted, disturbed, boundVars>>

\* The call does not reach the engine.
CorrelateLost(q) == /\ req[q].pc = "correlate"
                    /\ Fault
                    /\ req' = [req EXCEPT ![q].pc = "commit"]
                    /\ UNCHANGED <<row, rowLock, engineVars, disturbed, begun>>

Commit(q) == /\ req[q].pc = "commit"
             /\ row' = req[q].stage
             /\ disturbed' = ~ \E p \in req[q].moved : At(p, req[q].stage)
             /\ rowLock' = Nobody
             /\ req' = [req EXCEPT ![q] = Idle]
             /\ UNCHANGED <<engineVars, boundVars>>

\* update_contact_stage of the leads API makes any name the contact's stage.
Patch(q) == \E name \in Names :
              Begins(q, [Idle EXCEPT !.pc = "write", !.stage = name, !.seen = row])

\* update_contact, block_contact and unblock_contact carry the stage along that
\* they have loaded.
Edit(q) == Begins(q, [Idle EXCEPT !.pc = "edit", !.stage = row])

\* session.merge reads the row again ...
Merge(q) == /\ req[q].pc = "edit"
            /\ req' = [req EXCEPT ![q].pc = "write", ![q].seen = row]
            /\ UNCHANGED <<row, rowLock, engineVars, disturbed, boundVars>>

\* ... and the stage is written if it differs from that.
Write(q) == /\ req[q].pc = "write"
            /\ rowLock = Nobody
            /\ IF req[q].stage # req[q].seen
               THEN row' = req[q].stage /\ disturbed' = TRUE
               ELSE UNCHANGED <<row, disturbed>>
            /\ req' = [req EXCEPT ![q] = Idle]
            /\ UNCHANGED <<rowLock, engineVars, boundVars>>

\* The process dies, the connection drops or the commit fails: the database
\* forgets the request, the engine does not.
Abort(q) == /\ req[q].pc # "idle"
            /\ Fault
            /\ rowLock' = IF rowLock = q THEN Nobody ELSE rowLock
            /\ req' = [req EXCEPT ![q] = Idle]
            /\ UNCHANGED <<row, engineVars, disturbed, begun>>
-----------------------------------------------------------------------------
(* The service tasks. *)

\* Faulty: the handler does not take a stage back.
WrittenForward(t) == IF row \in Stages /\ value[t] \in Stages /\ value[t] < row
                     THEN row ELSE value[t]

\* Faulty: the handler does nothing if the event request has seen to the row.
WrittenOnce(t) == row

\* handle_update_funnel_stage writes the current_stage its task came with, and
\* returns without a look at the row if there is none.
Written(t) == IF value[t] = Unset THEN row ELSE value[t]

\* A run of the handler after the first, or after the end of its task, is a
\* fault of the worker.
Handle(p, k) ==
  LET t == <<p, k>>
  IN /\ Process!CanRun(t)
     /\ value[t] = Unset \/ rowLock = Nobody
     /\ IF Process!Unsettled(t) /\ t \notin effect /\ p \notin deleted
        THEN UNCHANGED faults ELSE Fault
     /\ row' = Written(t)
     /\ disturbed' = (~At(p, k) \/ value[t] # k)
     /\ effect' = effect \cup {t}
     /\ UNCHANGED <<requestVars, outcome, value, deleted, begun>>

Becomes(p, k, as) == /\ p \notin deleted
                     /\ outcome' = [outcome EXCEPT ![<<p, k>>] = as]
                     /\ UNCHANGED <<row, requestVars, effect, value, deleted, disturbed, begun>>

Finish(p, k) == Process!CanEnd(<<p, k>>) /\ Becomes(p, k, "completed") /\ UNCHANGED faults

\* A HANDLER_ERROR no boundary event catches ends the token, and a task out
\* of retries waits for a late report to hand it new ones.
ThrowError(p, k) == Process!CanEnd(<<p, k>>) /\ Becomes(p, k, "error") /\ Fault

RunOut(p, k) == outcome[<<p, k>>] = "pending" /\ Becomes(p, k, "incident") /\ Fault

Revive(p, k) == outcome[<<p, k>>] = "incident" /\ Becomes(p, k, "pending") /\ UNCHANGED faults
-----------------------------------------------------------------------------
Serve(q) == Update(q) \/ Correlate(q) \/ Commit(q) \/ Merge(q) \/ Write(q)

Disturb(q) == CorrelateLost(q) \/ Abort(q)

Manage(p) == Start(p) \/ StartByHand(p) \/ Message(p) \/ Delete(p)

Work(p, k) == Handle(p, k) \/ Finish(p, k)

WorkFails(p, k) == ThrowError(p, k) \/ RunOut(p, k) \/ Revive(p, k)

Next == \/ \E q \in Request : Event(q) \/ Patch(q) \/ Edit(q) \/ Serve(q) \/ Disturb(q)
        \/ \E p \in Journey : \/ Manage(p)
                              \/ \E k \in Stages : Work(p, k) \/ WorkFails(p, k)

\* A request runs to its end, and a transaction that waits for the row gets
\* it in the order it asked for it: strong fairness.  The workers do not stop
\* (EventuallySettled of ExternalTask).
Fairness == /\ \A q \in Request : SF_vars(Serve(q))
            /\ SF_vars(\E p \in Journey, k \in Stages : Work(p, k))

Spec == Init /\ [][Next]_vars
FairSpec == Spec /\ Fairness
-----------------------------------------------------------------------------
(* Properties. *)

\* While a contact has had a single journey, and since the journey's last task
\* no event has been dropped, no handler been late, no current_stage been set to
\* another stage by a caller, and no patch or stale edit has written the row,
\* the row shows the stage the journey waits after: neither a request aborted
\* once the engine has moved on, nor one that commits after that, nor a message
\* sent past the row, nor an earlier disturbance leaves the two apart.
InStep ==
  \A p \in Journey, k \in Stages :
    /\ {j \in Journey : Started(j)} = {p}
    /\ WaitsAfter(p, k) /\ ~disturbed
    => row = k

TwinsStay == \A p, q \in Journey, k \in Stages :
               /\ p # q
               /\ WaitsAfter(p, k) /\ WaitsAfter(q, k)
               => \/ WaitsAfter(p, k)' /\ WaitsAfter(q, k)'
                  \/ \E j \in {p, q} : Message(j) \/ Delete(j)

\* Two journeys of a contact that wait for the same event wait for good,
\* whichever events are reported: only the process routes, with the id of one
\* of them, move it on or delete it.
TwinJourneysAreStuck == [][TwinsStay]_vars

\* Every stage a journey reaches shows in the row, by the name the journey has
\* for it, even if the request that reported it was aborted or another one has
\* overwritten it: the task is retried until its handler has run, it is an
\* incident, or the journey is deleted.
StageLands ==
  \A p \in Journey, k \in Stages :
    /\ outcome[<<p, k>>] = "pending" /\ <<p, k>> \notin effect
    /\ value[<<p, k>>] # Unset
    ~> \/ row = value[<<p, k>>]
       \/ outcome[<<p, k>>] = "incident"
       \/ p \in deleted
-----------------------------------------------------------------------------
(***************************************************************************)
(* The inductive invariant of the proofs: a journey has completed every    *)
(* stage before the one it is at, only a task whose handler has returned   *)
(* is completed, and a request has the row's lock while it has updated the *)
(* row and not committed it.                                               *)
(***************************************************************************)
InOrder == \A p \in Journey, k, later \in Stages :
             k < later /\ Reached(p, later) => outcome[<<p, k>>] = "completed"

EffectsFit == \A p \in Journey, k \in Stages :
                /\ <<p, k>> \in effect => Reached(p, k)
                /\ outcome[<<p, k>>] = "completed" => <<p, k>> \in effect

RequestsFit == \A q \in Request :
                 /\ req[q].pc \in {"update", "correlate", "commit"} => req[q].stage \in EventNames
                 /\ req[q].pc \in {"correlate", "commit"} => rowLock = q

\* A stage whose handler has returned is in the row until something disturbs it.
RowFits == \A p \in Journey, k \in Stages :
             /\ {j \in Journey : Started(j)} = {p}
             /\ At(p, k) /\ <<p, k>> \in effect /\ ~disturbed
             => row = k

IInv == TypeOK /\ InOrder /\ EffectsFit /\ RequestsFit /\ RowFits
=============================================================================
