---------------------------- MODULE SmsDelivery ----------------------------
(***************************************************************************)
(* The delivery status of outgoing SMS: the row that send_sms writes, and  *)
(* the three places that update it from what the gateway reports: the      *)
(* Kavenegar webhook (webhook_routes.py), POST /sms/check-status           *)
(* (routes.py) and the Celery task poll_sms_delivery_status (tasks.py).    *)
(*                                                                         *)
(* Each of them runs in a database transaction of its own, at READ         *)
(* COMMITTED: it reads a row, waits for a call or for another transaction, *)
(* and writes what it made of the row it had read.  The gateway is         *)
(* external.  Timestamps, costs and reasons are left out, and so are       *)
(* updates that write nothing else.                                        *)
(***************************************************************************)
EXTENDS Integers, FiniteSets, WaitCircles

CONSTANTS Msg,        \* messages the gateway may be given
          Ours,       \* those of the default tenant, the only one webhooks serve
          Session,    \* webhook and check-status requests in progress at a time
          Poller,     \* the Celery worker that polls
          PollLimit,  \* rows in one poll, 500 in the code
          MaxFaults   \* bound: crashes, lost calls and answers, repeated calls

ASSUME LimitsAssumption == PollLimit \in Nat \ {0} /\ MaxFaults \in Nat
ASSUME PartiesAssumption == Ours \subseteq Msg /\ Poller \notin Session
ASSUME FiniteAssumption == IsFiniteSet(Msg) /\ IsFiniteSet(Session)

VARIABLES gate,    \* gateway: what has become of each message
          posts,   \* gateway: the webhook calls it has yet to make
          sending, \* where the send_sms of each message is
          row,     \* the committed status of each message
          aged,    \* the rows older than the 48 hours the poll looks back
          kind,    \* what each worker does
          pc,      \* where it is
          todo,    \* the reports it has yet to apply
          want,    \* the row it is about to write, and the status
          writes,  \* what its transaction has written
          faults   \* bound: the faults so far

gatewayVars == <<gate, posts>>
tableVars == <<row, aged, sending>>
workerVars == <<kind, pc, todo, want, writes>>
vars == <<gatewayVars, tableVars, workerVars, faults>>
-----------------------------------------------------------------------------
Worker == Session \cup {Poller}

\* The statuses of the gateway's table, by their meaning.
Codes == {"queued", "sent", "delivered", "undelivered", "failed"}
Answers == Codes \cup {"none", "unasked", "unknown"}
Reports == [msg : Msg, code : Answers]

\* "refused" is a row marked failed by send_sms: it has an id of its own
\* making, by which no report finds it.
Statuses == {"none", "refused", "sent", "delivered", "failed"}
Final == {"delivered", "failed"}
Tracked == {"sent"} \cup Final

Changes == [msg : Msg, status : Statuses]

TypeOK == /\ gate \in [Msg -> Codes \cup {"none"}]
          /\ posts \subseteq Reports
          /\ sending \in [Msg -> {"idle", "accepted", "refused", "ended"}]
          /\ row \in [Msg -> Statuses]
          /\ aged \subseteq Msg
          /\ kind \in [Worker -> {"none", "webhook", "check", "poll"}]
          /\ pc \in [Worker -> {"idle", "ask", "next", "merge", "flush"}]
          /\ todo \in [Worker -> SUBSET Reports]
          /\ want \in [Worker -> SUBSET Changes]
          /\ writes \in [Worker -> [Msg -> Statuses]]
          /\ faults \in 0..MaxFaults

Init == /\ gate = [m \in Msg |-> "none"]
        /\ posts = {}
        /\ sending = [m \in Msg |-> "idle"]
        /\ row = [m \in Msg |-> "none"]
        /\ aged = {}
        /\ kind = [w \in Worker |-> "none"]
        /\ pc = [w \in Worker |-> "idle"]
        /\ todo = [w \in Worker |-> {}]
        /\ want = [w \in Worker |-> {}]
        /\ writes = [w \in Worker |-> [m \in Msg |-> "none"]]
        /\ faults = 0

Fault == faults < MaxFaults /\ faults' = faults + 1
-----------------------------------------------------------------------------
(***************************************************************************)
(* The gateway.                                                            *)
(***************************************************************************)
Follows(c, d) == \/ c = "queued" /\ d \in {"sent", "failed"}
                 \/ c = "sent" /\ d \in {"delivered", "undelivered", "failed"}

Advance(m, d) == /\ Follows(gate[m], d)
                 /\ gate' = [gate EXCEPT ![m] = d]
                 /\ posts' = posts \cup {[msg |-> m, code |-> d]}
                 /\ UNCHANGED <<tableVars, workerVars, faults>>

\* A webhook call that is lost, or whose handler fails: it answers 200 all
\* the same and is not called again.
PostLost(p) == /\ p \in posts
               /\ Fault
               /\ posts' = posts \ {p}
               /\ UNCHANGED <<gate, tableVars, workerVars>>
-----------------------------------------------------------------------------
(***************************************************************************)
(* send_sms.  The row is inserted before the gateway is called, and seen   *)
(* by others when the request commits.                                     *)
(***************************************************************************)
SendAccepted(m) == /\ sending[m] = "idle"
                   /\ gate' = [gate EXCEPT ![m] = "queued"]
                   /\ sending' = [sending EXCEPT ![m] = "accepted"]
                   /\ UNCHANGED <<posts, row, aged, workerVars, faults>>

SendRefused(m) == /\ sending[m] = "idle"
                  /\ sending' = [sending EXCEPT ![m] = "refused"]
                  /\ UNCHANGED <<gatewayVars, row, aged, workerVars, faults>>

\* The answer is lost, so that an accepted message is taken for a refused one.
SendUnanswered(m) == /\ sending[m] = "idle"
                     /\ Fault
                     /\ gate' = [gate EXCEPT ![m] = "queued"]
                     /\ sending' = [sending EXCEPT ![m] = "refused"]
                     /\ UNCHANGED <<posts, row, aged, workerVars>>

\* Faulty: the id the gateway answered is not stored.
SendCommitsNoId(m) == /\ sending[m] \in {"accepted", "refused"}
                      /\ sending' = [sending EXCEPT ![m] = "ended"]
                      /\ row' = [row EXCEPT ![m] = "refused"]
                      /\ UNCHANGED <<gatewayVars, aged, workerVars, faults>>

SendCommits(m) ==
  /\ sending[m] \in {"accepted", "refused"}
  /\ sending' = [sending EXCEPT ![m] = "ended"]
  /\ row' = [row EXCEPT ![m] = IF sending[m] = "accepted" THEN "sent" ELSE "refused"]
  /\ UNCHANGED <<gatewayVars, aged, workerVars, faults>>

\* The request dies before its commit: the message is out, the row is not.
SendDies(m) == /\ sending[m] \in {"accepted", "refused"}
               /\ Fault
               /\ sending' = [sending EXCEPT ![m] = "ended"]
               /\ UNCHANGED <<gatewayVars, row, aged, workerVars>>

Age(m) == /\ row[m] # "none"
          /\ aged' = aged \cup {m}
          /\ UNCHANGED <<gatewayVars, row, sending, workerVars, faults>>
-----------------------------------------------------------------------------
(***************************************************************************)
(* What starts a worker: a webhook call, a client that asks for the status *)
(* of its messages, and the beat that starts the poll.                     *)
(***************************************************************************)
Starts(w, k, place, reports) == /\ pc[w] = "idle"
                                /\ kind' = [kind EXCEPT ![w] = k]
                                /\ pc' = [pc EXCEPT ![w] = place]
                                /\ todo' = [todo EXCEPT ![w] = reports]
                                /\ UNCHANGED <<tableVars, gate, want, writes>>

Unasked(S) == {[msg |-> m, code |-> "unasked"] : m \in S}

Webhook(s, p) == /\ p \in posts
                 /\ Starts(s, "webhook", "next", {p})
                 /\ posts' = posts \ {p}
                 /\ UNCHANGED faults

\* The gateway has not seen the answer and will call again.
WebhookRepeats(s, p) == /\ p \in posts
                        /\ Fault
                        /\ Starts(s, "webhook", "next", {p})
                        /\ UNCHANGED posts

Check(s, S) == /\ S # {}
               /\ \A m \in S : row[m] \in Tracked
               /\ Starts(s, "check", "ask", Unasked(S))
               /\ UNCHANGED <<posts, faults>>

Pollable == {m \in Msg \ aged : row[m] = "sent"}

Poll == /\ Pollable # {}
        /\ \E S \in SUBSET Pollable :
             /\ Cardinality(S) <= PollLimit
             /\ S # Pollable => Cardinality(S) = PollLimit
             /\ Starts(Poller, "poll", "ask", Unasked(S))
        /\ UNCHANGED <<posts, faults>>
-----------------------------------------------------------------------------
(***************************************************************************)
(* The steps of a worker.                                                  *)
(***************************************************************************)
Goto(w, place) == pc' = [pc EXCEPT ![w] = place]

\* One call for all messages; a failed one makes every status unknown.
Answer(w) == /\ pc[w] = "ask"
             /\ todo' = [todo EXCEPT ![w] = {[r EXCEPT !.code = gate[r.msg]] : r \in @}]
             /\ Goto(w, "next")
             /\ UNCHANGED <<gatewayVars, tableVars, kind, want, writes, faults>>

AnswerFails(w) == /\ pc[w] = "ask"
                  /\ Fault
                  /\ todo' = [todo EXCEPT ![w] = {[r EXCEPT !.code = "unknown"] : r \in @}]
                  /\ Goto(w, "next")
                  /\ UNCHANGED <<gatewayVars, tableVars, kind, want, writes>>

\* Faulty: undelivered is not in the table.
StatusOfNoUndelivered(code) == IF code = "undelivered" THEN "unknown" ELSE code

\* KAVENEGAR_STATUS_MAP: 11, undelivered, counts as delivered.
StatusOf(code) == IF code = "undelivered" THEN "delivered" ELSE code

\* Faulty: whatever is not delivered has failed.
MarkedElseFailed(k, code, seen) ==
  IF StatusOf(code) = "delivered" THEN "delivered" ELSE "failed"

\* Faulty: the gateway's own status is stored.
MarkedRaw(k, code, seen) == IF code = "unknown" THEN seen ELSE code

\* What a report makes of the row it was read into: check-status stores SENT
\* whatever the row says, the webhook leaves the row as it was read.
Marked(k, code, seen) == IF StatusOf(code) \in Final THEN StatusOf(code)
                         ELSE IF k = "check" /\ code = "sent" THEN "sent"
                         ELSE seen

\* get_by_provider_id: not before the row is committed, and in a webhook for
\* the default tenant only.
Found(w, m) == /\ row[m] \in Tracked
               /\ kind[w] = "webhook" => m \in Ours

Take(w, r) == r \in todo[w] /\ todo' = [todo EXCEPT ![w] = @ \ {r}]

Skip(w, r) == /\ pc[w] = "next"
              /\ Take(w, r)
              /\ IF kind[w] = "poll" THEN StatusOf(r.code) \notin Final
                                     ELSE ~Found(w, r.msg)
              /\ UNCHANGED <<gatewayVars, tableVars, kind, pc, want, writes, faults>>

\* The row as it is now, marked: written back when update has merged it.
Load(w, r) ==
  /\ pc[w] = "next" /\ kind[w] # "poll"
  /\ Found(w, r.msg)
  /\ Take(w, r)
  /\ want' = [want EXCEPT ![w] =
                {[msg |-> r.msg, status |-> Marked(kind[w], r.code, row[r.msg])]}]
  /\ Goto(w, "merge")
  /\ UNCHANGED <<gatewayVars, tableVars, kind, writes, faults>>

\* Faulty: the poll stores every status the gateway answers.
LoadPolledAny(w, r) ==
  /\ pc[w] = "next" /\ kind[w] = "poll"
  /\ Take(w, r)
  /\ want' = [want EXCEPT ![w] = {[msg |-> r.msg, status |-> Marked("check", r.code, "sent")]}]
  /\ Goto(w, "flush")
  /\ UNCHANGED <<gatewayVars, tableVars, kind, writes, faults>>

\* The poll compares with the row it read before it asked, which was sent.
LoadPolled(w, r) ==
  /\ pc[w] = "next" /\ kind[w] = "poll"
  /\ StatusOf(r.code) \in Final
  /\ Take(w, r)
  /\ want' = [want EXCEPT ![w] = {[msg |-> r.msg, status |-> StatusOf(r.code)]}]
  /\ Goto(w, "flush")
  /\ UNCHANGED <<gatewayVars, tableVars, kind, writes, faults>>

\* session.merge reads the row again and writes the columns that differ.
Merge(w) ==
  /\ pc[w] = "merge"
  /\ \E x \in want[w] :
       IF row[x.msg] = x.status
       THEN Goto(w, "next") /\ want' = [want EXCEPT ![w] = {}]
       ELSE Goto(w, "flush") /\ UNCHANGED want
  /\ UNCHANGED <<gatewayVars, tableVars, kind, todo, writes, faults>>

\* u waits for the row that v has written and not yet committed.
WaitsFor(u, v) == /\ u # v /\ pc[u] = "flush"
                  /\ \E x \in want[u] : writes[v][x.msg] # "none"

Flush(w) ==
  /\ pc[w] = "flush"
  /\ \A v \in Worker : ~WaitsFor(w, v)
  /\ \E x \in want[w] : writes' = [writes EXCEPT ![w][x.msg] = x.status]
  /\ want' = [want EXCEPT ![w] = {}]
  /\ Goto(w, "next")
  /\ UNCHANGED <<gatewayVars, tableVars, kind, todo, faults>>

\* The transaction is over, and with it its row locks.
Ends(w) == /\ Goto(w, "idle")
           /\ kind' = [kind EXCEPT ![w] = "none"]
           /\ todo' = [todo EXCEPT ![w] = {}]
           /\ want' = [want EXCEPT ![w] = {}]
           /\ writes' = [writes EXCEPT ![w] = [m \in Msg |-> "none"]]

\* Faulty: a commit keeps the row locks.
CommitKeepsLocks(w) ==
  /\ pc[w] = "next" /\ todo[w] = {}
  /\ row' = [m \in Msg |-> IF writes[w][m] # "none" THEN writes[w][m] ELSE row[m]]
  /\ Goto(w, "idle")
  /\ UNCHANGED <<gatewayVars, aged, sending, kind, todo, want, writes, faults>>

Commit(w) ==
  /\ pc[w] = "next" /\ todo[w] = {}
  /\ row' = [m \in Msg |-> IF writes[w][m] # "none" THEN writes[w][m] ELSE row[m]]
  /\ Ends(w)
  /\ UNCHANGED <<gatewayVars, aged, sending, faults>>

\* The database ends one of the transactions that wait for each other in a
\* circle: the rows of a check are locked in the order of the answer.
Deadlocked(w) == OnCircle(w, Worker, {e \in Worker \X Worker : WaitsFor(e[1], e[2])})

DeadlockEnds(w) ==
  /\ Deadlocked(w)
  /\ Ends(w)
  /\ UNCHANGED <<gatewayVars, tableVars, faults>>

Dies(w) == /\ pc[w] # "idle"
           /\ Fault
           /\ Ends(w)
           /\ UNCHANGED <<gatewayVars, tableVars>>
-----------------------------------------------------------------------------
Send(m) == SendAccepted(m) \/ SendRefused(m) \/ SendCommits(m)

SendFails(m) == SendUnanswered(m) \/ SendDies(m)

Step(w) == \/ Answer(w) \/ Merge(w) \/ Flush(w) \/ Commit(w) \/ DeadlockEnds(w)
           \/ \E r \in todo[w] : Skip(w, r) \/ Load(w, r) \/ LoadPolled(w, r)

Next == \/ \E m \in Msg : \/ Send(m) \/ SendFails(m) \/ Age(m)
                          \/ \E d \in Codes : Advance(m, d)
        \/ \E p \in posts : \/ PostLost(p)
                            \/ \E s \in Session : Webhook(s, p) \/ WebhookRepeats(s, p)
        \/ \E s \in Session, S \in SUBSET Msg : Check(s, S)
        \/ Poll
        \/ \E w \in Worker : Step(w) \/ AnswerFails(w) \/ Dies(w)

\* The beat starts a poll every ten minutes; a transaction runs to its end,
\* and gets a row it waits for in the order it asked for it.
Fairness == /\ WF_vars(Poll)
            /\ \A w \in Worker : SF_vars(Step(w))

Spec == Init /\ [][Next]_vars
FairSpec == Spec /\ Fairness
-----------------------------------------------------------------------------
(***************************************************************************)
(* Properties.                                                             *)
(***************************************************************************)
\* Status st is no more than the gateway has said of m.
Agrees(m, st) == /\ st = "delivered" => gate[m] \in {"delivered", "undelivered"}
                 /\ st = "failed" => gate[m] = "failed"

\* A final status is one the gateway has reported of this very message,
\* however late, repeated or out of order its reports arrive: no row is
\* delivered or failed because of an unknown status or another message.
RowTellsTruth == \A m \in Msg : Agrees(m, row[m])

\* Without a fault every message the gateway has accepted is on record with
\* its id when its request has ended, so that each later report can find it.
AcceptedIsTracked ==
  faults = 0 => \A m \in Msg : gate[m] # "none" /\ sending[m] = "ended" =>
                                 row[m] \in Tracked

\* A final status is taken back only by the commit of a webhook or a check
\* that has written sent to the row: never by the poll, although it acts on
\* rows it read before its call to the gateway.
PollOnlyAdvances ==
  [][\A m \in Msg : row[m] \in Final /\ row'[m] \notin Final =>
                      \E s \in Session : pc[s] = "next" /\ writes[s][m] = "sent"]_vars

\* What has become of a message is recorded within the 48 hours of the poll,
\* although webhooks are lost, come before the row, belong to other tenants,
\* or undo each other.
DeliveryRecorded ==
  \A m \in Msg : gate[m] \in {"delivered", "undelivered", "failed"} /\ row[m] = "sent"
                   ~> row[m] \in Final \/ m \in aged

\* Every webhook, check and poll ends: who waits for the row of another gets
\* it when the other's transaction ends.
WorkEnds == \A w \in Worker : pc[w] # "idle" ~> pc[w] = "idle"

\* The report a webhook has taken, for which the gateway does not call again,
\* is never lost to a deadlock, in whatever orders checks and polls lock their
\* rows: a webhook has written nothing yet when it asks for its only row.
WebhookIsNoVictim == \A w \in Worker : kind[w] = "webhook" => ~Deadlocked(w)

\* Work a is closer to its end than b: the answer is there, fewer reports are
\* left, or the row at hand is further on.
Work(w) == [pc |-> pc[w], todo |-> todo[w]]
Works == [pc : {"idle", "ask", "next", "merge", "flush"}, todo : SUBSET Reports]
PhasesLeft(place) == CASE place = "idle" -> 0 [] place = "ask" -> 2 [] OTHER -> 1
StepsLeft(place) == CASE place = "merge" -> 2 [] place = "flush" -> 1 [] OTHER -> 0
Closer(a, b) ==
  /\ PhasesLeft(a.pc) <= PhasesLeft(b.pc)
  /\ PhasesLeft(a.pc) = PhasesLeft(b.pc) => a.todo \subseteq b.todo
  /\ PhasesLeft(a.pc) = PhasesLeft(b.pc) /\ a.todo = b.todo =>
       StepsLeft(a.pc) < StepsLeft(b.pc)

\* Every step of a webhook, check or poll brings it closer to its end, and no
\* other transaction, fault or change at the gateway takes it back.
WorkAdvances ==
  [][\A w \in Worker : pc[w] # "idle" =>
       /\ Step(w) => Closer(Work(w)', Work(w))
       /\ UNCHANGED Work(w) \/ Closer(Work(w)', Work(w))]_vars
-----------------------------------------------------------------------------
(***************************************************************************)
(* The inductive invariant behind the safety properties: whatever is on    *)
(* its way to a row agrees with the gateway, whose final statuses stay,    *)
(* and only a message whose request has ended has a row.                   *)
(***************************************************************************)
ReportsAgree == /\ \A p \in posts : Agrees(p.msg, StatusOf(p.code))
                /\ \A w \in Worker : \A r \in todo[w] : Agrees(r.msg, StatusOf(r.code))

ChangesAgree == \A w \in Worker : /\ \A x \in want[w] : Agrees(x.msg, x.status)
                                  /\ \A m \in Msg : Agrees(m, writes[w][m])

RowsEnded == \A m \in Msg : /\ sending[m] = "idle" => gate[m] = "none"
                            /\ sending[m] # "ended" => row[m] = "none"

KindsFit == /\ \A w \in Worker : pc[w] # "idle" => kind[w] # "none"
            /\ \A w \in Worker : kind[w] = "poll" <=> w = Poller /\ kind[w] # "none"

\* What a worker wants to write, or has written, belongs to a row on record;
\* the poll writes nothing but final statuses.
ChangesFit ==
  \A w \in Worker :
    /\ kind[w] = "poll" => \A r \in todo[w] : sending[r.msg] = "ended"
    /\ \A x \in want[w] : /\ sending[x.msg] = "ended"
                          /\ x.status \in IF w = Poller THEN Final ELSE Tracked
    /\ \A m \in Msg : writes[w][m] # "none" =>
                        /\ sending[m] = "ended"
                        /\ writes[w][m] \in IF w = Poller THEN Final ELSE Tracked

IInv == /\ TypeOK /\ ReportsAgree /\ ChangesAgree /\ RowTellsTruth
        /\ RowsEnded /\ KindsFit /\ ChangesFit

\* The same for WebhookIsNoVictim: a webhook takes one report, and writes only
\* when it has loaded it.
WebhooksFit ==
  \A w \in Worker :
    /\ pc[w] = "idle" \/ (kind[w] = "webhook" /\ (todo[w] # {} \/ pc[w] \in {"merge", "flush"}))
         => \A m \in Msg : writes[w][m] = "none"
    /\ kind[w] = "webhook" /\ pc[w] # "idle" =>
         /\ pc[w] # "ask" /\ \A r, t \in todo[w] : r = t
         /\ pc[w] \in {"merge", "flush"} => todo[w] = {}

\* The same for AcceptedIsTracked.
CleanInv == faults = 0 => \A m \in Msg :
              /\ sending[m] = "refused" => gate[m] = "none"
              /\ gate[m] # "none" /\ sending[m] = "ended" => row[m] \in Tracked
-----------------------------------------------------------------------------
\* test_parse_webhook_failed: "status": 11,  # UNDELIVERED is a failure.  A
\* message on record as delivered has reached its recipient.
DeliveredMeansReached ==
  \A m \in Msg : row[m] = "delivered" => gate[m] = "delivered"
=============================================================================
