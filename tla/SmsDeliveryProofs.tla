-------------------------- MODULE SmsDeliveryProofs --------------------------
(***************************************************************************)
(* Theorems about SmsDelivery: any number of messages, sessions and        *)
(* faults, and any size of a poll.                                         *)
(***************************************************************************)
EXTENDS SmsDelivery, WaitCirclesProofs

USE LimitsAssumption, PartiesAssumption

LEMMA UnaskedType ==
  ASSUME NEW S \in SUBSET Msg
  PROVE  Unasked(S) \subseteq Reports
BY DEF Unasked, Reports, Answers

LEMMA StartsType ==
  ASSUME TypeOK, NEW w \in Worker, NEW k \in {"webhook", "check", "poll"},
         NEW place \in {"ask", "next"}, NEW R \in SUBSET Reports,
         Starts(w, k, place, R), posts' \subseteq posts, faults' \in 0..MaxFaults
  PROVE  TypeOK'
BY DEF TypeOK, Starts, tableVars

LEMMA EndsType ==
  ASSUME TypeOK, NEW w \in Worker, Ends(w)
  PROVE  /\ kind' \in [Worker -> {"none", "webhook", "check", "poll"}]
         /\ pc' \in [Worker -> {"idle", "ask", "next", "merge", "flush"}]
         /\ todo' \in [Worker -> SUBSET Reports]
         /\ want' \in [Worker -> SUBSET Changes]
         /\ writes' \in [Worker -> [Msg -> Statuses]]
<1>1. [m \in Msg |-> "none"] \in [Msg -> Statuses]
  BY DEF Statuses
<1> QED
  BY <1>1 DEF TypeOK, Ends, Goto

LEMMA MarkedType ==
  ASSUME NEW c \in Answers, NEW seen \in Tracked, NEW k
  PROVE  Marked(k, c, seen) \in Tracked
BY DEF Marked, StatusOf, Final, Tracked, Answers, Codes

LEMMA InitIInv == Init => IInv /\ CleanInv
<1> SUFFICES ASSUME Init PROVE IInv /\ CleanInv
  OBVIOUS
<1> USE DEF Init
<1>1. TypeOK
  <2>1. writes \in [Worker -> [Msg -> Statuses]] /\ row \in [Msg -> Statuses]
    BY DEF Statuses
  <2> QED
    BY <2>1 DEF TypeOK
<1>2. ReportsAgree /\ ChangesAgree /\ RowTellsTruth /\ RowsEnded
  BY DEF ReportsAgree, ChangesAgree, RowTellsTruth, Agrees, RowsEnded
<1>3. KindsFit /\ ChangesFit /\ CleanInv
  BY DEF KindsFit, ChangesFit, CleanInv, Worker
<1> QED
  BY <1>1, <1>2, <1>3 DEF IInv
-----------------------------------------------------------------------------
\* What a worker that has finished with a report has done to the types.
LEMMA StepType ==
  ASSUME TypeOK, NEW w \in Worker,
         \/ Answer(w) \/ Merge(w) \/ Flush(w) \/ Commit(w) \/ DeadlockEnds(w)
         \/ AnswerFails(w) \/ Dies(w)
  PROVE  TypeOK'
<1> USE DEF tableVars, gatewayVars, Fault, Goto
<1>1. CASE Answer(w)
  <2>1. \A r \in todo[w] : [r EXCEPT !.code = gate[r.msg]] \in Reports
    BY DEF TypeOK, Reports, Answers
  <2>2. todo' \in [Worker -> SUBSET Reports]
    BY <1>1, <2>1 DEF TypeOK, Answer
  <2> QED
    BY <1>1, <2>2 DEF TypeOK, Answer
<1>2. CASE AnswerFails(w)
  <2>1. \A r \in todo[w] : [r EXCEPT !.code = "unknown"] \in Reports
    BY DEF TypeOK, Reports, Answers
  <2>2. todo' \in [Worker -> SUBSET Reports]
    BY <1>2, <2>1 DEF TypeOK, AnswerFails
  <2> QED
    BY <1>2, <2>2 DEF TypeOK, AnswerFails
<1>3. CASE Merge(w)
  BY <1>3 DEF TypeOK, Merge
<1>4. CASE Flush(w)
  <2>1. PICK x \in want[w] : writes' = [writes EXCEPT ![w][x.msg] = x.status]
    BY <1>4 DEF Flush
  <2>2. x.msg \in Msg /\ x.status \in Statuses
    BY DEF TypeOK, Changes
  <2>3. writes' \in [Worker -> [Msg -> Statuses]]
    BY <2>1, <2>2 DEF TypeOK
  <2> QED
    BY <1>4, <2>3 DEF TypeOK, Flush
<1>5. CASE Commit(w)
  <2>1. row' \in [Msg -> Statuses]
    BY <1>5 DEF TypeOK, Commit
  <2> QED
    BY <1>5, <2>1, EndsType DEF TypeOK, Commit
<1>6. CASE DeadlockEnds(w)
  BY <1>6, EndsType DEF TypeOK, DeadlockEnds
<1>7. CASE Dies(w)
  BY <1>7, EndsType DEF TypeOK, Dies
<1> QED
  BY <1>1, <1>2, <1>3, <1>4, <1>5, <1>6, <1>7

LEMMA TakeType ==
  ASSUME TypeOK, NEW w \in Worker, NEW r \in todo[w],
         Skip(w, r) \/ Load(w, r) \/ LoadPolled(w, r)
  PROVE  TypeOK'
<1> USE DEF tableVars, gatewayVars, Goto
<1>1. todo' \in [Worker -> SUBSET Reports] /\ r.msg \in Msg /\ r.code \in Answers
  <2>1. r \in Reports
    BY DEF TypeOK
  <2>2. Take(w, r)
    BY DEF Skip, Load, LoadPolled
  <2> QED
    BY <2>1, <2>2 DEF TypeOK, Take, Reports
<1>2. CASE Skip(w, r)
  BY <1>1, <1>2 DEF TypeOK, Skip
<1>3. CASE Load(w, r)
  <2>1. Marked(kind[w], r.code, row[r.msg]) \in Statuses
    BY <1>1, <1>3, MarkedType DEF Load, Found, Tracked, Final, Statuses
  <2>2. want' \in [Worker -> SUBSET Changes]
    BY <1>1, <1>3, <2>1 DEF TypeOK, Load, Changes
  <2> QED
    BY <1>1, <1>3, <2>2 DEF TypeOK, Load
<1>4. CASE LoadPolled(w, r)
  <2>1. want' \in [Worker -> SUBSET Changes]
    BY <1>1, <1>4 DEF TypeOK, LoadPolled, Changes, Final, Statuses
  <2> QED
    BY <1>1, <1>4, <2>1 DEF TypeOK, LoadPolled
<1> QED
  BY <1>2, <1>3, <1>4

LEMMA NextTypeOK == TypeOK /\ [Next]_vars => TypeOK'
<1> SUFFICES ASSUME TypeOK, [Next]_vars PROVE TypeOK'
  OBVIOUS
<1> USE DEF tableVars, gatewayVars, workerVars, Fault
<1>1. ASSUME NEW m \in Msg, Send(m) \/ SendFails(m) \/ Age(m) PROVE TypeOK'
  <2>1. CASE SendAccepted(m)
    BY <2>1 DEF TypeOK, SendAccepted, Codes
  <2>2. CASE SendUnanswered(m)
    <3>1. faults' \in 0..MaxFaults
      BY <2>2 DEF TypeOK, SendUnanswered
    <3> QED
      BY <2>2, <3>1 DEF TypeOK, SendUnanswered, Codes
  <2>3. CASE SendRefused(m) \/ SendDies(m)
    BY <2>3 DEF TypeOK, SendRefused, SendDies
  <2>4. CASE SendCommits(m)
    BY <2>4 DEF TypeOK, SendCommits, Statuses
  <2>5. CASE Age(m)
    BY <2>5 DEF TypeOK, Age
  <2> QED
    BY <1>1, <2>1, <2>2, <2>3, <2>4, <2>5 DEF Send, SendFails
<1>2. ASSUME NEW m \in Msg, NEW d \in Codes, Advance(m, d) PROVE TypeOK'
  BY <1>2 DEF TypeOK, Advance, Reports, Answers
<1>3. ASSUME NEW p \in posts, PostLost(p) PROVE TypeOK'
  BY <1>3 DEF TypeOK, PostLost
<1>4. ASSUME NEW s \in Session, NEW p \in posts, Webhook(s, p) \/ WebhookRepeats(s, p)
      PROVE  TypeOK'
  <2>1. {p} \in SUBSET Reports /\ s \in Worker
    BY DEF TypeOK, Worker
  <2>2. posts' \subseteq posts /\ faults' \in 0..MaxFaults
    BY <1>4 DEF TypeOK, Webhook, WebhookRepeats
  <2>3. Starts(s, "webhook", "next", {p})
    BY <1>4 DEF Webhook, WebhookRepeats
  <2> QED
    BY <2>1, <2>2, <2>3, StartsType
<1>5. ASSUME NEW s \in Session, NEW S \in SUBSET Msg, Check(s, S) PROVE TypeOK'
  <2>1. posts' \subseteq posts /\ faults' \in 0..MaxFaults
    BY <1>5 DEF TypeOK, Check
  <2> QED
    BY <1>5, <2>1, UnaskedType, StartsType DEF Check, Worker
<1>6. CASE Poll
  <2>1. PICK S \in SUBSET Pollable : Starts(Poller, "poll", "ask", Unasked(S))
    BY <1>6 DEF Poll
  <2>2. posts' \subseteq posts /\ faults' \in 0..MaxFaults
    BY <1>6 DEF TypeOK, Poll
  <2>3. S \in SUBSET Msg
    BY DEF Pollable
  <2> QED
    BY <2>1, <2>2, <2>3, UnaskedType, StartsType DEF Worker
<1>7. ASSUME NEW w \in Worker, Step(w) \/ AnswerFails(w) \/ Dies(w) PROVE TypeOK'
  BY <1>7, StepType, TakeType DEF Step
<1>8. CASE UNCHANGED vars
  BY <1>8 DEF TypeOK, vars
<1> QED
  BY <1>1, <1>2, <1>3, <1>4, <1>5, <1>6, <1>7, <1>8 DEF Next
-----------------------------------------------------------------------------
\* No row has a final status of a message the gateway does not have.
LEMMA NextRowsEnded == IInv /\ [Next]_vars => RowsEnded'
<1> SUFFICES ASSUME IInv, [Next]_vars, NEW m \in Msg
             PROVE  /\ sending'[m] = "idle" => gate'[m] = "none"
                    /\ sending'[m] # "ended" => row'[m] = "none"
  BY DEF RowsEnded
<1> USE DEF IInv, TypeOK, RowsEnded, tableVars, gatewayVars, workerVars
<1>1. ASSUME NEW n \in Msg, Send(n) \/ SendFails(n) \/ Age(n)
      PROVE  /\ sending'[m] = "idle" => gate'[m] = "none"
             /\ sending'[m] # "ended" => row'[m] = "none"
  <2>1. CASE SendAccepted(n) \/ SendUnanswered(n)
    BY <2>1 DEF SendAccepted, SendUnanswered
  <2>2. CASE SendRefused(n) \/ SendDies(n) \/ Age(n)
    BY <2>2 DEF SendRefused, SendDies, Age
  <2>3. CASE SendCommits(n)
    BY <2>3 DEF SendCommits
  <2> QED
    BY <1>1, <2>1, <2>2, <2>3 DEF Send, SendFails
<1>2. ASSUME NEW n \in Msg, NEW d \in Codes, Advance(n, d)
      PROVE  UNCHANGED <<sending, row>> /\ (gate[m] = "none" => gate'[m] = "none")
  BY <1>2 DEF Advance, Follows
<1>3. CASE \E p \in posts : \/ PostLost(p)
                            \/ \E s \in Session : Webhook(s, p) \/ WebhookRepeats(s, p)
  BY <1>3 DEF PostLost, Webhook, WebhookRepeats, Starts
<1>4. CASE (\E s \in Session, S \in SUBSET Msg : Check(s, S)) \/ Poll
  BY <1>4 DEF Check, Poll, Starts
<1>5. ASSUME NEW w \in Worker, Commit(w)
      PROVE  UNCHANGED <<sending, gate>> /\ (row'[m] # row[m] => sending[m] = "ended")
  BY <1>5 DEF Commit, ChangesFit
<1>6. ASSUME NEW w \in Worker, Step(w) \/ AnswerFails(w) \/ Dies(w), ~Commit(w)
      PROVE  UNCHANGED <<sending, gate, row>>
  BY <1>6 DEF Step, Answer, AnswerFails, Merge, Flush, DeadlockEnds, Dies, Skip, Load, LoadPolled
<1>7. CASE UNCHANGED vars
  BY <1>7 DEF vars
<1> QED
  BY <1>1, <1>2, <1>3, <1>4, <1>5, <1>6, <1>7 DEF Next

LEMMA NextKindsFit == IInv /\ [Next]_vars => KindsFit'
<1> SUFFICES ASSUME IInv, [Next]_vars PROVE KindsFit'
  OBVIOUS
<1> USE DEF IInv, TypeOK, KindsFit, tableVars, gatewayVars, workerVars, Goto
<1>1. ASSUME NEW w \in Worker, NEW k \in {"webhook", "check", "poll"}, NEW place, NEW R,
             Starts(w, k, place, R), k = "poll" <=> w = Poller
      PROVE  KindsFit'
  BY <1>1 DEF Starts
<1>2. ASSUME NEW p \in posts, NEW s \in Session, Webhook(s, p) \/ WebhookRepeats(s, p)
      PROVE  KindsFit'
  BY <1>1, <1>2 DEF Webhook, WebhookRepeats, Worker
<1>3. ASSUME NEW s \in Session, NEW S \in SUBSET Msg, Check(s, S) PROVE KindsFit'
  BY <1>1, <1>3 DEF Check, Worker
<1>4. CASE Poll
  BY <1>1, <1>4 DEF Poll, Worker
<1>5. ASSUME NEW w \in Worker, Step(w) \/ AnswerFails(w) \/ Dies(w) PROVE KindsFit'
  <2>1. CASE Ends(w)
    BY <2>1 DEF Ends
  <2>2. CASE Answer(w) \/ AnswerFails(w)
    BY <2>2 DEF Answer, AnswerFails
  <2>3. CASE Merge(w)
    BY <2>3 DEF Merge
  <2>4. CASE Flush(w)
    BY <2>4 DEF Flush
  <2>5. ASSUME NEW r \in todo[w], Skip(w, r) \/ Load(w, r) \/ LoadPolled(w, r)
        PROVE  KindsFit'
    BY <2>5 DEF Skip, Load, LoadPolled
  <2> QED
    BY <1>5, <2>1, <2>2, <2>3, <2>4, <2>5 DEF Step, Commit, DeadlockEnds, Dies
<1>6. CASE UNCHANGED <<kind, pc>>
  BY <1>6
<1>7. ASSUME NEW m \in Msg, Send(m) \/ SendFails(m) \/ Age(m) \/ \E d \in Codes : Advance(m, d)
      PROVE  UNCHANGED <<kind, pc>>
  BY <1>7 DEF Send, SendFails, SendAccepted, SendRefused, SendUnanswered, SendCommits,
              SendDies, Age, Advance
<1>8. ASSUME NEW p \in posts, PostLost(p) PROVE UNCHANGED <<kind, pc>>
  BY <1>8 DEF PostLost
<1>9. CASE UNCHANGED vars
  BY <1>6, <1>9 DEF vars
<1> QED
  BY <1>2, <1>3, <1>4, <1>5, <1>6, <1>7, <1>8, <1>9 DEF Next
-----------------------------------------------------------------------------
\* The gateway moves a message only as long as nothing final is said of it.
LEMMA AgreesStays ==
  ASSUME IInv, [Next]_vars, NEW CONSTANT m \in Msg, NEW CONSTANT st, Agrees(m, st)
  PROVE  Agrees(m, st)'
<1> USE DEF IInv, TypeOK, RowsEnded, tableVars, gatewayVars, workerVars
<1>1. gate'[m] = gate[m] \/ gate[m] \in {"none", "queued", "sent"}
  <2>1. ASSUME NEW n \in Msg, Send(n) \/ SendFails(n) \/ Age(n)
        PROVE  gate'[m] = gate[m] \/ gate[m] = "none"
    BY <2>1 DEF Send, SendFails, SendAccepted, SendRefused, SendUnanswered, SendCommits,
                SendDies, Age
  <2>2. ASSUME NEW n \in Msg, NEW d \in Codes, Advance(n, d)
        PROVE  gate'[m] = gate[m] \/ gate[m] \in {"queued", "sent"}
    BY <2>2 DEF Advance, Follows
  <2>3. CASE \E p \in posts : \/ PostLost(p)
                              \/ \E s \in Session : Webhook(s, p) \/ WebhookRepeats(s, p)
    BY <2>3 DEF PostLost, Webhook, WebhookRepeats, Starts
  <2>4. CASE (\E s \in Session, S \in SUBSET Msg : Check(s, S)) \/ Poll
    BY <2>4 DEF Check, Poll, Starts
  <2>5. ASSUME NEW w \in Worker, Step(w) \/ AnswerFails(w) \/ Dies(w) PROVE UNCHANGED gate
    BY <2>5 DEF Step, Answer, AnswerFails, Merge, Flush, Commit, DeadlockEnds, Dies,
                Skip, Load, LoadPolled
  <2>6. CASE UNCHANGED vars
    BY <2>6 DEF vars
  <2> QED
    BY <2>1, <2>2, <2>3, <2>4, <2>5, <2>6 DEF Next
<1> QED
  BY <1>1 DEF Agrees

LEMMA NextPostsAgree ==
  ASSUME IInv, [Next]_vars, NEW p \in posts'
  PROVE  Agrees(p.msg, StatusOf(p.code))'
<1> USE DEF IInv, TypeOK, tableVars, gatewayVars, workerVars
<1>1. CASE p \in posts
  BY <1>1, AgreesStays DEF ReportsAgree, Reports
<1>2. ASSUME NEW m \in Msg, NEW d \in Codes, Advance(m, d), p \notin posts
      PROVE  Agrees(p.msg, StatusOf(p.code))'
  BY <1>2 DEF Advance, Agrees, StatusOf
<1>3. ASSUME p \notin posts PROVE \E m \in Msg, d \in Codes : Advance(m, d)
  <2>1. ASSUME NEW n \in Msg, Send(n) \/ SendFails(n) \/ Age(n) PROVE UNCHANGED posts
    BY <2>1 DEF Send, SendFails, SendAccepted, SendRefused, SendUnanswered, SendCommits,
                SendDies, Age
  <2>2. ASSUME NEW q \in posts,
               PostLost(q) \/ \E s \in Session : Webhook(s, q) \/ WebhookRepeats(s, q)
        PROVE  posts' \subseteq posts
    BY <2>2 DEF PostLost, Webhook, WebhookRepeats
  <2>3. CASE (\E s \in Session, S \in SUBSET Msg : Check(s, S)) \/ Poll
    BY <1>3, <2>3 DEF Check, Poll
  <2>4. ASSUME NEW w \in Worker, Step(w) \/ AnswerFails(w) \/ Dies(w) PROVE UNCHANGED posts
    BY <2>4 DEF Step, Answer, AnswerFails, Merge, Flush, Commit, DeadlockEnds, Dies,
                Skip, Load, LoadPolled
  <2>5. CASE UNCHANGED vars
    BY <1>3, <2>5 DEF vars
  <2> QED
    BY <1>3, <2>1, <2>2, <2>3, <2>4, <2>5 DEF Next
<1> QED
  BY <1>1, <1>2, <1>3

\* A report is one that was there, a webhook call, one not yet asked for, or
\* what the gateway says now.
LEMMA NextTodoAgree ==
  ASSUME IInv, [Next]_vars, NEW w \in Worker, NEW r \in todo'[w]
  PROVE  Agrees(r.msg, StatusOf(r.code))'
<1> USE DEF IInv, TypeOK, tableVars, gatewayVars, workerVars
<1>1. r \in Reports /\ r.msg \in Msg
  BY NextTypeOK DEF Reports
<1>2. SUFFICES Agrees(r.msg, StatusOf(r.code))
  BY <1>1, AgreesStays
<1>3. CASE r \in todo[w] \/ r \in posts
  BY <1>3 DEF ReportsAgree
<1>4. CASE r.code \in {"unasked", "unknown"}
  BY <1>4 DEF Agrees, StatusOf
<1>5. CASE r.code = gate[r.msg]
  BY <1>1, <1>5 DEF Agrees, StatusOf
<1>6. \/ r \in todo[w] \/ r \in posts
      \/ r.code \in {"unasked", "unknown"} \/ r.code = gate[r.msg]
  <2>1. ASSUME NEW n \in Msg, Send(n) \/ SendFails(n) \/ Age(n) \/ \E d \in Codes : Advance(n, d)
        PROVE  UNCHANGED todo
    BY <2>1 DEF Send, SendFails, SendAccepted, SendRefused, SendUnanswered, SendCommits,
                SendDies, Age, Advance
  <2>2. ASSUME NEW q \in posts, PostLost(q) PROVE UNCHANGED todo
    BY <2>2 DEF PostLost
  <2>3. ASSUME NEW q \in posts, NEW s \in Session, Webhook(s, q) \/ WebhookRepeats(s, q)
        PROVE  r \in todo[w] \/ r \in posts
    <3>1. todo' = [todo EXCEPT ![s] = {q}]
      BY <2>3 DEF Webhook, WebhookRepeats, Starts
    <3> QED
      BY <3>1
  <2>4. CASE (\E s \in Session, S \in SUBSET Msg : Check(s, S)) \/ Poll
    <3>1. PICK v, S : todo' = [todo EXCEPT ![v] = Unasked(S)]
      BY <2>4 DEF Check, Poll, Starts
    <3> QED
      BY <3>1 DEF Unasked
  <2>5. ASSUME NEW v \in Worker, Step(v) \/ AnswerFails(v) \/ Dies(v)
        PROVE  r \in todo[w] \/ r.code = "unknown" \/ r.code = gate[r.msg]
    <3>1. CASE Answer(v)
      <4>1. CASE v = w
        <5>1. PICK q \in todo[w] : r = [q EXCEPT !.code = gate[q.msg]]
          BY <3>1, <4>1 DEF Answer
        <5>2. q \in Reports
          OBVIOUS
        <5> QED
          BY <5>1, <5>2 DEF Reports
      <4> QED
        BY <3>1, <4>1 DEF Answer
    <3>2. CASE AnswerFails(v)
      <4>1. CASE v = w
        <5>1. PICK q \in todo[w] : r = [q EXCEPT !.code = "unknown"]
          BY <3>2, <4>1 DEF AnswerFails
        <5>2. q \in Reports
          OBVIOUS
        <5> QED
          BY <5>1, <5>2 DEF Reports
      <4> QED
        BY <3>2, <4>1 DEF AnswerFails
    <3>3. CASE Ends(v)
      BY <3>3 DEF Ends
    <3>4. CASE Merge(v) \/ Flush(v)
      BY <3>4 DEF Merge, Flush
    <3>5. ASSUME NEW q \in todo[v], Skip(v, q) \/ Load(v, q) \/ LoadPolled(v, q)
          PROVE  r \in todo[w]
      BY <3>5 DEF Skip, Load, LoadPolled, Take
    <3> QED
      BY <2>5, <3>1, <3>2, <3>3, <3>4, <3>5 DEF Step, Commit, DeadlockEnds, Dies
  <2>6. CASE UNCHANGED vars
    BY <2>6 DEF vars
  <2> QED
    BY <2>1, <2>2, <2>3, <2>4, <2>5, <2>6 DEF Next
<1> QED
  BY <1>3, <1>4, <1>5, <1>6

LEMMA NextReportsAgree == IInv /\ [Next]_vars => ReportsAgree'
BY NextPostsAgree, NextTodoAgree DEF ReportsAgree
-----------------------------------------------------------------------------
\* Only Load and LoadPolled make a change, only Flush writes one.
LEMMA WantFrom ==
  ASSUME IInv, [Next]_vars, NEW w \in Worker, NEW x \in want'[w], x \notin want[w]
  PROVE  \E r \in todo[w] : Load(w, r) \/ LoadPolled(w, r)
<1> USE DEF IInv, TypeOK, tableVars, gatewayVars, workerVars
<1>1. ASSUME NEW n \in Msg, Send(n) \/ SendFails(n) \/ Age(n) \/ \E d \in Codes : Advance(n, d)
      PROVE  UNCHANGED want
  BY <1>1 DEF Send, SendFails, SendAccepted, SendRefused, SendUnanswered, SendCommits,
              SendDies, Age, Advance
<1>2. ASSUME NEW q \in posts,
             PostLost(q) \/ \E s \in Session : Webhook(s, q) \/ WebhookRepeats(s, q)
      PROVE  UNCHANGED want
  BY <1>2 DEF PostLost, Webhook, WebhookRepeats, Starts
<1>3. CASE (\E s \in Session, S \in SUBSET Msg : Check(s, S)) \/ Poll
  BY <1>3 DEF Check, Poll, Starts
<1>4. ASSUME NEW v \in Worker, Step(v) \/ AnswerFails(v) \/ Dies(v)
      PROVE  \E r \in todo[w] : Load(w, r) \/ LoadPolled(w, r)
  <2>1. CASE Answer(v) \/ AnswerFails(v)
    BY <2>1 DEF Answer, AnswerFails
  <2>2. CASE Merge(v)
    BY <2>2 DEF Merge
  <2>3. CASE Flush(v) \/ Ends(v)
    BY <2>3 DEF Flush, Ends
  <2>4. ASSUME NEW q \in todo[v], Skip(v, q) PROVE UNCHANGED want
    BY <2>4 DEF Skip
  <2>5. ASSUME NEW q \in todo[v], Load(v, q) \/ LoadPolled(v, q) PROVE v = w
    BY <2>5 DEF Load, LoadPolled
  <2> QED
    BY <1>4, <2>1, <2>2, <2>3, <2>4, <2>5 DEF Step, Commit, DeadlockEnds, Dies
<1>5. CASE UNCHANGED vars
  BY <1>5 DEF vars
<1> QED
  BY <1>1, <1>2, <1>3, <1>4, <1>5 DEF Next

LEMMA WritesFrom ==
  ASSUME IInv, [Next]_vars, NEW w \in Worker, NEW m \in Msg
  PROVE  \/ writes'[w][m] \in {writes[w][m], "none"}
         \/ \E x \in want[w] : x.msg = m /\ x.status = writes'[w][m]
<1> USE DEF IInv, TypeOK, tableVars, gatewayVars, workerVars
<1>1. ASSUME NEW n \in Msg, Send(n) \/ SendFails(n) \/ Age(n) \/ \E d \in Codes : Advance(n, d)
      PROVE  UNCHANGED writes
  BY <1>1 DEF Send, SendFails, SendAccepted, SendRefused, SendUnanswered, SendCommits,
              SendDies, Age, Advance
<1>2. ASSUME NEW q \in posts,
             PostLost(q) \/ \E s \in Session : Webhook(s, q) \/ WebhookRepeats(s, q)
      PROVE  UNCHANGED writes
  BY <1>2 DEF PostLost, Webhook, WebhookRepeats, Starts
<1>3. CASE (\E s \in Session, S \in SUBSET Msg : Check(s, S)) \/ Poll
  BY <1>3 DEF Check, Poll, Starts
<1>4. ASSUME NEW v \in Worker, Flush(v)
      PROVE  \/ writes'[w][m] = writes[w][m]
             \/ \E x \in want[w] : x.msg = m /\ x.status = writes'[w][m]
  <2>1. PICK x \in want[v] : writes' = [writes EXCEPT ![v][x.msg] = x.status]
    BY <1>4 DEF Flush
  <2>2. x.msg \in Msg
    BY DEF Changes
  <2> QED
    BY <2>1, <2>2
<1>5. ASSUME NEW v \in Worker, Ends(v) PROVE writes'[w][m] \in {writes[w][m], "none"}
  BY <1>5 DEF Ends
<1>6. ASSUME NEW v \in Worker, Step(v) \/ AnswerFails(v) \/ Dies(v), ~Flush(v), ~Ends(v)
      PROVE  UNCHANGED writes
  BY <1>6 DEF Step, Answer, AnswerFails, Merge, Commit, DeadlockEnds, Dies, Skip, Load, LoadPolled
<1>7. CASE UNCHANGED vars
  BY <1>7 DEF vars
<1> QED
  BY <1>1, <1>2, <1>3, <1>4, <1>5, <1>6, <1>7 DEF Next

LEMMA MarkedAgrees ==
  ASSUME NEW m, NEW k, NEW c, NEW seen, Agrees(m, StatusOf(c)), Agrees(m, seen)
  PROVE  Agrees(m, Marked(k, c, seen))
BY DEF Marked, Agrees

LEMMA NextChangesAgree == IInv /\ [Next]_vars => ChangesAgree'
<1> SUFFICES ASSUME IInv, [Next]_vars, NEW w \in Worker
             PROVE  /\ \A x \in want'[w] : Agrees(x.msg, x.status)'
                    /\ \A m \in Msg : Agrees(m, writes[w][m])'
  BY DEF ChangesAgree
<1>1. ASSUME NEW x \in want'[w] PROVE Agrees(x.msg, x.status)'
  <2>1. x.msg \in Msg
    BY NextTypeOK DEF IInv, TypeOK, Changes
  <2>2. SUFFICES Agrees(x.msg, x.status)
    BY <2>1, AgreesStays
  <2>3. CASE x \in want[w]
    BY <2>3 DEF IInv, ChangesAgree
  <2>4. CASE x \notin want[w]
    <3>1. PICK r \in todo[w] : Load(w, r) \/ LoadPolled(w, r)
      BY <2>4, WantFrom
    <3>2. r.msg \in Msg /\ Agrees(r.msg, StatusOf(r.code)) /\ Agrees(r.msg, row[r.msg])
      BY DEF IInv, TypeOK, Reports, ReportsAgree, RowTellsTruth
    <3>3. /\ x.msg = r.msg
          /\ x.status \in {Marked(kind[w], r.code, row[r.msg]), StatusOf(r.code)}
      BY <3>1 DEF IInv, TypeOK, Load, LoadPolled
    <3> QED
      BY <3>2, <3>3, MarkedAgrees
  <2> QED
    BY <2>3, <2>4
<1>2. ASSUME NEW m \in Msg PROVE Agrees(m, writes[w][m])'
  <2>1. SUFFICES ASSUME NEW CONSTANT st, st = writes'[w][m] PROVE Agrees(m, st)'
    BY DEF Agrees
  <2>2. CASE st = "none"
    BY <2>2 DEF Agrees
  <2>3. CASE st = writes[w][m]
    BY <2>3, AgreesStays DEF IInv, ChangesAgree
  <2>4. ASSUME NEW x \in want[w], x.msg = m, x.status = st PROVE Agrees(m, st)'
    BY <2>4, AgreesStays DEF IInv, ChangesAgree
  <2> QED
    BY <2>1, <2>2, <2>3, <2>4, WritesFrom
<1> QED
  BY <1>1, <1>2

\* A row is what it was, what its request makes of it, or what a worker wrote.
LEMMA RowFrom ==
  ASSUME IInv, [Next]_vars, NEW m \in Msg, row'[m] # row[m]
  PROVE  \/ row'[m] \in {"sent", "refused"} /\ row[m] = "none"
         \/ \E w \in Worker : Commit(w) /\ row'[m] = writes[w][m] /\ row'[m] # "none"
<1> USE DEF IInv, TypeOK, tableVars, gatewayVars, workerVars
<1>1. ASSUME NEW n \in Msg, Send(n) \/ SendFails(n) \/ Age(n) \/ \E d \in Codes : Advance(n, d)
      PROVE  row'[m] \in {"sent", "refused"} /\ row[m] = "none"
  <2>1. CASE SendCommits(n)
    BY <2>1 DEF SendCommits, RowsEnded
  <2> QED
    BY <1>1, <2>1 DEF Send, SendFails, SendAccepted, SendRefused, SendUnanswered,
                      SendDies, Age, Advance
<1>2. ASSUME NEW q \in posts,
             PostLost(q) \/ \E s \in Session : Webhook(s, q) \/ WebhookRepeats(s, q)
      PROVE  UNCHANGED row
  BY <1>2 DEF PostLost, Webhook, WebhookRepeats, Starts
<1>3. CASE (\E s \in Session, S \in SUBSET Msg : Check(s, S)) \/ Poll
  BY <1>3 DEF Check, Poll, Starts
<1>4. ASSUME NEW w \in Worker, Commit(w)
      PROVE  row'[m] = writes[w][m] /\ row'[m] # "none"
  BY <1>4 DEF Commit
<1>5. ASSUME NEW w \in Worker, Step(w) \/ AnswerFails(w) \/ Dies(w), ~Commit(w)
      PROVE  UNCHANGED row
  BY <1>5 DEF Step, Answer, AnswerFails, Merge, Flush, DeadlockEnds, Dies, Skip, Load, LoadPolled
<1>6. CASE UNCHANGED vars
  BY <1>6 DEF vars
<1> QED
  BY <1>1, <1>2, <1>3, <1>4, <1>5, <1>6 DEF Next

LEMMA NextRowTellsTruth == IInv /\ [Next]_vars => RowTellsTruth'
<1> SUFFICES ASSUME IInv, [Next]_vars, NEW m \in Msg, NEW CONSTANT st, st = row'[m]
             PROVE  Agrees(m, st)'
  BY DEF RowTellsTruth, Agrees
<1>1. CASE st = row[m]
  BY <1>1, AgreesStays DEF IInv, RowTellsTruth
<1>2. CASE st \in {"sent", "refused"}
  BY <1>2 DEF Agrees
<1>3. ASSUME NEW w \in Worker, st = writes[w][m] PROVE Agrees(m, st)'
  BY <1>3, AgreesStays DEF IInv, ChangesAgree
<1> QED
  BY <1>1, <1>2, <1>3, RowFrom
-----------------------------------------------------------------------------
LEMMA EndedStays ==
  ASSUME IInv, [Next]_vars, NEW m \in Msg, sending[m] = "ended"
  PROVE  sending'[m] = "ended"
<1> USE DEF IInv, TypeOK, tableVars, gatewayVars, workerVars
<1>1. ASSUME NEW n \in Msg, Send(n) \/ SendFails(n) \/ Age(n) \/ \E d \in Codes : Advance(n, d)
      PROVE  sending'[m] = "ended"
  BY <1>1 DEF Send, SendFails, SendAccepted, SendRefused, SendUnanswered, SendCommits,
              SendDies, Age, Advance
<1>2. ASSUME NEW q \in posts,
             PostLost(q) \/ \E s \in Session : Webhook(s, q) \/ WebhookRepeats(s, q)
      PROVE  UNCHANGED sending
  BY <1>2 DEF PostLost, Webhook, WebhookRepeats, Starts
<1>3. CASE (\E s \in Session, S \in SUBSET Msg : Check(s, S)) \/ Poll
  BY <1>3 DEF Check, Poll, Starts
<1>4. ASSUME NEW w \in Worker, Step(w) \/ AnswerFails(w) \/ Dies(w) PROVE UNCHANGED sending
  BY <1>4 DEF Step, Answer, AnswerFails, Merge, Flush, Commit, DeadlockEnds, Dies,
              Skip, Load, LoadPolled
<1>5. CASE UNCHANGED vars
  BY <1>5 DEF vars
<1> QED
  BY <1>1, <1>2, <1>3, <1>4, <1>5 DEF Next

\* The poll reads the messages it asks about from rows that are sent.
LEMMA PollTodo ==
  ASSUME IInv, [Next]_vars, NEW w \in Worker, kind'[w] = "poll", NEW r \in todo'[w]
  PROVE  sending[r.msg] = "ended"
<1> USE DEF IInv, TypeOK, tableVars, gatewayVars, workerVars
<1>1. CASE r \in todo[w] /\ kind'[w] = kind[w]
  BY <1>1 DEF ChangesFit
<1>2. ASSUME NEW n \in Msg, Send(n) \/ SendFails(n) \/ Age(n) \/ \E d \in Codes : Advance(n, d)
      PROVE  UNCHANGED <<kind, todo>>
  BY <1>2 DEF Send, SendFails, SendAccepted, SendRefused, SendUnanswered, SendCommits,
              SendDies, Age, Advance
<1>3. ASSUME NEW q \in posts, PostLost(q) PROVE UNCHANGED <<kind, todo>>
  BY <1>3 DEF PostLost
<1>4. ASSUME NEW v \in Worker, NEW k, NEW place, NEW R, Starts(v, k, place, R), k # "poll"
      PROVE  r \in todo[w] /\ kind'[w] = kind[w]
  BY <1>4 DEF Starts
<1>5. CASE \E q \in posts, s \in Session : Webhook(s, q) \/ WebhookRepeats(s, q)
  BY <1>1, <1>4, <1>5 DEF Webhook, WebhookRepeats, Worker
<1>6. CASE \E s \in Session, S \in SUBSET Msg : Check(s, S)
  BY <1>1, <1>4, <1>6 DEF Check, Worker
<1>7. CASE Poll
  <2>1. PICK S \in SUBSET Pollable : Starts(Poller, "poll", "ask", Unasked(S))
    BY <1>7 DEF Poll
  <2>2. CASE w = Poller
    <3>1. r.msg \in Pollable
      BY <2>1, <2>2 DEF Starts, Unasked
    <3> QED
      BY <3>1 DEF Pollable, RowsEnded
  <2>3. CASE w # Poller
    BY <1>1, <2>1, <2>3 DEF Starts
  <2> QED
    BY <2>2, <2>3
<1>8. ASSUME NEW v \in Worker, Step(v) \/ AnswerFails(v) \/ Dies(v)
      PROVE  kind'[w] = kind[w] /\ \E q \in todo[w] : r.msg = q.msg
  <2>1. CASE Answer(v) \/ AnswerFails(v)
    <3>1. kind'[w] = kind[w] /\ (v # w => todo'[w] = todo[w])
      BY <2>1 DEF Answer, AnswerFails
    <3>2. CASE v = w
      <4>1. PICK q \in todo[w] : \/ r = [q EXCEPT !.code = gate[q.msg]]
                                \/ r = [q EXCEPT !.code = "unknown"]
        BY <2>1, <3>2 DEF Answer, AnswerFails
      <4>2. q \in Reports
        OBVIOUS
      <4> QED
        BY <3>1, <4>1, <4>2 DEF Reports
    <3> QED
      BY <3>1, <3>2
  <2>2. CASE Merge(v) \/ Flush(v)
    BY <2>2 DEF Merge, Flush
  <2>3. CASE Ends(v)
    BY <2>3 DEF Ends
  <2>4. ASSUME NEW q \in todo[v], Skip(v, q) \/ Load(v, q) \/ LoadPolled(v, q)
        PROVE  r \in todo[w] /\ kind'[w] = kind[w]
    <3>1. todo' = [todo EXCEPT ![v] = @ \ {q}] /\ kind' = kind
      BY <2>4 DEF Skip, Load, LoadPolled, Take
    <3> QED
      BY <3>1
  <2> QED
    BY <1>8, <2>1, <2>2, <2>3, <2>4 DEF Step, Commit, DeadlockEnds, Dies
<1>9. CASE UNCHANGED vars
  BY <1>1, <1>9 DEF vars
<1>10. CASE \E v \in Worker : Step(v) \/ AnswerFails(v) \/ Dies(v)
  BY <1>8, <1>10 DEF ChangesFit
<1> QED
  BY <1>1, <1>2, <1>3, <1>5, <1>6, <1>7, <1>9, <1>10 DEF Next

LEMMA NextChangesFit == IInv /\ [Next]_vars => ChangesFit'
<1> SUFFICES ASSUME IInv, [Next]_vars, NEW w \in Worker
             PROVE  /\ kind'[w] = "poll" => \A r \in todo'[w] : sending'[r.msg] = "ended"
                    /\ \A x \in want'[w] :
                         /\ sending'[x.msg] = "ended"
                         /\ x.status \in IF w = Poller THEN Final ELSE Tracked
                    /\ \A m \in Msg : writes'[w][m] # "none" =>
                         /\ sending'[m] = "ended"
                         /\ writes'[w][m] \in IF w = Poller THEN Final ELSE Tracked
  BY DEF ChangesFit
<1>1. ASSUME NEW r \in todo'[w], kind'[w] = "poll" PROVE sending'[r.msg] = "ended"
  <2>1. r.msg \in Msg
    BY NextTypeOK DEF IInv, TypeOK, Reports
  <2> QED
    BY <1>1, <2>1, PollTodo, EndedStays
<1>2. ASSUME NEW x \in want'[w]
      PROVE  /\ sending'[x.msg] = "ended"
             /\ x.status \in IF w = Poller THEN Final ELSE Tracked
  <2>1. x.msg \in Msg
    BY NextTypeOK DEF IInv, TypeOK, Changes
  <2>2. CASE x \in want[w]
    BY <2>1, <2>2, EndedStays DEF IInv, ChangesFit
  <2>3. ASSUME NEW r \in todo[w], Load(w, r), x \notin want[w]
        PROVE  sending[x.msg] = "ended" /\ x.status \in Tracked /\ w # Poller
    <3>1. r.msg \in Msg /\ r.code \in Answers
      BY DEF IInv, TypeOK, Reports
    <3>2. x.msg = r.msg /\ x.status = Marked(kind[w], r.code, row[r.msg])
      BY <2>3 DEF IInv, TypeOK, Load
    <3>3. row[r.msg] \in Tracked
      BY <2>3 DEF Load, Found
    <3>4. sending[r.msg] = "ended"
      BY <3>1, <3>3 DEF IInv, RowsEnded, Tracked, Final
    <3>5. w # Poller
      BY <2>3 DEF IInv, KindsFit, Load
    <3> QED
      BY <3>1, <3>2, <3>3, <3>4, <3>5, MarkedType
  <2>4. ASSUME NEW r \in todo[w], LoadPolled(w, r), x \notin want[w]
        PROVE  sending[x.msg] = "ended" /\ x.status \in Final /\ w = Poller
    <3>1. x.msg = r.msg /\ x.status \in Final
      BY <2>4 DEF IInv, TypeOK, LoadPolled
    <3>2. sending[r.msg] = "ended" /\ w = Poller
      BY <2>4 DEF IInv, KindsFit, ChangesFit, LoadPolled
    <3> QED
      BY <3>1, <3>2
  <2> QED
    BY <2>1, <2>2, <2>3, <2>4, WantFrom, EndedStays
<1>3. ASSUME NEW m \in Msg, writes'[w][m] # "none"
      PROVE  /\ sending'[m] = "ended"
             /\ writes'[w][m] \in IF w = Poller THEN Final ELSE Tracked
  <2>1. CASE writes'[w][m] = writes[w][m]
    BY <1>3, <2>1, EndedStays DEF IInv, ChangesFit
  <2>2. ASSUME NEW x \in want[w], x.msg = m, x.status = writes'[w][m]
        PROVE  /\ sending'[m] = "ended"
               /\ writes'[w][m] \in IF w = Poller THEN Final ELSE Tracked
    BY <2>2, EndedStays DEF IInv, ChangesFit
  <2> QED
    BY <1>3, <2>1, <2>2, WritesFrom
<1> QED
  BY <1>1, <1>2, <1>3

LEMMA InvIInv == Spec => []IInv
<1>1. IInv /\ [Next]_vars => IInv'
  BY NextTypeOK, NextReportsAgree, NextChangesAgree, NextRowTellsTruth, NextRowsEnded,
     NextKindsFit, NextChangesFit DEF IInv
<1> QED
  BY InitIInv, <1>1, PTL DEF Spec
-----------------------------------------------------------------------------
(***************************************************************************)
(* The theorems.                                                           *)
(***************************************************************************)
\* Every row, report and change stays in its type, in particular a row has
\* one of the statuses of the code and no transaction counts a fault too many.
THEOREM SmsTypes == Spec => []TypeOK
BY InvIInv, PTL DEF IInv

\* For any number of messages and requests: whatever is lost, repeated, late
\* or dies, a row that is delivered or failed is one of which the gateway has
\* reported just that.
THEOREM RowsTellTheTruth == Spec => []RowTellsTruth
BY InvIInv, PTL DEF IInv

\* Without a fault each accepted message has a row with its id once its
\* request has ended, so that later reports find it.
THEOREM AcceptedAreTracked == Spec => []AcceptedIsTracked
<1>1. IInv /\ CleanInv /\ [Next]_vars => CleanInv'
  <2> SUFFICES ASSUME IInv, CleanInv, [Next]_vars, faults' = 0, NEW m \in Msg
               PROVE  /\ sending'[m] = "refused" => gate'[m] = "none"
                      /\ gate'[m] # "none" /\ sending'[m] = "ended" => row'[m] \in Tracked
    BY DEF CleanInv
  <2> USE DEF IInv, TypeOK, tableVars, gatewayVars, workerVars, Fault
  <2>1. ASSUME NEW n \in Msg, Send(n) \/ SendFails(n) \/ Age(n)
        PROVE  /\ faults = 0
               /\ sending'[m] = "refused" => gate'[m] = "none"
               /\ gate'[m] # "none" /\ sending'[m] = "ended" => row'[m] \in Tracked
    <3>1. CASE SendFails(n)
      BY <3>1 DEF SendFails, SendUnanswered, SendDies
    <3>2. CASE SendAccepted(n)
      BY <3>2 DEF SendAccepted, CleanInv
    <3>3. CASE SendRefused(n)
      BY <3>3 DEF SendRefused, CleanInv, RowsEnded
    <3>4. CASE SendCommits(n)
      BY <3>4 DEF SendCommits, CleanInv, Tracked
    <3>5. CASE Age(n)
      BY <3>5 DEF Age, CleanInv
    <3> QED
      BY <2>1, <3>1, <3>2, <3>3, <3>4, <3>5 DEF Send
  <2>2. ASSUME NEW n \in Msg, NEW d \in Codes, Advance(n, d)
        PROVE  /\ faults = 0 /\ UNCHANGED <<sending, row>>
               /\ gate[m] = "none" <=> gate'[m] = "none"
    BY <2>2 DEF Advance, Follows, Codes
  <2>3. ASSUME NEW p \in posts,
               PostLost(p) \/ \E s \in Session : Webhook(s, p) \/ WebhookRepeats(s, p)
        PROVE  faults = 0 /\ UNCHANGED <<sending, row, gate>>
    BY <2>3 DEF PostLost, Webhook, WebhookRepeats, Starts
  <2>4. CASE (\E s \in Session, S \in SUBSET Msg : Check(s, S)) \/ Poll
    <3>1. faults = 0 /\ UNCHANGED <<sending, row, gate>>
      BY <2>4 DEF Check, Poll, Starts
    <3> QED
      BY <3>1 DEF CleanInv
  <2>5. ASSUME NEW w \in Worker, Commit(w)
        PROVE  /\ faults = 0 /\ UNCHANGED <<sending, gate>>
               /\ row'[m] # row[m] => row'[m] \in Tracked
    BY <2>5 DEF Commit, ChangesFit, Tracked
  <2>6. ASSUME NEW w \in Worker, Step(w) \/ AnswerFails(w) \/ Dies(w), ~Commit(w)
        PROVE  faults = 0 /\ UNCHANGED <<sending, row, gate>>
    BY <2>6 DEF Step, Answer, AnswerFails, Merge, Flush, DeadlockEnds, Dies, Skip, Load, LoadPolled
  <2>7. CASE UNCHANGED vars
    BY <2>7 DEF vars, CleanInv
  <2> QED
    BY <2>1, <2>2, <2>3, <2>4, <2>5, <2>6, <2>7 DEF Next, CleanInv
<1>2. CleanInv => AcceptedIsTracked
  BY DEF CleanInv, AcceptedIsTracked
<1> QED
  BY InitIInv, InvIInv, <1>1, <1>2, PTL DEF Spec

\* The poll never takes back a final status, however long its call to the
\* gateway takes: only the commit of a webhook or a check that has written
\* "sent" does.
THEOREM PollsOnlyAdvance == Spec => PollOnlyAdvances
<1>1. ASSUME IInv, [Next]_vars
      PROVE  [\A m \in Msg : row[m] \in Final /\ row'[m] \notin Final =>
                \E s \in Session : pc[s] = "next" /\ writes[s][m] = "sent"]_vars
  <2> SUFFICES ASSUME NEW m \in Msg, row[m] \in Final, row'[m] \notin Final
               PROVE  \E s \in Session : pc[s] = "next" /\ writes[s][m] = "sent"
    OBVIOUS
  <2>1. PICK w \in Worker : /\ Commit(w)
                            /\ row'[m] = writes[w][m] /\ row'[m] # "none"
    BY <1>1, RowFrom DEF Final
  <2>2. writes[w][m] = "sent" /\ w # Poller
    BY <1>1, <2>1 DEF IInv, ChangesFit, Tracked
  <2> QED
    BY <2>1, <2>2 DEF Worker, Commit
<1> QED
  BY InvIInv, <1>1, PTL DEF Spec, PollOnlyAdvances
-----------------------------------------------------------------------------
(* Transactions that wait for each other, and transactions that advance. *)

\* A transaction on a circle waits, and another waits for a row it has written.
LEMMA CirclesWait ==
  ASSUME NEW w \in Worker, Deadlocked(w)
  PROVE  pc[w] = "flush" /\ \E v \in Worker : WaitsFor(v, w)
<1> DEFINE waits == {e \in Worker \X Worker : WaitsFor(e[1], e[2])}
<1>1. OnCircle(w, Worker, waits) /\ <<w, w>> \notin waits
  BY DEF Deadlocked, WaitsFor
<1>2. (\E v \in Worker : <<w, v>> \in waits) /\ (\E u \in Worker : <<u, w>> \in waits)
  <2> HIDE DEF waits
  <2> QED
    BY <1>1, CircleNeighbours
<1> QED
  BY <1>2 DEF WaitsFor

\* A step of a transaction, or its loss, brings it closer to its end and
\* leaves the others where they are.
LEMMA StepAdvances ==
  ASSUME TypeOK, KindsFit, NEW w \in Worker, Step(w) \/ AnswerFails(w) \/ Dies(w)
  PROVE  /\ pc[w] # "idle" /\ Closer(Work(w)', Work(w))
         /\ \A v \in Worker \ {w} : Work(v)' = Work(v)
<1> USE DEF TypeOK, Goto, Work, Closer, PhasesLeft, StepsLeft
<1>1. CASE Answer(w) \/ AnswerFails(w)
  <2>1. pc[w] = "ask" /\ pc' = [pc EXCEPT ![w] = "next"] /\ want' = want
    BY <1>1 DEF Answer, AnswerFails
  <2>2. \A v \in Worker \ {w} : todo'[v] = todo[v]
    BY <1>1 DEF Answer, AnswerFails
  <2> QED
    BY <2>1, <2>2
<1>2. CASE Merge(w)
  <2>1. PICK x \in want[w] :
          IF row[x.msg] = x.status
          THEN pc' = [pc EXCEPT ![w] = "next"] /\ want' = [want EXCEPT ![w] = {}]
          ELSE pc' = [pc EXCEPT ![w] = "flush"] /\ want' = want
    BY <1>2 DEF Merge
  <2>2. pc[w] = "merge" /\ todo' = todo
    BY <1>2 DEF Merge
  <2> QED
    BY <2>1, <2>2
<1>3. CASE Flush(w)
  <2>1. /\ pc[w] = "flush" /\ pc' = [pc EXCEPT ![w] = "next"] /\ todo' = todo
        /\ want' = [want EXCEPT ![w] = {}]
    BY <1>3 DEF Flush
  <2> QED
    BY <2>1
<1>4. ASSUME NEW r \in todo[w], Skip(w, r) \/ Load(w, r) \/ LoadPolled(w, r)
      PROVE  /\ pc[w] # "idle" /\ Closer(Work(w)', Work(w))
                 /\ \A v \in Worker \ {w} : Work(v)' = Work(v)
  <2>1. pc[w] = "next" /\ todo' = [todo EXCEPT ![w] = todo[w] \ {r}]
    BY <1>4 DEF Skip, Load, LoadPolled, Take
  <2>2. /\ todo'[w] \subseteq todo[w] /\ todo'[w] # todo[w]
        /\ \A v \in Worker \ {w} : todo'[v] = todo[v]
    BY <2>1, <1>4
  <2>3. CASE Skip(w, r)
    BY <2>1, <2>2, <2>3 DEF Skip
  <2>4. CASE Load(w, r)
    <3>1. pc' = [pc EXCEPT ![w] = "merge"]
      BY <2>4 DEF Load
    <3> QED
      BY <2>1, <2>2, <3>1
  <2>5. CASE LoadPolled(w, r)
    <3>1. pc' = [pc EXCEPT ![w] = "flush"]
      BY <2>5 DEF LoadPolled
    <3> QED
      BY <2>1, <2>2, <3>1
  <2> QED
    BY <1>4, <2>3, <2>4, <2>5
<1>5. CASE Commit(w) \/ DeadlockEnds(w) \/ Dies(w)
  <2>1. pc[w] # "idle"
    BY <1>5, CirclesWait DEF Commit, DeadlockEnds, Dies
  <2>2. Ends(w)
    BY <1>5 DEF Commit, DeadlockEnds, Dies
  <2>3. /\ pc' = [pc EXCEPT ![w] = "idle"]
        /\ todo' = [todo EXCEPT ![w] = {}] /\ want' = [want EXCEPT ![w] = {}]
    BY <2>2 DEF Ends
  <2> QED
    BY <2>1, <2>3
<1> QED
  BY <1>1, <1>2, <1>3, <1>4, <1>5 DEF Step

\* The other steps start a transaction or leave all where they are.
LEMMA OthersLeave ==
  ASSUME TypeOK, [Next]_vars, NEW w \in Worker,
         ~\E v \in Worker : Step(v) \/ AnswerFails(v) \/ Dies(v)
  PROVE  \/ Work(w)' = Work(w)
         \/ pc[w] = "idle" /\ pc'[w] \in {"ask", "next"}
<1> USE DEF workerVars, Work
<1>1. ASSUME NEW v \in Worker, NEW k, NEW place \in {"ask", "next"}, NEW reports,
             Starts(v, k, place, reports)
      PROVE  \/ Work(w)' = Work(w)
             \/ pc[w] = "idle" /\ pc'[w] \in {"ask", "next"}
  BY <1>1 DEF Starts, TypeOK
<1>2. CASE \/ UNCHANGED vars
           \/ \E m \in Msg : Send(m) \/ SendFails(m) \/ Age(m) \/ \E d \in Codes : Advance(m, d)
           \/ \E p \in posts : PostLost(p)
  BY <1>2 DEF vars, Send, SendFails, SendAccepted, SendRefused, SendUnanswered, SendCommits,
              SendDies, Age, Advance, PostLost
<1>3. ASSUME NEW p \in posts, NEW s \in Session, Webhook(s, p) \/ WebhookRepeats(s, p)
      PROVE  \/ Work(w)' = Work(w)
             \/ pc[w] = "idle" /\ pc'[w] \in {"ask", "next"}
  BY <1>1, <1>3 DEF Webhook, WebhookRepeats, Worker
<1>4. ASSUME NEW s \in Session, NEW S \in SUBSET Msg, Check(s, S)
      PROVE  \/ Work(w)' = Work(w)
             \/ pc[w] = "idle" /\ pc'[w] \in {"ask", "next"}
  BY <1>1, <1>4 DEF Check, Worker
<1>5. CASE Poll
  BY <1>1, <1>5 DEF Poll, Worker
<1> QED
  BY <1>2, <1>3, <1>4, <1>5 DEF Next

\* A webhook has one report, and nothing written before it has loaded it.
LEMMA NextWebhooksFit == IInv /\ WebhooksFit /\ [Next]_vars => WebhooksFit'
<1> SUFFICES ASSUME IInv, WebhooksFit, [Next]_vars, NEW w \in Worker
             PROVE  WebhooksFit!(w)'
  BY DEF WebhooksFit
<1> USE DEF IInv, TypeOK, workerVars, Goto
<1>1. WebhooksFit!(w)
  BY DEF WebhooksFit
<1>2. CASE UNCHANGED <<kind[w], pc[w], todo[w], writes[w]>>
  BY <1>1, <1>2
<1>3. ASSUME NEW v \in Worker, NEW k, NEW place \in {"ask", "next"}, NEW reports,
             Starts(v, k, place, reports), k = "webhook" => place = "next" /\ \E p : reports = {p}
      PROVE  WebhooksFit!(w)'
  <2>1. CASE v # w
    BY <1>2, <1>3, <2>1 DEF Starts
  <2>2. CASE v = w
    <3>1. /\ kind'[w] = k /\ pc'[w] = place /\ todo'[w] = reports /\ writes'[w] = writes[w]
          /\ pc[w] = "idle"
      BY <1>3, <2>2 DEF Starts
    <3> QED
      BY <1>1, <1>3, <3>1
  <2> QED
    BY <2>1, <2>2
<1>4. ASSUME NEW v \in Worker, Step(v) \/ AnswerFails(v) \/ Dies(v)
      PROVE  WebhooksFit!(w)'
  <2>1. CASE v # w
    <3>1. UNCHANGED <<kind[w], pc[w], todo[w], writes[w]>>
      <4>1. CASE Ends(v)
        BY <2>1, <4>1 DEF Ends
      <4>2. CASE Answer(v) \/ AnswerFails(v) \/ Merge(v)
        BY <2>1, <4>2 DEF Answer, AnswerFails, Merge
      <4>3. CASE Flush(v)
        BY <2>1, <4>3 DEF Flush
      <4>4. ASSUME NEW r \in todo[v], Skip(v, r) \/ Load(v, r) \/ LoadPolled(v, r)
            PROVE  UNCHANGED <<kind[w], pc[w], todo[w], writes[w]>>
        BY <2>1, <4>4 DEF Skip, Load, LoadPolled, Take
      <4> QED
        BY <1>4, <4>1, <4>2, <4>3, <4>4 DEF Step, Commit, DeadlockEnds, Dies
    <3> QED
      BY <1>2, <3>1
  <2>2. CASE v = w
    <3>1. CASE Ends(w)
      BY <3>1 DEF Ends
    <3>2. CASE Answer(w) \/ AnswerFails(w)
      <4>1. pc[w] = "ask" /\ kind'[w] = kind[w] /\ pc'[w] = "next" /\ writes'[w] = writes[w]
        BY <3>2 DEF Answer, AnswerFails
      <4> QED
        BY <1>1, <4>1
    <3>3. CASE Merge(w)
      <4>1. /\ pc[w] = "merge" /\ kind'[w] = kind[w] /\ todo'[w] = todo[w]
            /\ writes'[w] = writes[w] /\ pc'[w] \in {"next", "flush"}
        BY <3>3 DEF Merge
      <4> QED
        BY <1>1, <4>1
    <3>4. CASE Flush(w)
      <4>1. /\ pc[w] = "flush" /\ kind'[w] = kind[w] /\ todo'[w] = todo[w] /\ pc'[w] = "next"
        BY <3>4 DEF Flush
      <4> QED
        BY <1>1, <4>1
    <3>5. ASSUME NEW r \in todo[w], Skip(w, r) \/ Load(w, r) \/ LoadPolled(w, r)
          PROVE  WebhooksFit!(w)'
      <4>1. /\ pc[w] = "next" /\ kind'[w] = kind[w] /\ todo'[w] = todo[w] \ {r}
            /\ writes'[w] = writes[w] /\ pc'[w] \in {"next", "merge", "flush"}
        BY <3>5 DEF Skip, Load, LoadPolled, Take
      <4> QED
        BY <1>1, <4>1
    <3> QED
      BY <1>4, <2>2, <3>1, <3>2, <3>3, <3>4, <3>5 DEF Step, Commit, DeadlockEnds, Dies
  <2> QED
    BY <2>1, <2>2
<1>5. CASE \/ UNCHANGED vars
           \/ \E m \in Msg : Send(m) \/ SendFails(m) \/ Age(m) \/ \E d \in Codes : Advance(m, d)
           \/ \E p \in posts : PostLost(p)
  <2>1. UNCHANGED workerVars
    BY <1>5 DEF vars, Send, SendFails, SendAccepted, SendRefused, SendUnanswered, SendCommits,
                SendDies, Age, Advance, PostLost
  <2> QED
    BY <1>2, <2>1
<1>6. ASSUME NEW p \in posts, NEW s \in Session, Webhook(s, p) \/ WebhookRepeats(s, p)
      PROVE  WebhooksFit!(w)'
  BY <1>3, <1>6 DEF Webhook, WebhookRepeats, Worker
<1>7. ASSUME NEW s \in Session, NEW S \in SUBSET Msg, Check(s, S) PROVE WebhooksFit!(w)'
  BY <1>3, <1>7 DEF Check, Worker
<1>8. CASE Poll
  BY <1>3, <1>8 DEF Poll, Worker
<1> QED
  BY <1>4, <1>5, <1>6, <1>7, <1>8 DEF Next

\* No webhook is ended by a deadlock, for any number of messages and requests
\* and any orders in which checks and polls lock their rows.
THEOREM WebhooksAreNoVictims == Spec => []WebhookIsNoVictim
<1>1. Init => WebhooksFit
  BY DEF Init, WebhooksFit
<1>2. IInv /\ WebhooksFit => WebhookIsNoVictim
  <2> SUFFICES ASSUME WebhooksFit, TypeOK, NEW w \in Worker, kind[w] = "webhook", Deadlocked(w)
               PROVE  FALSE
    BY DEF IInv, WebhookIsNoVictim
  <2>1. \A m \in Msg : writes[w][m] = "none"
    BY CirclesWait DEF WebhooksFit
  <2>2. PICK v \in Worker : WaitsFor(v, w)
    BY CirclesWait
  <2>3. want[v] \subseteq Changes
    BY DEF TypeOK
  <2> QED
    BY <2>1, <2>2, <2>3 DEF WaitsFor, Changes
<1> QED
  BY InvIInv, NextWebhooksFit, <1>1, <1>2, PTL DEF Spec

LEMMA LeastOfThree ==
  ASSUME NEW C, C \subseteq 0..2, C # {}
  PROVE  \E k \in C : \A t \in C : k <= t
<1>1. CASE 0 \in C
  BY <1>1
<1>2. CASE 0 \notin C /\ 1 \in C
  BY <1>2
<1>3. CASE 0 \notin C /\ 1 \notin C
  <2>1. \A t \in C : t = 2
    BY <1>3
  <2>2. PICK k \in C : TRUE
    OBVIOUS
  <2> QED
    BY <2>1, <2>2
<1> QED
  BY <1>1, <1>2, <1>3

\* Coming closer to the end is well founded, for finitely many reports.
LEMMA WorkIsFinite == IsWellFoundedOn({e \in Works \X Works : Closer(e[1], e[2])}, Works)
<1> DEFINE R == {e \in Works \X Works : Closer(e[1], e[2])}
<1>1. IsFiniteSet(Reports)
  <2> DEFINE f == [x \in Msg \X Answers |-> [msg |-> x[1], code |-> x[2]]]
  <2>1. IsFiniteSet(Answers)
    <3>1. Answers = {"queued", "sent", "delivered", "undelivered", "failed",
                     "none", "unasked", "unknown"}
      BY DEF Answers, Codes
    <3>2. \A T, x : IsFiniteSet(T) => IsFiniteSet(T \cup {x})
      BY FS_AddElement
    <3>3. IsFiniteSet((({"queued"} \cup {"sent"}) \cup {"delivered"}) \cup {"undelivered"})
      BY <3>2, FS_Singleton
    <3>4. IsFiniteSet((({"failed"} \cup {"none"}) \cup {"unasked"}) \cup {"unknown"})
      BY <3>2, FS_Singleton
    <3>5. Answers = ((({"queued"} \cup {"sent"}) \cup {"delivered"}) \cup {"undelivered"})
                    \cup ((({"failed"} \cup {"none"}) \cup {"unasked"}) \cup {"unknown"})
      BY <3>1
    <3> QED
      BY <3>3, <3>4, <3>5, FS_Union
  <2>2. IsFiniteSet(Msg \X Answers)
    BY <2>1, FiniteAssumption, FS_Product
  <2>3. f \in Surjection(Msg \X Answers, Reports)
    <3>1. \A r \in Reports : <<r.msg, r.code>> \in Msg \X Answers /\ f[<<r.msg, r.code>>] = r
      BY DEF Reports
    <3>2. f \in [Msg \X Answers -> Reports]
      BY DEF Reports
    <3> QED
      BY <3>1, <3>2 DEF Surjection
  <2> QED
    BY <2>2, <2>3, FS_Surjection DEF ExistsSurjection
<1>2. ASSUME NEW T \in SUBSET Works, T # {}
      PROVE  \E a \in T : \A b \in T : ~Closer(b, a)
  <2>1. PICK n \in {PhasesLeft(a.pc) : a \in T} :
           \A t \in {PhasesLeft(a.pc) : a \in T} : n <= t
    <3> DEFINE C == {PhasesLeft(a.pc) : a \in T}
    <3>1. C \subseteq 0..2 /\ C # {}
      BY <1>2 DEF PhasesLeft
    <3>2. \E k \in C : \A t \in C : k <= t
      <4> HIDE DEF C
      <4> QED
        BY <3>1, LeastOfThree
    <3> QED
      BY <3>2
  <2> DEFINE U == {a \in T : PhasesLeft(a.pc) = n}
  <2>2. PICK left \in {a.todo : a \in U} :
           \A t \in {a.todo : a \in U} : t \subseteq left => t = left
    <3> DEFINE C == {a.todo : a \in U}
    <3>1. C \subseteq SUBSET Reports /\ C # {}
      BY <1>2, <2>1 DEF Works
    <3>2. \E S \in C : \A t \in C : t \subseteq S => t = S
      <4> HIDE DEF C
      <4> QED
        BY <1>1, <3>1, SmallestSet
    <3> QED
      BY <3>2
  <2> DEFINE V == {a \in U : a.todo = left}
  <2>3. PICK k \in {StepsLeft(a.pc) : a \in V} :
           \A t \in {StepsLeft(a.pc) : a \in V} : k <= t
    <3> DEFINE C == {StepsLeft(a.pc) : a \in V}
    <3>1. C \subseteq 0..2 /\ C # {}
      BY <2>2 DEF StepsLeft
    <3>2. \E i \in C : \A t \in C : i <= t
      <4> HIDE DEF C
      <4> QED
        BY <3>1, LeastOfThree
    <3> QED
      BY <3>2
  <2>4. PICK a \in V : StepsLeft(a.pc) = k
    BY <2>3
  <2>5. ASSUME NEW b \in T, Closer(b, a) PROVE FALSE
    <3>1. PhasesLeft(b.pc) = n
      BY <2>1, <2>4, <2>5 DEF Closer, PhasesLeft
    <3>2. b.todo = left
      BY <2>2, <2>4, <2>5, <3>1 DEF Closer
    <3>3. StepsLeft(b.pc) < k /\ k <= StepsLeft(b.pc)
      BY <2>3, <2>4, <2>5, <3>1, <3>2 DEF Closer
    <3> QED
      BY <2>4, <3>3 DEF StepsLeft
  <2> QED
    BY <2>4, <2>5
<1>3. ASSUME NEW T, T \subseteq Works, T # {}
      PROVE  \E a \in T : \A b \in T : <<b, a>> \notin R
  BY <1>2, <1>3
<1> QED
  BY <1>3, MinWF

\* Every step of a webhook, check or poll brings it closer to its end, nothing
\* takes it back, and it cannot come closer for ever.
THEOREM WorkOnlyAdvances ==
  /\ Spec => WorkAdvances
  /\ IsWellFoundedOn({e \in Works \X Works : Closer(e[1], e[2])}, Works)
<1>1. IInv /\ [Next]_vars =>
        [\A w \in Worker : pc[w] # "idle" =>
           /\ Step(w) => Closer(Work(w)', Work(w))
           /\ UNCHANGED Work(w) \/ Closer(Work(w)', Work(w))]_vars
  <2> SUFFICES ASSUME IInv, [Next]_vars, NEW w \in Worker, pc[w] # "idle"
               PROVE  /\ Step(w) => Closer(Work(w)', Work(w))
                      /\ UNCHANGED Work(w) \/ Closer(Work(w)', Work(w))
    OBVIOUS
  <2>1. CASE Step(w) \/ AnswerFails(w) \/ Dies(w)
    BY <2>1, StepAdvances DEF IInv
  <2>2. ASSUME NEW v \in Worker, v # w, Step(v) \/ AnswerFails(v) \/ Dies(v)
        PROVE  UNCHANGED Work(w)
    BY <2>2, StepAdvances DEF IInv
  <2>3. CASE ~\E v \in Worker : Step(v) \/ AnswerFails(v) \/ Dies(v)
    BY <2>3, OthersLeave DEF IInv
  <2> QED
    BY <2>1, <2>2, <2>3
<1>2. Spec => WorkAdvances
  BY InvIInv, <1>1, PTL DEF Spec, WorkAdvances
<1> QED
  BY <1>2, WorkIsFinite
=============================================================================
