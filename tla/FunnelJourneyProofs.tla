------------------------- MODULE FunnelJourneyProofs -------------------------
(***************************************************************************)
(* Theorems about FunnelJourney: any number of journeys, stages, requests  *)
(* and faults.  The invariant rests on the order in which a journey goes   *)
(* through its stages, and on every writer of the row saying truthfully    *)
(* whether a journey is at the stage it writes.                            *)
(***************************************************************************)
EXTENDS FunnelJourney, FiniteSetTheorems, TLAPS

USE StagesAssumption, NobodyAssumption, NamesAssumption, BoundsAssumption

LEMMA StageFacts == /\ 0 \in Stages /\ EventNames \subseteq Stages
                    /\ \A e \in EventNames : e - 1 \in Stages /\ e - 1 < e /\ (e - 1) + 1 = e
                    /\ \A k \in Stages : k \in Int /\ (k < Last => k + 1 \in EventNames)
BY DEF Stages, EventNames

LEMMA InitIInv == Init => IInv
<1> SUFFICES ASSUME Init PROVE IInv
  OBVIOUS
<1>1. \A t \in Tasks : outcome[t] = "none"
  BY DEF Init, Process!TaskInit
<1>2. TypeOK
  BY StageFacts DEF Init, Process!TaskInit, Process!Outcomes, TypeOK, Idle, Requests, Names, Values
<1>3. \A p \in Journey, k \in Stages : ~Reached(p, k)
  BY <1>1 DEF Reached, Tasks
<1>4. InOrder /\ EffectsFit
  BY <1>1, <1>3 DEF Init, Process!TaskInit, InOrder, EffectsFit, Tasks
<1>5. RequestsFit
  BY DEF Init, RequestsFit, Idle
<1>6. RowFits
  BY <1>3 DEF RowFits, At
<1> QED
  BY <1>2, <1>4, <1>5, <1>6 DEF IInv

\* A journey is at one stage at most.
LEMMA AtOne ==
  ASSUME IInv, NEW p \in Journey, NEW k \in Stages, NEW l \in Stages, At(p, k), At(p, l)
  PROVE  k = l
<1> SUFFICES ASSUME NEW x \in Stages, NEW y \in Stages, At(p, x), Reached(p, y), x < y
             PROVE  FALSE
  BY StageFacts DEF At
<1>1. x < Last /\ x + 1 \in Stages /\ x + 1 <= y
  BY DEF Stages
<1>2. ~Reached(p, x + 1)
  BY <1>1 DEF At
<1>3. x + 1 < y
  BY <1>1, <1>2, StageFacts
<1>4. outcome[<<p, x + 1>>] = "completed"
  BY <1>1, <1>3 DEF IInv, InOrder
<1> QED
  BY <1>2, <1>4 DEF Reached

\* A journey that has reached a stage has been started.
LEMMA ReachedStarted ==
  ASSUME IInv, NEW p \in Journey, NEW k \in Stages, Reached(p, k)
  PROVE  Started(p)
<1>1. CASE k = 0
  BY <1>1 DEF Reached, Started
<1>2. CASE k # 0
  <2>1. 0 \in Stages /\ 0 < k
    BY <1>2, StageFacts DEF Stages
  <2>2. outcome[<<p, 0>>] = "completed"
    BY <2>1 DEF IInv, InOrder
  <2> QED
    BY <2>2 DEF Started
<1> QED
  BY <1>1, <1>2

\* The stage of a request, and the idle request, are what TypeOK asks for.
LEMMA RequestFacts ==
  /\ Idle \in Requests /\ Idle.pc = "idle"
  /\ EventNames \subseteq Names /\ Stages \subseteq Names /\ Names \subseteq Values
BY StageFacts DEF Idle, Requests, Names, Values

-----------------------------------------------------------------------------
(* The steps. *)

\* A task that has arrived ends, runs out of retries or gets new ones.
LEMMA EndsKeeps ==
  ASSUME IInv, NEW p \in Journey, NEW k \in Stages, NEW as \in Process!Outcomes \ {"none"},
         outcome[<<p, k>>] \in {"pending", "incident"}, as = "completed" => <<p, k>> \in effect,
         outcome' = [outcome EXCEPT ![<<p, k>>] = as],
         UNCHANGED <<row, rowLock, req, effect, value, deleted, disturbed>>,
         begun' \in Nat, faults' \in Nat
  PROVE  IInv'
<1> USE DEF IInv
<1>1. <<p, k>> \in Tasks /\ outcome \in [Tasks -> Process!Outcomes]
  BY DEF Tasks, TypeOK
<1>2. \A t \in Tasks : outcome'[t] = IF t = <<p, k>> THEN as ELSE outcome[t]
  BY <1>1
<1>3. TypeOK'
  BY <1>1 DEF TypeOK
<1>4. \A j \in Journey, l \in Stages : Reached(j, l)' <=> Reached(j, l)
  BY <1>2 DEF Reached, Tasks
<1>5. \A j \in Journey, l \in Stages : At(j, l)' <=> At(j, l)
  BY <1>4, StageFacts DEF At, EventNames, Stages
<1>6. \A j \in Journey : Started(j)' <=> Started(j)
  BY <1>4, StageFacts DEF Started, Reached
<1>7. InOrder'
  <2> SUFFICES ASSUME NEW j \in Journey, NEW l \in Stages, NEW later \in Stages,
                      l < later, Reached(j, later)
               PROVE  outcome'[<<j, l>>] = "completed"
    BY <1>4 DEF InOrder
  <2>1. outcome[<<j, l>>] = "completed"
    BY DEF InOrder
  <2>2. <<j, l>> # <<p, k>> /\ <<j, l>> \in Tasks
    BY <2>1 DEF Tasks
  <2> QED
    BY <1>2, <2>1, <2>2
<1>8. EffectsFit'
  <2> SUFFICES ASSUME NEW j \in Journey, NEW l \in Stages
               PROVE  /\ <<j, l>> \in effect => Reached(j, l)
                      /\ outcome'[<<j, l>>] = "completed" => <<j, l>> \in effect
    BY <1>4 DEF EffectsFit
  <2>1. <<j, l>> \in Tasks
    BY DEF Tasks
  <2> QED
    BY <1>2, <2>1 DEF EffectsFit
<1>9. RequestsFit'
  BY DEF RequestsFit
<1>11. RowFits'
  <2> SUFFICES ASSUME NEW j \in Journey, NEW l \in Stages,
                      {i \in Journey : Started(i)'} = {j}, At(j, l)', <<j, l>> \in effect, ~disturbed
               PROVE  row = l
    BY DEF RowFits
  <2>1. {i \in Journey : Started(i)} = {j}
    BY <1>6
  <2> QED
    BY <1>5, <2>1 DEF RowFits
<1> QED
  BY <1>3, <1>7, <1>8, <1>9, <1>11

\* A journey starts: its first task arrives.
LEMMA StartKeeps ==
  ASSUME IInv, NEW p \in Journey, NEW v \in Values, Starts(p, v), begun' \in Nat
  PROVE  IInv'
<1> USE DEF IInv
<1>1. <<p, 0>> \in Tasks /\ outcome \in [Tasks -> Process!Outcomes] /\ outcome[<<p, 0>>] = "none"
  BY StageFacts DEF Tasks, TypeOK, Starts, Started
<1>2. /\ Arrive({p}, 0, v)
      /\ UNCHANGED <<row, rowLock, req, effect, deleted, disturbed, faults>>
  BY DEF Starts, requestVars
<1>3. \A t \in Tasks : outcome'[t] = IF t = <<p, 0>> THEN "pending" ELSE outcome[t]
  <2> SUFFICES ASSUME NEW j \in Journey, NEW l \in Stages
               PROVE  outcome'[<<j, l>>] = IF <<j, l>> = <<p, 0>> THEN "pending"
                                                                 ELSE outcome[<<j, l>>]
    BY DEF Tasks
  <2> QED
    BY <1>2 DEF Arrive, Tasks
<1>4. TypeOK'
  <2>1. outcome' \in [Tasks -> Process!Outcomes] /\ value' \in [Tasks -> Values]
    BY <1>1, <1>2 DEF Arrive, TypeOK, Process!Outcomes
  <2> QED
    BY <1>2, <2>1 DEF TypeOK
<1>5. \A l \in Stages : ~Reached(p, l)
  BY <1>1, ReachedStarted DEF Started
<1>6. \A j \in Journey, l \in Stages : j # p => (Reached(j, l)' <=> Reached(j, l))
  BY <1>3 DEF Reached, Tasks
<1>7. \A j \in Journey, l \in Stages : j # p => (At(j, l)' <=> At(j, l))
  BY <1>6, StageFacts DEF At, EventNames, Stages
<1>8. InOrder'
  <2> SUFFICES ASSUME NEW j \in Journey, NEW l \in Stages, NEW later \in Stages,
                      l < later, Reached(j, later)'
               PROVE  outcome'[<<j, l>>] = "completed"
    BY DEF InOrder
  <2>1. j # p
    <3>1. later # 0
      BY DEF Stages
    <3>2. <<p, later>> # <<p, 0>> /\ <<p, later>> \in Tasks
      BY <3>1 DEF Tasks
    <3>3. outcome'[<<p, later>>] = "none"
      BY <1>3, <1>5, <3>2 DEF Reached
    <3> QED
      BY <3>3 DEF Reached
  <2>2. outcome[<<j, l>>] = "completed" /\ <<j, l>> # <<p, 0>> /\ <<j, l>> \in Tasks
    BY <1>6, <2>1 DEF InOrder, Tasks
  <2> QED
    BY <1>3, <2>2
<1>9. EffectsFit'
  <2> SUFFICES ASSUME NEW j \in Journey, NEW l \in Stages
               PROVE  /\ <<j, l>> \in effect => Reached(j, l)'
                      /\ outcome'[<<j, l>>] = "completed" => <<j, l>> \in effect
    BY <1>2 DEF EffectsFit
  <2>1. <<j, l>> \in Tasks /\ outcome'[<<j, l>>] = IF <<j, l>> = <<p, 0>> THEN "pending"
                                                                  ELSE outcome[<<j, l>>]
    BY <1>3 DEF Tasks
  <2> QED
    BY <2>1 DEF EffectsFit, Reached
<1>10. RequestsFit'
  BY <1>2 DEF RequestsFit
<1>12. RowFits'
  <2> SUFFICES ASSUME NEW j \in Journey, NEW l \in Stages,
                      {i \in Journey : Started(i)'} = {j}, At(j, l)', <<j, l>> \in effect, ~disturbed
               PROVE  row = l
    BY <1>2 DEF RowFits
  <2>1. Started(p)'
    BY <1>1, <1>3 DEF Started
  <2>2. j = p
    BY <2>1
  <2>3. Reached(p, l)
    BY <2>2 DEF EffectsFit
  <2> QED
    BY <1>5, <2>3
<1> QED
  BY <1>4, <1>8, <1>9, <1>10, <1>12

\* A request that neither writes the row nor moves a journey.
LEMMA RequestKeeps ==
  ASSUME IInv, NEW q \in Request, NEW r \in Requests, req' = [req EXCEPT ![q] = r],
         UNCHANGED <<row, engineVars, disturbed>>, begun' \in Nat, faults' \in Nat,
         rowLock' \in Request \cup {Nobody},
         \A o \in Request \ {q} : rowLock = o => rowLock' = o,
         r.pc \in {"update", "correlate", "commit"} => r.stage \in EventNames,
         r.pc \in {"correlate", "commit"} => rowLock' = q
  PROVE  IInv'
<1> USE DEF IInv, engineVars
<1>1. \A o \in Request : req'[o] = IF o = q THEN r ELSE req[o]
  BY DEF TypeOK
<1>2. TypeOK'
  BY DEF TypeOK
<1>3. InOrder' /\ EffectsFit'
  BY DEF InOrder, EffectsFit, Reached
<1>4. RequestsFit'
  BY <1>1 DEF RequestsFit
<1>5. RowFits'
  BY DEF RowFits, At, Reached, Started
<1> QED
  BY <1>2, <1>3, <1>4, <1>5

\* A journey that waits for an event has not reached the event's stage.
LEMMA WaitingFacts ==
  ASSUME IInv, NEW e \in EventNames, NEW p \in Waiting(e)
  PROVE  /\ p \in Journey /\ At(p, e - 1) /\ Reached(p, e - 1) /\ ~Reached(p, e)
         /\ <<p, e>> \notin effect
         /\ \A l \in Stages : Reached(p, l) => l < e
<1>1. p \in Journey /\ At(p, e - 1) /\ e - 1 < Last
  BY DEF Waiting, WaitsAfter
<1>2. (e - 1) + 1 = e /\ e \in Stages
  BY StageFacts
<1>3. Reached(p, e - 1) /\ ~Reached(p, e)
  BY <1>1, <1>2 DEF At
<1>4. <<p, e>> \notin effect
  BY <1>1, <1>2, <1>3 DEF IInv, EffectsFit
<1>5. ASSUME NEW l \in Stages, Reached(p, l), e < l PROVE FALSE
  <2>1. outcome[<<p, e>>] = "completed"
    BY <1>1, <1>2, <1>5 DEF IInv, InOrder
  <2> QED
    BY <1>3, <2>1 DEF Reached
<1>6. \A l \in Stages : l < e \/ l = e \/ e < l
  BY DEF Stages, EventNames
<1> QED
  BY <1>1, <1>3, <1>4, <1>5, <1>6

\* Journeys that wait for an event come to its stage.
LEMMA MoveOn ==
  ASSUME IInv, NEW e \in EventNames, NEW H \in SUBSET Waiting(e), NEW v \in Values,
         Arrive(H, e, v), UNCHANGED <<row, rowLock, effect, deleted, disturbed>>,
         req' \in [Request -> Requests], RequestsFit', begun' \in Nat, faults' \in Nat
  PROVE  IInv'
<1> USE DEF IInv
<1>1. e \in Stages /\ H \subseteq Journey
  BY StageFacts DEF Waiting
<1>2. H \subseteq Waiting(e)
  OBVIOUS
<1>3. \A j \in H : /\ j \in Journey /\ At(j, e - 1) /\ Reached(j, e - 1) /\ ~Reached(j, e)
                   /\ <<j, e>> \notin effect
                   /\ \A l \in Stages : Reached(j, l) => l < e
  BY <1>1, <1>2, WaitingFacts
<1>4. outcome' = [t \in Tasks |-> IF t[1] \in H /\ t[2] = e THEN "pending" ELSE outcome[t]]
  BY DEF Arrive
<1>6. \A j \in Journey, l \in Stages :
        outcome'[<<j, l>>] = IF j \in H /\ l = e THEN "pending" ELSE outcome[<<j, l>>]
  BY <1>4 DEF Tasks
<1>7. \A j \in Journey, l \in Stages : Reached(j, l)' <=> Reached(j, l) \/ (j \in H /\ l = e)
  BY <1>6 DEF Reached
<1>8. TypeOK'
  <2>1. outcome' \in [Tasks -> Process!Outcomes]
    BY <1>4 DEF TypeOK, Process!Outcomes
  <2>2. value' \in [Tasks -> Values]
    BY DEF Arrive, TypeOK
  <2> QED
    BY <2>1, <2>2 DEF TypeOK
<1>9. InOrder'
  <2> SUFFICES ASSUME NEW j \in Journey, NEW l \in Stages, NEW later \in Stages,
                      l < later, Reached(j, later)'
               PROVE  outcome'[<<j, l>>] = "completed"
    BY DEF InOrder
  <2>1. CASE j \in H
    <3>a. later < e \/ later = e
      BY <1>3, <1>7, <2>1
    <3>1. e - 1 \in Stages /\ l < e /\ l # e
      BY <1>1, <3>a, StageFacts DEF Stages
    <3>2. l <= e - 1
      BY <3>1, <1>1 DEF Stages
    <3>3. outcome[<<j, e - 1>>] = "completed"
      BY <1>2, <2>1 DEF Waiting, WaitsAfter
    <3>4. outcome[<<j, l>>] = "completed"
      <4>1. CASE l = e - 1
        BY <3>3, <4>1
      <4>2. CASE l < e - 1
        BY <1>3, <2>1, <3>1, <4>2 DEF InOrder
      <4> QED
        BY <3>1, <3>2, <4>1, <4>2 DEF Stages
    <3> QED
      BY <1>6, <3>1, <3>4
  <2>2. CASE j \notin H
    BY <1>6, <1>7, <2>2 DEF InOrder
  <2> QED
    BY <2>1, <2>2
<1>10. EffectsFit'
  <2> SUFFICES ASSUME NEW j \in Journey, NEW l \in Stages
               PROVE  /\ <<j, l>> \in effect => Reached(j, l)'
                      /\ outcome'[<<j, l>>] = "completed" => <<j, l>> \in effect
    BY DEF EffectsFit
  <2>1. <<j, l>> \in effect => Reached(j, l)
    BY DEF EffectsFit
  <2>2. outcome'[<<j, l>>] = "completed" => outcome[<<j, l>>] = "completed"
    BY <1>6
  <2> QED
    BY <1>7, <2>1, <2>2 DEF EffectsFit
<1>12. \A j \in Journey, l \in Stages : j \notin H => (At(j, l)' <=> At(j, l))
  BY <1>7, StageFacts DEF At, EventNames, Stages
<1>13. \A j \in H : At(j, e)' /\ \A l \in Stages : At(j, l)' => l = e
  <2> SUFFICES ASSUME NEW j \in H
               PROVE  At(j, e)' /\ \A l \in Stages : At(j, l)' => l = e
    OBVIOUS
  <2>1. j \in Journey /\ Reached(j, e)'
    BY <1>1, <1>3, <1>7
  <2>2. e < Last => ~Reached(j, e + 1)'
    <3> SUFFICES ASSUME e < Last PROVE ~Reached(j, e + 1)'
      OBVIOUS
    <3>1. e + 1 \in Stages /\ e + 1 # e /\ ~(e + 1 < e)
      BY <1>1 DEF Stages
    <3> QED
      BY <1>3, <1>7, <2>1, <3>1
  <2>3. ASSUME NEW l \in Stages, At(j, l)', l # e PROVE FALSE
    <3>1. Reached(j, l) /\ l < e
      BY <1>3, <1>7, <2>1, <2>3 DEF At
    <3>2. l < Last /\ l + 1 \in Stages /\ l + 1 <= e /\ e - 1 \in Stages
      BY <1>1, <3>1 DEF Stages
    <3>3. ~Reached(j, l + 1)'
      BY <2>3, <3>2 DEF At
    <3>4. l + 1 < e - 1
      <4>1. l + 1 # e
        BY <1>7, <2>1, <3>2, <3>3
      <4>2. l + 1 # e - 1
        BY <1>3, <1>7, <2>1, <3>2, <3>3
      <4> QED
        BY <1>1, <3>2, <4>1, <4>2 DEF Stages
    <3>5. outcome[<<j, l + 1>>] = "completed"
      BY <1>3, <2>1, <3>2, <3>4 DEF InOrder
    <3>6. Reached(j, l + 1)
      BY <3>5 DEF Reached
    <3> QED
      BY <1>7, <2>1, <3>2, <3>3, <3>6
  <2> QED
    BY <2>1, <2>2, <2>3 DEF At
<1>15. RowFits'
  <2> SUFFICES ASSUME NEW j \in Journey, NEW l \in Stages,
                      {i \in Journey : Started(i)'} = {j}, At(j, l)', <<j, l>> \in effect, ~disturbed
               PROVE  row = l
    BY DEF RowFits
  <2>1. j \notin H
    BY <1>3, <1>13
  <2>2. \A i \in Journey : Started(i)' <=> Started(i)
    <3>1. \A i \in Journey : Started(i)' <=> Reached(i, 0)'
      BY DEF Started, Reached
    <3>2. 0 # e
      BY <1>1 DEF EventNames
    <3> QED
      BY <1>7, <3>1, <3>2, StageFacts DEF Started, Reached
  <2>3. {i \in Journey : Started(i)} = {j}
    BY <2>2
  <2> QED
    BY <1>12, <2>1, <2>3 DEF RowFits
<1> QED
  BY <1>8, <1>9, <1>10, <1>15

\* The engine moves the journey that hears the event, or none.
LEMMA CorrelateKeeps ==
  ASSUME IInv, NEW q \in Request, Correlate(q)
  PROVE  IInv'
<1> USE DEF IInv
<1>1. PICK e \in EventNames : e = req[q].stage
  BY DEF Correlate, RequestsFit
<1>2. PICK H \in SUBSET Waiting(e) : H = Hearing(e)
  BY DEF Hearing
<1>3. H \subseteq Journey /\ req[q] \in Requests
  BY DEF Waiting, TypeOK
<1>4. /\ Arrive(H, e, req[q].value)
      /\ req' = [req EXCEPT ![q].pc = "commit", ![q].moved = H]
      /\ UNCHANGED <<row, rowLock, effect, deleted, disturbed, begun, faults>>
  BY <1>1, <1>2 DEF Correlate, boundVars
<1>5. PICK r \in Requests : /\ r.stage = e
                           /\ req' = [req EXCEPT ![q] = r]
  <2>1. [req[q] EXCEPT !.pc = "commit", !.moved = H] \in Requests
    BY <1>3 DEF Requests
  <2>2. [req[q] EXCEPT !.pc = "commit", !.moved = H].stage = e
    BY <1>1, <1>3 DEF Requests
  <2>3. req' = [req EXCEPT ![q] = [req[q] EXCEPT !.pc = "commit", !.moved = H]]
    BY <1>4 DEF TypeOK
  <2> QED
    BY <2>1, <2>2, <2>3
<1>6. \A o \in Request : req'[o] = IF o = q THEN r ELSE req[o]
  BY <1>5 DEF TypeOK
<1>7. req' \in [Request -> Requests]
  BY <1>5 DEF TypeOK
<1>8. RequestsFit'
  <2>1. rowLock = q
    BY DEF Correlate, RequestsFit
  <2> QED
    BY <1>4, <1>5, <1>6, <2>1 DEF RequestsFit
<1>9. req[q].value \in Values /\ begun' \in Nat /\ faults' \in Nat
  BY <1>3, <1>4 DEF Requests, TypeOK
<1> QED
  BY <1>4, <1>7, <1>8, <1>9, MoveOn

\* A process route moves one journey on.
LEMMA MessageKeeps ==
  ASSUME IInv, NEW p \in Journey, Message(p)
  PROVE  IInv'
<1> USE DEF IInv
<1>1. PICK e \in EventNames, v \in Values : WaitsAfter(p, e - 1) /\ Arrive({p}, e, v)
  BY DEF Message, EventNames
<1>2. {p} \in SUBSET Waiting(e)
  BY <1>1 DEF Waiting
<1>3. /\ UNCHANGED <<row, rowLock, req, effect, deleted, disturbed>>
      /\ begun' \in Nat /\ faults' \in Nat
  BY DEF Message, Counted, requestVars, TypeOK
<1>4. RequestsFit' /\ req' \in [Request -> Requests]
  BY <1>3 DEF RequestsFit, TypeOK
<1> QED
  BY <1>1, <1>2, <1>3, <1>4, MoveOn

\* An event's request commits.
LEMMA CommitKeeps ==
  ASSUME IInv, NEW q \in Request, Commit(q)
  PROVE  IInv'
<1> USE DEF IInv
<1>1. /\ req[q].pc = "commit" /\ rowLock = q
      /\ row' = req[q].stage
      /\ disturbed' = ~ \E p \in req[q].moved : At(p, req[q].stage)
      /\ rowLock' = Nobody /\ req' = [req EXCEPT ![q] = Idle]
      /\ UNCHANGED <<outcome, effect, value, deleted, begun, faults>>
  BY DEF Commit, engineVars, boundVars, RequestsFit
<1>2. req[q].stage \in Stages /\ req[q].moved \subseteq Journey
  BY <1>1, StageFacts DEF TypeOK, Requests, RequestsFit
<1>3. \A o \in Request : req'[o] = IF o = q THEN Idle ELSE req[o]
  BY <1>1 DEF TypeOK
<1>4. TypeOK'
  <2>1. disturbed' \in BOOLEAN
    BY <1>1
  <2> QED
    BY <1>1, <1>2, <2>1, RequestFacts DEF TypeOK
<1>5. InOrder' /\ EffectsFit'
  BY <1>1 DEF InOrder, EffectsFit, Reached
<1>6. \A o \in Request \ {q} : req[o].pc \notin {"correlate", "commit"}
  BY <1>1 DEF RequestsFit
<1>7. RequestsFit'
  BY <1>3, <1>6, RequestFacts DEF RequestsFit
<1>8. RowFits'
  <2> SUFFICES ASSUME NEW j \in Journey, NEW l \in Stages, {i \in Journey : Started(i)} = {j},
                      At(j, l), <<j, l>> \in effect, ~disturbed'
               PROVE  req[q].stage = l
    BY <1>1 DEF RowFits, At, Reached, Started
  <2>1. PICK p \in req[q].moved : At(p, req[q].stage)
    BY <1>1
  <2>2. p = j
    BY <1>2, <2>1, ReachedStarted DEF At
  <2> QED
    BY <1>2, <2>1, <2>2, AtOne
<1> QED
  BY <1>4, <1>5, <1>7, <1>8

\* A patch or an edit writes the row, or it finds nothing to write.
LEMMA WriteKeeps ==
  ASSUME IInv, NEW q \in Request, Write(q)
  PROVE  IInv'
<1> USE DEF IInv
<1>1. /\ req[q].pc = "write" /\ req' = [req EXCEPT ![q] = Idle]
      /\ UNCHANGED <<rowLock, outcome, effect, value, deleted, begun, faults>>
      /\ (row' = req[q].stage /\ disturbed' = TRUE) \/ UNCHANGED <<row, disturbed>>
  BY DEF Write, engineVars, boundVars
<1>2. req[q].stage \in Names
  BY DEF TypeOK, Requests
<1>3. \A o \in Request : req'[o] = IF o = q THEN Idle ELSE req[o]
  BY <1>1 DEF TypeOK
<1>4. TypeOK'
  BY <1>1, <1>2, RequestFacts DEF TypeOK
<1>5. InOrder' /\ EffectsFit'
  BY <1>1 DEF InOrder, EffectsFit, Reached
<1>6. RequestsFit'
  BY <1>1, <1>3, RequestFacts DEF RequestsFit
<1>7. RowFits'
  BY <1>1 DEF RowFits, At, Reached, Started
<1> QED
  BY <1>4, <1>5, <1>6, <1>7

\* A handler returns: it has written the stage its task came with, or nothing.
LEMMA HandleKeeps ==
  ASSUME IInv, NEW p \in Journey, NEW k \in Stages, Handle(p, k)
  PROVE  IInv'
<1> USE DEF IInv
<1>1. /\ Process!CanRun(<<p, k>>)
      /\ row' = Written(<<p, k>>) /\ disturbed' = (~At(p, k) \/ value[<<p, k>>] # k)
      /\ effect' = effect \cup {<<p, k>>}
      /\ UNCHANGED <<rowLock, req, outcome, value, deleted, begun>>
      /\ faults' = faults \/ faults' = faults + 1
  BY DEF Handle, requestVars, Fault
<1>2. Reached(p, k)
  BY <1>1 DEF Process!CanRun, Reached
<1>3. <<p, k>> \in Tasks /\ value[<<p, k>>] \in Values
  BY DEF Tasks, TypeOK
<1>4. TypeOK'
  <2>1. row' \in Names
    BY <1>1, <1>3 DEF Written, Values, TypeOK
  <2>2. faults' \in Nat /\ disturbed' \in BOOLEAN
    BY <1>1 DEF TypeOK
  <2> QED
    BY <1>1, <1>3, <2>1, <2>2 DEF TypeOK
<1>5. InOrder'
  BY <1>1 DEF InOrder, Reached
<1>6. EffectsFit'
  BY <1>1, <1>2 DEF EffectsFit, Reached
<1>7. RequestsFit'
  BY <1>1 DEF RequestsFit
<1>8. RowFits'
  <2> SUFFICES ASSUME NEW j \in Journey, NEW l \in Stages, {i \in Journey : Started(i)} = {j},
                      At(j, l), ~disturbed'
               PROVE  row' = l
    BY <1>1 DEF RowFits, At, Reached, Started
  <2>1. At(p, k) /\ value[<<p, k>>] = k
    BY <1>1
  <2>2. p = j
    BY <1>2, ReachedStarted
  <2>3. k = l
    BY <2>1, <2>2, AtOne
  <2>4. k # Unset
    BY DEF Stages
  <2> QED
    BY <1>1, <2>1, <2>3, <2>4 DEF Written
<1> QED
  BY <1>4, <1>5, <1>6, <1>7, <1>8

\* A journey is deleted: what it has done stays.
LEMMA DeleteKeeps ==
  ASSUME IInv, NEW p \in Journey, Delete(p)
  PROVE  IInv'
<1> USE DEF IInv
<1>1. /\ deleted' = deleted \cup {p}
      /\ UNCHANGED <<row, rowLock, req, outcome, effect, value, disturbed, begun, faults>>
  BY DEF Delete, requestVars, boundVars
<1>2. TypeOK'
  BY <1>1 DEF TypeOK
<1>3. InOrder' /\ EffectsFit' /\ RequestsFit' /\ RowFits'
  BY <1>1 DEF InOrder, EffectsFit, RequestsFit, RowFits, Reached, At, Started
<1> QED
  BY <1>2, <1>3
-----------------------------------------------------------------------------
LEMMA NextIInv == IInv /\ [Next]_vars => IInv'
<1> SUFFICES ASSUME IInv, [Next]_vars PROVE IInv'
  OBVIOUS
<1> USE DEF IInv
<1>1. CASE UNCHANGED vars
  BY <1>1 DEF vars, requestVars, engineVars, boundVars, TypeOK, InOrder, EffectsFit,
              RequestsFit, RowFits, Reached, At, Started
<1>2. ASSUME NEW q \in Request, NEW r \in Requests, Begins(q, r),
             r.pc \notin {"correlate", "commit"}, r.pc = "update" => r.stage \in EventNames
      PROVE  IInv'
  <2>1. /\ UNCHANGED <<row, rowLock, engineVars, disturbed, faults>> /\ begun' \in Nat
        /\ req' = [req EXCEPT ![q] = r]
    BY <1>2 DEF Begins, Counted, TypeOK
  <2> QED
    BY <1>2, <2>1, RequestKeeps DEF TypeOK
<1>3. ASSUME NEW q \in Request, Event(q) PROVE IInv'
  <2>1. PICK e \in EventNames, v \in Values :
          Begins(q, [Idle EXCEPT !.pc = "update", !.stage = e, !.value = v])
    BY <1>3 DEF Event
  <2>2. e \in Names
    BY RequestFacts
  <2>3. [Idle EXCEPT !.pc = "update", !.stage = e, !.value = v] \in Requests
    BY <2>2, RequestFacts DEF Idle, Requests
  <2>4. /\ [Idle EXCEPT !.pc = "update", !.stage = e, !.value = v].pc = "update"
        /\ [Idle EXCEPT !.pc = "update", !.stage = e, !.value = v].stage = e
    BY DEF Idle
  <2> QED
    BY <1>2, <2>1, <2>3, <2>4
<1>4. ASSUME NEW q \in Request, Patch(q) PROVE IInv'
  <2>1. PICK name \in Names :
          Begins(q, [Idle EXCEPT !.pc = "write", !.stage = name, !.seen = row])
    BY <1>4 DEF Patch
  <2>2. [Idle EXCEPT !.pc = "write", !.stage = name, !.seen = row] \in Requests
    BY RequestFacts DEF Idle, Requests, TypeOK
  <2>3. [Idle EXCEPT !.pc = "write", !.stage = name, !.seen = row].pc = "write"
    BY DEF Idle
  <2> QED
    BY <1>2, <2>1, <2>2, <2>3
<1>5. ASSUME NEW q \in Request, Edit(q) PROVE IInv'
  <2>1. [Idle EXCEPT !.pc = "edit", !.stage = row] \in Requests
    BY RequestFacts DEF Idle, Requests, TypeOK
  <2>2. [Idle EXCEPT !.pc = "edit", !.stage = row].pc = "edit"
    BY DEF Idle
  <2> QED
    BY <1>2, <1>5, <2>1, <2>2 DEF Edit
<1>6. ASSUME NEW q \in Request, Update(q) PROVE IInv'
  <2>1. PICK r \in Requests : /\ r.pc = "correlate" /\ r.stage \in EventNames
                              /\ req' = [req EXCEPT ![q] = r]
    <3>1. [req[q] EXCEPT !.pc = "correlate"] \in Requests
      BY DEF TypeOK, Requests
    <3> QED
      BY <1>6, <3>1 DEF Update, RequestsFit, TypeOK, Requests
  <2> QED
    BY <1>6, <2>1, RequestKeeps DEF Update, boundVars, TypeOK
<1>7. ASSUME NEW q \in Request, Merge(q) PROVE IInv'
  <2>1. PICK r \in Requests : r.pc = "write" /\ req' = [req EXCEPT ![q] = r]
    <3>1. /\ [req[q] EXCEPT !.pc = "write", !.seen = row] \in Requests
          /\ [req[q] EXCEPT !.pc = "write", !.seen = row].pc = "write"
      BY DEF TypeOK, Requests
    <3>2. req' = [req EXCEPT ![q] = [req[q] EXCEPT !.pc = "write", !.seen = row]]
      BY <1>7 DEF Merge, TypeOK
    <3> QED
      BY <3>1, <3>2
  <2> QED
    BY <1>7, <2>1, RequestKeeps DEF Merge, boundVars, TypeOK
<1>8. ASSUME NEW q \in Request, CorrelateLost(q) PROVE IInv'
  <2>1. PICK r \in Requests : /\ r.pc = "commit" /\ r.stage \in EventNames
                              /\ req' = [req EXCEPT ![q] = r]
    <3>1. [req[q] EXCEPT !.pc = "commit"] \in Requests
      BY DEF TypeOK, Requests
    <3> QED
      BY <1>8, <3>1 DEF CorrelateLost, RequestsFit, TypeOK, Requests
  <2>2. rowLock = q
    BY <1>8 DEF CorrelateLost, RequestsFit
  <2>3. /\ UNCHANGED <<row, rowLock, engineVars, disturbed, begun>>
        /\ begun' \in Nat /\ faults' \in Nat
    BY <1>8 DEF CorrelateLost, Fault, TypeOK
  <2> QED
    BY <2>1, <2>2, <2>3, RequestKeeps
<1>9. ASSUME NEW q \in Request, Abort(q) PROVE IInv'
  <2>1. /\ UNCHANGED <<row, engineVars, disturbed, begun>> /\ faults' \in Nat
        /\ req' = [req EXCEPT ![q] = Idle]
    BY <1>9 DEF Abort, Fault, TypeOK
  <2>2. /\ rowLock' \in Request \cup {Nobody} /\ begun' \in Nat
        /\ \A o \in Request \ {q} : rowLock = o => rowLock' = o
    BY <1>9, <2>1 DEF Abort, TypeOK
  <2> QED
    BY <2>1, <2>2, RequestFacts, RequestKeeps
<1>10. ASSUME NEW p \in Journey, Start(p) \/ StartByHand(p) PROVE IInv'
  <2>1. PICK v \in Values : Starts(p, v)
    BY <1>10, StageFacts, RequestFacts DEF Start, StartByHand
  <2>2. begun' \in Nat
    BY <1>10 DEF Start, StartByHand, Counted, TypeOK
  <2> QED
    BY <2>1, <2>2, StartKeeps
<1>11. ASSUME NEW p \in Journey, NEW k \in Stages, Finish(p, k) \/ WorkFails(p, k)
       PROVE  IInv'
  <2>1. PICK as \in {"completed", "error", "incident", "pending"} :
          Becomes(p, k, as) /\ (as = "completed" => <<p, k>> \in effect)
    BY <1>11 DEF Finish, WorkFails, ThrowError, RunOut, Revive, Process!CanEnd
  <2>2. outcome[<<p, k>>] \in {"pending", "incident"}
    BY <1>11 DEF Finish, WorkFails, ThrowError, RunOut, Revive, Process!CanEnd, Process!Unsettled
  <2>3. faults' \in Nat
    BY <1>11 DEF Finish, WorkFails, ThrowError, RunOut, Revive, Fault, TypeOK
  <2>4. /\ outcome' = [outcome EXCEPT ![<<p, k>>] = as] /\ begun' \in Nat
        /\ UNCHANGED <<row, rowLock, req, effect, value, deleted, disturbed>>
    BY <2>1 DEF Becomes, requestVars, TypeOK
  <2>5. as \in Process!Outcomes \ {"none"}
    BY DEF Process!Outcomes
  <2> QED
    BY <2>1, <2>2, <2>3, <2>4, <2>5, EndsKeeps
<1>12. CASE \E q \in Request : Event(q) \/ Patch(q) \/ Edit(q) \/ Serve(q) \/ Disturb(q)
  BY <1>3, <1>4, <1>5, <1>6, <1>7, <1>8, <1>9, <1>12, CorrelateKeeps, CommitKeeps, WriteKeeps
     DEF Serve, Disturb
<1>13. CASE \E p \in Journey : \/ Manage(p)
                               \/ \E k \in Stages : Work(p, k) \/ WorkFails(p, k)
  BY <1>10, <1>11, <1>13, MessageKeeps, DeleteKeeps, HandleKeeps DEF Manage, Work
<1> QED
  BY <1>1, <1>12, <1>13 DEF Next

LEMMA InvIInv == Spec => []IInv
  BY InitIInv, NextIInv, PTL DEF Spec
-----------------------------------------------------------------------------
\* The variables keep their types.
THEOREM JourneyTypes == Spec => []TypeOK
<1>1. IInv => TypeOK
  BY DEF IInv
<1> QED
  BY InvIInv, <1>1, PTL

\* The stage that a contact's only journey waits after is the stage of its row,
\* unless a patch, a stale edit, a dropped event, a late handler or a caller's
\* own current_stage has written the row since: whatever the numbers of
\* requests, stages and faults, and whatever the process routes do.
THEOREM RowAndJourneyInStep == Spec => []InStep
<1>1. IInv => InStep
  <2> SUFFICES ASSUME IInv, NEW p \in Journey, NEW k \in Stages,
                      {j \in Journey : Started(j)} = {p}, WaitsAfter(p, k), ~disturbed
               PROVE  row = k
    BY DEF InStep
  <2>1. At(p, k) /\ <<p, k>> \in effect
    BY DEF WaitsAfter, IInv, EffectsFit
  <2> QED
    BY <2>1 DEF IInv, RowFits
<1> QED
  BY InvIInv, <1>1, PTL

\* No message reaches one of two journeys that wait for it.
LEMMA TwoDoNotHear ==
  ASSUME NEW e, NEW p \in Waiting(e), NEW q \in Waiting(e), p # q
  PROVE  Hearing(e) = {}
<1>1. IsFiniteSet(Waiting(e))
  BY JourneyAssumption, FS_Subset DEF Waiting
<1>2. ASSUME Cardinality(Waiting(e)) = 1 PROVE FALSE
  BY <1>1, <1>2, FS_Singleton
<1> QED
  BY <1>2 DEF Hearing

\* A step of Next keeps a journey where it waits, if another waits there too
\* and no process route moves or deletes the first.
LEMMA TwinStays ==
  ASSUME IInv, Next, NEW p \in Journey, NEW q \in Journey, NEW k \in Stages, p # q,
         WaitsAfter(p, k), WaitsAfter(q, k), ~Message(p), ~Delete(p)
  PROVE  WaitsAfter(p, k)'
<1>1. k + 1 \in EventNames /\ (k + 1) - 1 = k /\ k < Last
  BY StageFacts DEF WaitsAfter
<1>2. p \in Waiting(k + 1) /\ q \in Waiting(k + 1)
  BY <1>1 DEF Waiting
<1>3. Hearing(k + 1) = {}
  BY <1>2, TwoDoNotHear
<1>4. /\ outcome[<<p, k>>] = "completed" /\ outcome[<<p, k + 1>>] = "none"
      /\ <<p, k>> \in Tasks /\ <<p, k + 1>> \in Tasks
  BY <1>1, StageFacts DEF WaitsAfter, At, Reached, Tasks
<1> DEFINE Stays == outcome'[<<p, k>>] = "completed" /\ outcome'[<<p, k + 1>>] = "none"
<1> SUFFICES Stays /\ p \notin deleted'
  BY <1>1 DEF WaitsAfter, At, Reached
<1>5. outcome \in [Tasks -> Process!Outcomes]
  BY DEF IInv, TypeOK
<1>6. ASSUME NEW S, NEW e \in Stages, NEW v, Arrive(S, e, v),
             p \in S => e # k /\ e # k + 1
      PROVE  Stays
  BY <1>4, <1>6 DEF Arrive
<1>7. ASSUME NEW o \in Request, Correlate(o) PROVE Stays
  <2>1. PICK e \in EventNames : e = req[o].stage
    BY <1>7 DEF Correlate, IInv, RequestsFit
  <2>2. PICK v : Arrive(Hearing(e), e, v)
    BY <1>7, <2>1 DEF Correlate
  <2>3. p \in Hearing(e) => ~Reached(p, e)
    BY WaitingFacts DEF Hearing
  <2> QED
    BY <1>3, <1>4, <1>6, <2>2, <2>3, StageFacts DEF Reached
<1>8. ASSUME NEW j \in Journey, Start(j) \/ StartByHand(j) \/ Message(j) PROVE Stays
  <2>1. CASE Message(j)
    <3>1. j # p
      BY <2>1
    <3>2. PICK e \in EventNames, v \in Values : Arrive({j}, e, v)
      BY <2>1 DEF Message, EventNames
    <3> QED
      BY <1>6, <3>1, <3>2, StageFacts
  <2>2. CASE Start(j) \/ StartByHand(j)
    <3>1. j # p
      BY <2>2, ReachedStarted DEF Start, StartByHand, Starts, WaitsAfter, At
    <3>2. PICK v : Arrive({j}, 0, v)
      BY <2>2 DEF Start, StartByHand, Starts
    <3> QED
      BY <1>6, <3>1, <3>2, StageFacts
  <2> QED
    BY <1>8, <2>1, <2>2
<1>9. ASSUME NEW j \in Journey, NEW l \in Stages, Finish(j, l) \/ WorkFails(j, l)
      PROVE  Stays
  <2>1. outcome[<<j, l>>] \in {"pending", "incident"}
    BY <1>9 DEF Finish, WorkFails, ThrowError, RunOut, Revive, Process!CanEnd, Process!Unsettled
  <2>2. <<j, l>> # <<p, k>> /\ <<j, l>> # <<p, k + 1>>
    BY <1>4, <2>1
  <2>3. PICK as : outcome' = [outcome EXCEPT ![<<j, l>>] = as]
    BY <1>9 DEF Finish, WorkFails, ThrowError, RunOut, Revive, Becomes
  <2> QED
    BY <1>4, <1>5, <2>2, <2>3
<1>10. UNCHANGED outcome => Stays
  BY <1>4
<1>11. ASSUME NEW o \in Request, Event(o) \/ Patch(o) \/ Edit(o) \/ Serve(o) \/ Disturb(o),
              ~Correlate(o)
       PROVE  UNCHANGED <<outcome, deleted>>
  BY <1>11 DEF Event, Patch, Edit, Begins, Serve, Update, Commit, Merge, Write, Disturb,
               CorrelateLost, Abort, engineVars
<1>12. ASSUME NEW j \in Journey, NEW l \in Stages, Handle(j, l)
       PROVE  UNCHANGED <<outcome, deleted>>
  BY <1>12 DEF Handle
<1>13. Stays
  BY <1>7, <1>8, <1>9, <1>10, <1>11, <1>12 DEF Next, Work, Manage, Delete
<1>14. ASSUME p \in deleted' PROVE FALSE
  <2>1. p \notin deleted
    BY DEF WaitsAfter
  <2>2. \A o \in Request : Correlate(o) => UNCHANGED deleted
    BY DEF Correlate
  <2>3. \A j \in Journey : Start(j) \/ StartByHand(j) \/ Message(j) => UNCHANGED deleted
    BY DEF Start, StartByHand, Starts, Message
  <2>4. \A j \in Journey, l \in Stages : Finish(j, l) \/ WorkFails(j, l) => UNCHANGED deleted
    BY DEF Finish, WorkFails, ThrowError, RunOut, Revive, Becomes
  <2>5. \A j \in Journey : Delete(j) => j # p /\ deleted' = deleted \cup {j}
    BY DEF Delete
  <2> QED
    BY <1>11, <1>12, <1>14, <2>1, <2>2, <2>3, <2>4, <2>5 DEF Next, Work, Manage
<1> QED
  BY <1>13, <1>14

\* Of two journeys that wait for the same event none moves again unless a
\* process route names one of them, whatever the number of journeys and stages.
THEOREM TwinsAreStuck == Spec => TwinJourneysAreStuck
<1>1. ASSUME IInv, [Next]_vars PROVE [TwinsStay]_vars
  <2> SUFFICES ASSUME Next, NEW p \in Journey, NEW q \in Journey, NEW k \in Stages, p # q,
                      WaitsAfter(p, k), WaitsAfter(q, k),
                      \A j \in {p, q} : ~Message(j) /\ ~Delete(j)
               PROVE  WaitsAfter(p, k)' /\ WaitsAfter(q, k)'
    BY <1>1 DEF TwinsStay
  <2> QED
    BY <1>1, TwinStays
<1> QED
  BY InvIInv, <1>1, PTL DEF Spec, TwinJourneysAreStuck
-----------------------------------------------------------------------------
(* The journeys use the worker's promise as TaskOutcome states it. *)

LEMMA StepImplements ==
  ASSUME IInv, [Next]_vars PROVE [Process!TaskNext]_(Process!taskVars)
<1>1. ASSUME UNCHANGED outcome, UNCHANGED effect PROVE UNCHANGED Process!taskVars
  BY <1>1 DEF Process!taskVars
<1>2. outcome' \in [Tasks -> Process!Outcomes] /\ effect' \subseteq Tasks
  BY NextIInv DEF IInv, TypeOK
<1>3. outcome \in [Tasks -> Process!Outcomes]
  BY DEF IInv, TypeOK
<1>4. ASSUME NEW S \in SUBSET Journey, NEW e \in Stages, NEW v, Arrive(S, e, v),
             \A p \in S : outcome[<<p, e>>] = "none", UNCHANGED effect
      PROVE  Process!TaskNext
  <2>1. \A t \in Tasks : \/ outcome[t] = "none" /\ outcome'[t] = "pending"
                         \/ UNCHANGED outcome[t]
    <3> SUFFICES ASSUME NEW p \in Journey, NEW k \in Stages
                 PROVE  \/ outcome[<<p, k>>] = "none" /\ outcome'[<<p, k>>] = "pending"
                        \/ UNCHANGED outcome[<<p, k>>]
      BY DEF Tasks
    <3> QED
      BY <1>4 DEF Tasks, Arrive
  <2> QED
    BY <1>2, <1>4, <2>1 DEF Process!TaskNext, Process!TaskStep
<1>5. ASSUME NEW p \in Journey, NEW k \in Stages, Handle(p, k) PROVE Process!TaskNext
  <2>1. UNCHANGED outcome /\ effect' = effect \cup {<<p, k>>} /\ Process!CanRun(<<p, k>>)
    BY <1>5 DEF Handle
  <2>2. <<p, k>> \in Tasks
    BY DEF Tasks
  <2> QED
    BY <1>2, <2>1, <2>2 DEF Process!TaskNext, Process!TaskStep
<1>6. ASSUME NEW t \in Tasks, NEW as, outcome' = [outcome EXCEPT ![t] = as], UNCHANGED effect,
             \/ outcome[t] = "none" /\ as = "pending"
             \/ Process!CanEnd(t) /\ as \in {"completed", "error"}
             \/ outcome[t] \in {"pending", "incident"} /\ as \in {"pending", "incident"}
      PROVE  Process!TaskNext
  <2>1. \A u \in Tasks : outcome'[u] = IF u = t THEN as ELSE outcome[u]
    BY <1>3, <1>6
  <2>2. \A u \in Tasks : Process!TaskStep(u)
    BY <1>6, <2>1 DEF Process!TaskStep, Process!Unsettled
  <2> QED
    BY <1>2, <1>6, <2>2 DEF Process!TaskNext
<1>7. ASSUME NEW q \in Request, Correlate(q) PROVE Process!TaskNext
  <2>1. PICK e \in EventNames : e = req[q].stage
    BY <1>7 DEF Correlate, IInv, RequestsFit
  <2>2. PICK v : Arrive(Hearing(e), e, v) /\ UNCHANGED effect
    BY <1>7, <2>1 DEF Correlate
  <2>3. \A p \in Hearing(e) : outcome[<<p, e>>] = "none"
    BY <2>1, WaitingFacts DEF Hearing, Reached
  <2>4. Hearing(e) \in SUBSET Journey /\ e \in Stages
    BY StageFacts DEF Hearing, Waiting
  <2> QED
    BY <1>4, <2>2, <2>3, <2>4
<1>8. ASSUME NEW p \in Journey, Message(p) PROVE Process!TaskNext
  <2>1. PICK e \in EventNames, v \in Values : WaitsAfter(p, e - 1) /\ Arrive({p}, e, v)
    BY <1>8 DEF Message, EventNames
  <2>2. outcome[<<p, e>>] = "none" /\ e \in Stages
    BY <2>1, WaitingFacts, StageFacts DEF Waiting, Reached
  <2>3. UNCHANGED effect
    BY <1>8 DEF Message
  <2> QED
    BY <1>4, <2>1, <2>2, <2>3
<1>9. ASSUME NEW p \in Journey, Start(p) \/ StartByHand(p) PROVE Process!TaskNext
  <2>1. PICK v : Arrive({p}, 0, v) /\ outcome[<<p, 0>>] = "none" /\ UNCHANGED effect
    BY <1>9 DEF Start, StartByHand, Starts, Started
  <2> QED
    BY <1>4, <2>1, StageFacts
<1>10. ASSUME NEW p \in Journey, NEW k \in Stages, Finish(p, k) \/ WorkFails(p, k)
       PROVE  Process!TaskNext
  <2>1. <<p, k>> \in Tasks
    BY DEF Tasks
  <2> QED
    BY <1>6, <1>10, <2>1 DEF Finish, WorkFails, ThrowError, RunOut, Revive, Becomes
<1>11. ASSUME NEW q \in Request, Event(q) \/ Patch(q) \/ Edit(q) \/ Serve(q) \/ Disturb(q),
              ~Correlate(q)
       PROVE  UNCHANGED outcome /\ UNCHANGED effect
  BY <1>11 DEF Event, Patch, Edit, Begins, Serve, Update, Commit, Merge, Write, Disturb,
               CorrelateLost, Abort, engineVars
<1>12. ASSUME NEW p \in Journey, Delete(p) PROVE UNCHANGED outcome /\ UNCHANGED effect
  BY <1>12 DEF Delete
<1>13. ASSUME UNCHANGED vars PROVE UNCHANGED Process!taskVars
  BY <1>13 DEF vars, engineVars, Process!taskVars
<1> QED
  BY <1>1, <1>5, <1>7, <1>8, <1>9, <1>10, <1>11, <1>12, <1>13 DEF Next, Work, Manage

\* What the service tasks of the journeys do is what the worker promises: a
\* task ends only after its handler has returned, and stays ended.
THEOREM JourneyUsesPromise == Spec => Process!TaskSpec
<1>1. Init => Process!TaskInit
  BY DEF Init
<1> QED
  BY <1>1, InvIInv, StepImplements, PTL DEF Spec, Process!TaskSpec
=============================================================================
