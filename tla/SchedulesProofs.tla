--------------------------- MODULE SchedulesProofs ---------------------------
(***************************************************************************)
(* Proofs about Schedules, for any number of workers, schedules and         *)
(* requests, any triggers and any Horizon.                                  *)
(***************************************************************************)
EXTENDS Schedules, TLAPS

LEMMA NextFireNat ==
  ASSUME NEW s \in Schedules, NEW t \in Times PROVE NextFire[s][t] \in Nat
  BY ScheduleAssumption

LEMMA ZeroIsATime == 0 \in Times
  BY ScheduleAssumption DEF Times

(* What RollBack leaves keeps its type, whatever the rest of the step does. *)
LEMMA RollBackTyped ==
  ASSUME TypeOK, NEW w \in Workers, RollBack(w)
  PROVE  /\ ticking' \subseteq Workers
         /\ at' \in [Workers -> Times]
         /\ seen' \in [Workers -> [Schedules -> Row]]
         /\ todo' \in [Workers -> SUBSET Schedules]
         /\ cur' \in [Workers -> SUBSET Schedules]
         /\ fired' \in [Workers -> SUBSET Schedules]
         /\ sent' \in [Workers -> SUBSET Schedules]
         /\ columns' \in [Workers -> [Schedules -> SUBSET Columns]]
         /\ lock' \in [Schedules -> Workers \cup {NoWorker}]
  BY ZeroIsATime DEF RollBack, TypeOK, NoRow, Row

(* An UPDATE, and what it is sent with, are rows. *)
LEMMA OverwriteTyped ==
  ASSUME NEW r \in Row, NEW e \in Row, NEW cols PROVE Overwrite(r, e, cols) \in Row
  BY DEF Overwrite, Row

LEMMA FiredTyped ==
  ASSUME NEW s \in Schedules, NEW r \in Row, NEW t \in Times
  PROVE  Fired(s, r, t) \in Row /\ Fired(s, r, t).runs = r.runs + 1
<1>1. NextFire[s][t] \in Nat
  BY NextFireNat
<1>2. PICK n \in Nat : n = r.runs + 1
  BY DEF Row
<1>3. Fired(s, r, t) = [r EXCEPT !.runs = n, !.next = NextFire[s][t]]
  BY <1>2 DEF Fired
<1> QED
  BY <1>1, <1>2, <1>3 DEF Row

LEMMA AskedTyped ==
  ASSUME NEW op \in Ops, NEW s \in Schedules, NEW r \in Row, now \in Times
  PROVE  Asked(op, s, r) \in Row /\ Asked(op, s, r).runs <= r.runs + Launches(op)
<1>1. NextFire[s][now] \in Nat
  BY NextFireNat
<1>2. CASE op = "pause"
  BY <1>2 DEF Asked, Launches, Row
<1>3. CASE op = "activate"
  BY <1>3 DEF Asked, Launches, Row
<1>4. CASE op = "retime"
  BY <1>1, <1>4 DEF Asked, Launches, Row
<1>5. CASE op = "resume"
  <2>1. PICK n \in Nat : n = NextFire[s][now]
    BY <1>1
  <2>2. Asked(op, s, r) = [status |-> "active", next |-> n, runs |-> r.runs]
    BY <1>5, <2>1 DEF Asked, Row
  <2> QED
    BY <1>5, <2>2 DEF Launches, Row
<1>6. CASE op = "runNow"
  <2>1. PICK n \in Nat : n = r.runs + 1
    BY DEF Row
  <2>2. Asked(op, s, r) = [r EXCEPT !.runs = n]
    BY <1>6, <2>1 DEF Asked
  <2> QED
    BY <1>6, <2>1, <2>2 DEF Launches, Row
<1>7. CASE op = "describe"
  BY <1>7 DEF Asked, Launches, Row
<1>8. CASE op = "delete"
  BY <1>8 DEF Asked, Launches, Row, NoRow
<1> QED
  BY <1>2, <1>3, <1>4, <1>5, <1>6, <1>7, <1>8, ScheduleAssumption

LEMMA AnsweredTyped == Unmade \in Request /\ Answered \in Request
<1>1. Unmade \in Request
  BY DEF Unmade, Request, NoRow, Row
<1> QED
  BY <1>1 DEF Answered, Request

(* An attempt more, or none. *)
LEMMA AttemptsTyped ==
  ASSUME attempts \in [Schedules -> Nat], NEW s, NEW op
  PROVE  [attempts EXCEPT ![s] = @ + Launches(op)] \in [Schedules -> Nat]
<1>1. PICK n \in Nat : n = Launches(op)
  BY DEF Launches
<1>2. [attempts EXCEPT ![s] = attempts[s] + n] =
        [x \in Schedules |-> IF x = s THEN attempts[x] + n ELSE attempts[x]]
  OBVIOUS
<1>3. \A x \in Schedules : attempts[x] + n \in Nat
  OBVIOUS
<1> QED
  BY <1>1, <1>2, <1>3

LEMMA InitTypeOK == Init => TypeOK
  BY ScheduleAssumption DEF Init, TypeOK, NoRow, Row, Times, Columns, Unmade, Request

LEMMA NextTypeOK == TypeOK /\ [Next]_vars => TypeOK'
<1> SUFFICES ASSUME TypeOK, [Next]_vars PROVE TypeOK'
  OBVIOUS
<1>1. ASSUME NEW s \in Schedules, Create(s) PROVE TypeOK'
  <2>1. row' \in [Schedules -> Row]
    BY <1>1, NextFireNat DEF Create, TypeOK, Row
  <2> QED
    BY <1>1, <2>1 DEF Create, TypeOK, tickVars
<1>2. ASSUME NEW q \in Requests, NEW s \in Schedules, NEW op \in Ops, Ask(q, s, op) PROVE TypeOK'
  <2>1. Asked(op, s, row[s]) \in Row
    BY AskedTyped DEF TypeOK
  <2>2. [at |-> "decided", of |-> s, op |-> op, entity |-> Asked(op, s, row[s]), columns |-> {}]
          \in Request
    BY <2>1, ScheduleAssumption DEF Request
  <2>3. req' \in [Requests -> Request]
    BY <1>2, <2>2 DEF Ask, TypeOK
  <2> QED
    BY <1>2, <2>3 DEF Ask, TypeOK, tickVars
<1>3. ASSUME NEW q \in Requests, Reread(q) PROVE TypeOK'
  <2>1. Changed(req[q].entity, row[req[q].of]) \subseteq Columns
    BY DEF Changed
  <2>2. req' \in [Requests -> Request]
    <3>1. CASE row[req[q].of].status = "absent"
      BY <1>3, <3>1, AnsweredTyped DEF Reread, TypeOK
    <3>2. CASE row[req[q].of].status # "absent"
      <4>1. [req[q] EXCEPT !.at = "writing", !.columns = Changed(req[q].entity, row[req[q].of])] \in Request
        BY <2>1 DEF TypeOK, Request
      <4> QED
        BY <1>3, <3>2, <4>1 DEF Reread, TypeOK
    <3> QED
      BY <3>1, <3>2
  <2>3. attempts' \in [Schedules -> Nat]
    BY <1>3, AttemptsTyped DEF Reread, TypeOK
  <2> QED
    BY <1>3, <2>2, <2>3 DEF Reread, TypeOK, tickVars
<1>4. ASSUME NEW q \in Requests, Answer(q) PROVE TypeOK'
  <2>1. req[q].entity \in Row
    BY DEF TypeOK, Request
  <2>2. row' \in [Schedules -> Row]
    BY <1>4, <2>1, OverwriteTyped DEF Answer, TypeOK, NoRow, Row
  <2>3. req' \in [Requests -> Request]
    BY <1>4, AnsweredTyped DEF Answer, TypeOK
  <2>4. attempts' \in [Schedules -> Nat]
    BY <1>4, AttemptsTyped DEF Answer, TypeOK
  <2> QED
    BY <1>4, <2>2, <2>3, <2>4 DEF Answer, TypeOK, tickVars
<1>5. ASSUME NEW w \in Workers, StartTick(w) PROVE TypeOK'
  <2>1. PICK D \in SUBSET DueNow :
          /\ todo' = [todo EXCEPT ![w] = D]
          /\ seen' = [seen EXCEPT ![w] = [s \in Schedules |-> IF s \in D THEN row[s] ELSE NoRow]]
    BY <1>5 DEF StartTick
  <2>2. todo' \in [Workers -> SUBSET Schedules]
    BY <2>1 DEF TypeOK, DueNow
  <2>3. [s \in Schedules |-> IF s \in D THEN row[s] ELSE NoRow] \in [Schedules -> Row]
    BY DEF TypeOK, NoRow, Row
  <2>4. seen' \in [Workers -> [Schedules -> Row]]
    BY <2>1, <2>3 DEF TypeOK
  <2> QED
    BY <1>5, <2>2, <2>4 DEF StartTick, TypeOK
<1>6. ASSUME NEW w \in Workers, Fire(w) PROVE TypeOK'
  <2>1. CASE RollBack(w)
    BY <1>6, <2>1, RollBackTyped DEF Fire, TypeOK
  <2>2. CASE ~RollBack(w)
    <3>1. PICK s \in todo[w] :
            /\ todo' = [todo EXCEPT ![w] = @ \ {s}]
            /\ fired' = [fired EXCEPT ![w] = @ \cup {s}]
            /\ \/ UNCHANGED <<cur, columns>>
               \/ /\ cur' = [cur EXCEPT ![w] = {s}]
                  /\ columns' = [columns EXCEPT ![w][s] =
                                   Changed(Fired(s, seen[w][s], at[w]), row[s])]
            /\ UNCHANGED <<ticking, at, seen, sent, lock>>
      BY <1>6, <2>2 DEF Fire
    <3>2. s \in Schedules
      BY DEF TypeOK
    <3>3. Changed(Fired(s, seen[w][s], at[w]), row[s]) \subseteq Columns
      BY DEF Changed
    <3>4. [columns[w] EXCEPT ![s] = Changed(Fired(s, seen[w][s], at[w]), row[s])]
            \in [Schedules -> SUBSET Columns]
      BY <3>3 DEF TypeOK
    <3>5. columns' \in [Workers -> [Schedules -> SUBSET Columns]]
      BY <3>1, <3>4 DEF TypeOK
    <3>6. cur' \in [Workers -> SUBSET Schedules]
      <4>1. {s} \in SUBSET Schedules
        BY <3>2
      <4>2. CASE cur' = cur
        BY <4>2 DEF TypeOK
      <4>3. CASE cur' = [cur EXCEPT ![w] = {s}]
        BY <4>1, <4>3 DEF TypeOK
      <4> QED
        BY <3>1, <4>2, <4>3
    <3>7. todo' \in [Workers -> SUBSET Schedules] /\ fired' \in [Workers -> SUBSET Schedules]
      <4>1. todo[w] \ {s} \in SUBSET Schedules /\ fired[w] \cup {s} \in SUBSET Schedules
        BY <3>2 DEF TypeOK
      <4> QED
        BY <3>1, <4>1 DEF TypeOK
    <3> QED
      BY <1>6, <3>1, <3>5, <3>6, <3>7 DEF Fire, TypeOK
  <2> QED
    BY <2>1, <2>2
<1>7. ASSUME NEW w \in Workers, Write(w) PROVE TypeOK'
  <2>1. CASE RollBack(w)
    BY <1>7, <2>1, RollBackTyped DEF Write, TypeOK
  <2>2. CASE ~RollBack(w)
    <3>1. PICK s \in cur[w] :
            /\ lock' = [lock EXCEPT ![s] = w]
            /\ sent' = [sent EXCEPT ![w] = @ \cup {s}]
            /\ cur' = [cur EXCEPT ![w] = {}]
            /\ UNCHANGED <<ticking, at, seen, todo, fired, columns>>
      BY <1>7, <2>2 DEF Write
    <3>2. s \in Schedules
      BY DEF TypeOK
    <3> QED
      BY <1>7, <3>1, <3>2 DEF Write, TypeOK
  <2> QED
    BY <2>1, <2>2
<1>8. ASSUME NEW w \in Workers, Commit(w) PROVE TypeOK'
  <2>1. RollBack(w)
    BY <1>8 DEF Commit
  <2>2. \A s \in Schedules : Overwrite(row[s], Fired(s, seen[w][s], at[w]), columns[w][s]) \in Row
    BY FiredTyped, OverwriteTyped DEF TypeOK
  <2>3. row' \in [Schedules -> Row]
    BY <1>8, <2>2 DEF Commit, TypeOK
  <2>4. attempts' \in [Schedules -> Nat]
    BY <1>8 DEF Commit, TypeOK
  <2>5. ASSUME NEW s \in Schedules, NEW x
        PROVE  [slots[s] EXCEPT ![x] = @ + 1] \in [Times -> Nat]
    <3>1. slots[s] \in [Times -> Nat]
      BY DEF TypeOK
    <3>2. \A t \in Times : slots[s][t] + 1 \in Nat
      BY <3>1
    <3>3. [slots[s] EXCEPT ![x] = @ + 1] =
            [t \in Times |-> IF t = x THEN slots[s][t] + 1 ELSE slots[s][t]]
      BY <3>1
    <3> QED
      BY <3>1, <3>2, <3>3
  <2>6. slots' \in [Schedules -> [Times -> Nat]]
    BY <1>8, <2>5 DEF Commit, TypeOK
  <2> QED
    BY <1>8, <2>1, <2>3, <2>4, <2>6, RollBackTyped DEF Commit, TypeOK
<1>9. ASSUME NEW w \in Workers, Victim(w) PROVE TypeOK'
  BY <1>9, RollBackTyped DEF Victim, TypeOK
<1>10. ASSUME NEW w \in Workers, Crash(w) PROVE TypeOK'
  <2>1. crashes' \in 0 .. MaxCrashes
    BY <1>10, ScheduleAssumption DEF Crash, TypeOK
  <2> QED
    BY <1>10, <2>1, RollBackTyped DEF Crash, TypeOK
<1>11. CASE ApiRestart
  <2>1. crashes' \in 0 .. MaxCrashes
    BY <1>11, ScheduleAssumption DEF ApiRestart, TypeOK
  <2>2. req' \in [Requests -> Request]
    BY <1>11, AnsweredTyped DEF ApiRestart
  <2> QED
    BY <1>11, <2>1, <2>2 DEF ApiRestart, TypeOK, tickVars
<1>12. CASE Clock
  <2>1. now' \in Times
    BY <1>12, ScheduleAssumption DEF Clock, TypeOK, Times
  <2> QED
    BY <1>12, <2>1 DEF Clock, TypeOK, tickVars
<1>13. CASE UNCHANGED vars
  BY <1>13 DEF vars, tickVars, TypeOK
<1> QED
  BY <1>1, <1>2, <1>3, <1>4, <1>5, <1>6, <1>7, <1>8, <1>9, <1>10, <1>11, <1>12, <1>13
     DEF Next, Api, Tick

(* Every variable keeps its type. *)
THEOREM TypeCorrect == Spec => []TypeOK
  BY InitTypeOK, NextTypeOK, PTL DEF Spec

(***************************************************************************)
(* run_count never exceeds the attempts                                    *)
(***************************************************************************)

(* A tick that is rolled back has nothing left that could be counted. *)
LEMMA RollBackCovers ==
  ASSUME IInv, NEW w \in Workers, RollBack(w)
  PROVE  /\ \A v \in Workers : sent'[v] \cup cur'[v] \subseteq fired'[v]
         /\ \A v \in Workers : \A s \in Schedules : seen'[v][s].runs <= attempts[s]
<1>1. ASSUME NEW v \in Workers PROVE sent'[v] \cup cur'[v] \subseteq fired'[v]
  BY DEF RollBack, IInv, TypeOK, CountsCovered
<1>2. ASSUME NEW v \in Workers, NEW s \in Schedules PROVE seen'[v][s].runs <= attempts[s]
  <2>1. CASE v = w
    BY <2>1 DEF RollBack, IInv, TypeOK, NoRow
  <2>2. CASE v # w
    BY <2>2 DEF RollBack, IInv, TypeOK, CountsCovered
  <2> QED
    BY <2>1, <2>2
<1> QED
  BY <1>1, <1>2

LEMMA OverwriteCounts ==
  ASSUME NEW r \in Row, NEW e \in Row, NEW cols
  PROVE  Overwrite(r, e, cols).runs \in {r.runs, e.runs}
  BY DEF Overwrite, Row

LEMMA InitIInv == Init => IInv
<1> SUFFICES ASSUME Init PROVE CountsCovered
  BY InitTypeOK DEF IInv
<1> QED
  BY DEF Init, CountsCovered, CountNeverOver, NoRow, Unmade

LEMMA NextIInv == IInv /\ [Next]_vars => IInv'
<1> SUFFICES ASSUME IInv, [Next]_vars PROVE CountsCovered'
  BY NextTypeOK DEF IInv
<1> USE DEF IInv
<1>1. ASSUME NEW s \in Schedules, Create(s) PROVE CountsCovered'
  <2>1. ASSUME NEW r \in Schedules PROVE row'[r].runs <= attempts'[r]
    BY <1>1 DEF Create, TypeOK, CountsCovered, CountNeverOver
  <2> QED
    BY <1>1, <2>1 DEF Create, CountsCovered, CountNeverOver, tickVars
<1>2. ASSUME NEW q \in Requests, NEW s \in Schedules, NEW op \in Ops, Ask(q, s, op) PROVE CountsCovered'
  <2>1. Asked(op, s, row[s]).runs <= row[s].runs + Launches(op)
    BY AskedTyped DEF TypeOK
  <2>2. Asked(op, s, row[s]).runs <= attempts[s] + Launches(op)
    BY <2>1, AskedTyped DEF TypeOK, CountsCovered, CountNeverOver, Row, Launches
  <2>3. ASSUME NEW p \in Requests, req'[p].at \in {"decided", "writing"}
        PROVE  /\ req'[p].of \in Schedules
               /\ req'[p].entity.runs <= attempts'[req'[p].of] + Launches(req'[p].op)
    BY <1>2, <2>2, <2>3 DEF Ask, TypeOK, CountsCovered
  <2> QED
    BY <1>2, <2>3 DEF Ask, CountsCovered, CountNeverOver, tickVars
<1>3. ASSUME NEW q \in Requests, Reread(q) PROVE CountsCovered'
  <2>1. req[q].of \in Schedules
    BY <1>3 DEF Reread, CountsCovered
  <2>2. \A r \in Schedules : attempts[r] \in Nat /\ attempts'[r] \in Nat /\ attempts[r] <= attempts'[r]
    BY <1>3, <2>1 DEF Reread, TypeOK, Launches
  <2>3. \A r \in Schedules : row'[r].runs <= attempts'[r]
    BY <1>3, <2>2 DEF Reread, TypeOK, Row, CountsCovered, CountNeverOver
  <2>4. \A v \in Workers : \A r \in Schedules : seen'[v][r].runs <= attempts'[r]
    BY <1>3, <2>2 DEF Reread, TypeOK, Row, CountsCovered, tickVars
  <2>5. ASSUME NEW p \in Requests, req'[p].at \in {"decided", "writing"}
        PROVE  /\ req'[p].of \in Schedules
               /\ req'[p].entity.runs <= attempts'[req'[p].of] + Launches(req'[p].op)
    <3>1. /\ req[p].at \in {"decided", "writing"} /\ req'[p].of = req[p].of
          /\ req'[p].entity = req[p].entity /\ req'[p].op = req[p].op
      BY <1>3, <2>5 DEF Reread, TypeOK, Request, Answered, Unmade
    <3>2. req[p].of \in Schedules /\ req[p].entity.runs <= attempts[req[p].of] + Launches(req[p].op)
      BY <3>1 DEF CountsCovered
    <3>3. req[p].entity.runs \in Nat
      BY DEF TypeOK, Request, Row
    <3> QED
      BY <2>2, <3>1, <3>2, <3>3 DEF Launches
  <2> QED
    BY <1>3, <2>3, <2>4, <2>5 DEF Reread, CountsCovered, CountNeverOver, tickVars
<1>4. ASSUME NEW q \in Requests, Answer(q) PROVE CountsCovered'
  <2> DEFINE s == req[q].of
             e == req[q].entity
  <2>1. s \in Schedules /\ e.runs <= attempts[s] + Launches(req[q].op)
    BY <1>4 DEF Answer, CountsCovered
  <2>2. e \in Row /\ row[s] \in Row
    BY <2>1 DEF TypeOK, Request
  <2>3. \A r \in Schedules : attempts[r] \in Nat /\ attempts'[r] \in Nat /\ attempts[r] <= attempts'[r]
    BY <1>4, <2>1 DEF Answer, TypeOK, Launches
  <2>4. ASSUME NEW r \in Schedules PROVE row'[r].runs <= attempts'[r]
    <3>1. CASE r # s \/ row[s].status = "absent"
      <4>1. row'[r] = row[r] \/ row'[r] = NoRow
        BY <1>4, <2>1, <3>1 DEF Answer, TypeOK, Overwrite
      <4> QED
        BY <2>3, <4>1 DEF CountsCovered, CountNeverOver, NoRow, TypeOK, Row
    <3>2. CASE r = s /\ row[s].status # "absent"
      <4>1. attempts'[s] = attempts[s] + Launches(req[q].op)
        BY <1>4, <2>1, <3>2 DEF Answer, TypeOK
      <4>2. row'[s] = NoRow \/ row'[s] = Overwrite(row[s], e, req[q].columns)
        BY <1>4, <2>1 DEF Answer, TypeOK
      <4>3. row'[s].runs \in {0, row[s].runs, e.runs}
        BY <2>2, <4>2, OverwriteCounts DEF NoRow
      <4>4. row[s].runs <= attempts[s] /\ row[s].runs \in Nat /\ e.runs \in Nat
        BY <2>1, <2>2 DEF CountsCovered, CountNeverOver, Row
      <4> QED
        BY <2>1, <2>3, <3>2, <4>1, <4>3, <4>4
    <3> QED
      BY <3>1, <3>2
  <2>5. \A v \in Workers : \A r \in Schedules : seen'[v][r].runs <= attempts'[r]
    BY <1>4, <2>3 DEF Answer, TypeOK, Row, CountsCovered, tickVars
  <2>6. ASSUME NEW p \in Requests, req'[p].at \in {"decided", "writing"}
        PROVE  /\ req'[p].of \in Schedules
               /\ req'[p].entity.runs <= attempts'[req'[p].of] + Launches(req'[p].op)
    <3>1. req'[p] = req[p]
      BY <1>4, <2>6 DEF Answer, TypeOK, Answered, Unmade
    <3>2. req[p].of \in Schedules /\ req[p].entity.runs <= attempts[req[p].of] + Launches(req[p].op)
      BY <2>6, <3>1 DEF CountsCovered
    <3>3. req[p].entity.runs \in Nat
      BY DEF TypeOK, Request, Row
    <3> QED
      BY <2>3, <3>1, <3>2, <3>3 DEF Launches
  <2> QED
    BY <1>4, <2>4, <2>5, <2>6 DEF Answer, CountsCovered, CountNeverOver, tickVars
<1>5. ASSUME NEW w \in Workers, StartTick(w) PROVE CountsCovered'
  <2>1. PICK D \in SUBSET DueNow :
          seen' = [seen EXCEPT ![w] = [s \in Schedules |-> IF s \in D THEN row[s] ELSE NoRow]]
    BY <1>5 DEF StartTick
  <2>2. ASSUME NEW v \in Workers, NEW s \in Schedules PROVE seen'[v][s].runs <= attempts[s]
    <3>1. CASE v = w
      BY <2>1, <3>1 DEF TypeOK, CountsCovered, CountNeverOver, NoRow
    <3>2. CASE v # w
      BY <2>1, <3>2 DEF TypeOK, CountsCovered
    <3> QED
      BY <3>1, <3>2
  <2> QED
    BY <1>5, <2>2 DEF StartTick, CountsCovered, CountNeverOver
<1>6. ASSUME NEW w \in Workers, Fire(w) PROVE CountsCovered'
  <2>1. CASE RollBack(w)
    BY <1>6, <2>1, RollBackCovers DEF Fire, CountsCovered, CountNeverOver
  <2>2. CASE ~RollBack(w)
    <3>1. PICK s \in todo[w] :
            /\ fired' = [fired EXCEPT ![w] = @ \cup {s}]
            /\ cur' = cur \/ cur' = [cur EXCEPT ![w] = {s}]
            /\ seen' = seen /\ sent' = sent
      BY <1>6, <2>2 DEF Fire
    <3>2. ASSUME NEW v \in Workers PROVE sent'[v] \cup cur'[v] \subseteq fired'[v]
      BY <3>1 DEF TypeOK, CountsCovered
    <3> QED
      BY <1>6, <3>1, <3>2 DEF Fire, CountsCovered, CountNeverOver
  <2> QED
    BY <2>1, <2>2
<1>7. ASSUME NEW w \in Workers, Write(w) PROVE CountsCovered'
  <2>1. CASE RollBack(w)
    BY <1>7, <2>1, RollBackCovers DEF Write, CountsCovered, CountNeverOver
  <2>2. CASE ~RollBack(w)
    <3>1. PICK s \in cur[w] :
            /\ sent' = [sent EXCEPT ![w] = @ \cup {s}]
            /\ cur' = [cur EXCEPT ![w] = {}]
            /\ seen' = seen /\ fired' = fired
      BY <1>7, <2>2 DEF Write
    <3>2. ASSUME NEW v \in Workers PROVE sent'[v] \cup cur'[v] \subseteq fired'[v]
      BY <3>1 DEF TypeOK, CountsCovered
    <3> QED
      BY <1>7, <3>1, <3>2 DEF Write, CountsCovered, CountNeverOver
  <2> QED
    BY <2>1, <2>2
<1>8. ASSUME NEW w \in Workers, Commit(w) PROVE CountsCovered'
  <2>1. RollBack(w)
    BY <1>8 DEF Commit
  <2>2. \A s \in Schedules :
          /\ attempts[s] \in Nat /\ attempts'[s] \in Nat /\ attempts[s] <= attempts'[s]
          /\ s \in fired[w] => attempts'[s] = attempts[s] + 1
    BY <1>8 DEF Commit, TypeOK
  <2>3. ASSUME NEW s \in Schedules PROVE row'[s].runs <= attempts'[s]
    <3>1. row[s] \in Row /\ seen[w][s] \in Row /\ row[s].runs <= attempts[s] /\ seen[w][s].runs <= attempts[s]
      BY DEF TypeOK, CountsCovered, CountNeverOver
    <3>2. CASE s \in sent[w]
      <4>1. Fired(s, seen[w][s], at[w]) \in Row /\ Fired(s, seen[w][s], at[w]).runs = seen[w][s].runs + 1
        BY <3>1, FiredTyped DEF TypeOK
      <4>2. row'[s].runs \in {row[s].runs, seen[w][s].runs + 1}
        BY <1>8, <3>1, <3>2, <4>1, OverwriteCounts DEF Commit
      <4>3. s \in fired[w]
        BY <3>2 DEF CountsCovered
      <4> QED
        BY <2>2, <3>1, <4>2, <4>3 DEF Row
    <3>3. CASE s \notin sent[w]
      BY <1>8, <2>2, <3>1, <3>3 DEF Commit, Row
    <3> QED
      BY <3>2, <3>3
  <2>4. \A v \in Workers : \A s \in Schedules : seen'[v][s].runs <= attempts[s] /\ seen'[v][s].runs \in Nat
    BY <2>1, RollBackCovers, RollBackTyped DEF Row
  <2>5. \A v \in Workers : \A s \in Schedules : seen'[v][s].runs <= attempts'[s]
    BY <2>2, <2>4
  <2>6. ASSUME NEW p \in Requests, req'[p].at \in {"decided", "writing"}
        PROVE  /\ req'[p].of \in Schedules
               /\ req'[p].entity.runs <= attempts'[req'[p].of] + Launches(req'[p].op)
    <3>1. req' = req
      BY <1>8 DEF Commit
    <3>2. req[p].of \in Schedules /\ req[p].entity.runs <= attempts[req[p].of] + Launches(req[p].op)
      BY <2>6, <3>1 DEF CountsCovered
    <3>3. req[p].entity.runs \in Nat
      BY DEF TypeOK, Request, Row
    <3> QED
      BY <2>2, <3>1, <3>2, <3>3 DEF Launches
  <2>7. \A v \in Workers : sent'[v] \cup cur'[v] \subseteq fired'[v]
    BY <2>1, RollBackCovers
  <2> QED
    BY <2>3, <2>5, <2>6, <2>7 DEF CountsCovered, CountNeverOver
<1>9. ASSUME NEW w \in Workers, Victim(w) PROVE CountsCovered'
  BY <1>9, RollBackCovers DEF Victim, CountsCovered, CountNeverOver
<1>10. ASSUME NEW w \in Workers, Crash(w) PROVE CountsCovered'
  BY <1>10, RollBackCovers DEF Crash, CountsCovered, CountNeverOver
<1>11. CASE ApiRestart
  <2>1. ASSUME NEW p \in Requests PROVE req'[p].at \notin {"decided", "writing"}
    BY <1>11 DEF ApiRestart, Unmade, Answered
  <2> QED
    BY <1>11, <2>1 DEF ApiRestart, CountsCovered, CountNeverOver, tickVars
<1>12. CASE Clock
  BY <1>12 DEF Clock, CountsCovered, CountNeverOver, tickVars
<1>13. CASE UNCHANGED vars
  BY <1>13 DEF vars, tickVars, CountsCovered, CountNeverOver
<1> QED
  BY <1>1, <1>2, <1>3, <1>4, <1>5, <1>6, <1>7, <1>8, <1>9, <1>10, <1>11, <1>12, <1>13
     DEF Next, Api, Tick

THEOREM Invariance == Spec => []IInv
  BY InitIInv, NextIInv, PTL DEF Spec

(* However ticks, requests, rollbacks and stale entities interleave,        *)
(* run_count never claims an attempt that was not made.                     *)
THEOREM CountNeverOverHolds == Spec => []CountNeverOver
<1>1. IInv => CountNeverOver
  BY DEF IInv, CountsCovered
<1> QED
  BY <1>1, Invariance, PTL

(***************************************************************************)
(* Deletion and pausing                                                    *)
(***************************************************************************)
DeleteStep == \A s \in created : row[s].status = "absent" => row'[s].status = "absent"

PauseStep ==
  \A s \in Schedules :
    row[s].status = "paused" /\ ~StaleActive(s)
    => /\ row'[s].status # "active"
       /\ StaleActive(s)' =>
            \E q \in Requests : req'[q].of = s /\ req'[q].op \in {"resume", "activate"}

LEMMA OverwriteStatus ==
  ASSUME NEW r, NEW e, NEW cols
  PROVE  /\ r.status = "absent" => Overwrite(r, e, cols).status = "absent"
         /\ Overwrite(r, e, cols).status \in {r.status, e.status}
  BY DEF Overwrite

LEMMA NextDelete == TypeOK /\ [Next]_vars => DeleteStep
<1> SUFFICES ASSUME TypeOK, [Next]_vars, NEW s \in created, row[s].status = "absent"
             PROVE  row'[s].status = "absent"
  BY DEF DeleteStep
<1>0. s \in Schedules
  BY DEF TypeOK
<1>1. ASSUME NEW r \in Schedules, Create(r) PROVE row'[s].status = "absent"
  BY <1>0, <1>1 DEF Create, TypeOK
<1>2. ASSUME NEW q \in Requests, Answer(q) PROVE row'[s].status = "absent"
  BY <1>0, <1>2, OverwriteStatus DEF Answer, TypeOK, NoRow
<1>3. ASSUME NEW w \in Workers, Commit(w) PROVE row'[s].status = "absent"
  BY <1>0, <1>3, OverwriteStatus DEF Commit, TypeOK
<1>4. CASE UNCHANGED row
  BY <1>4
<1> QED
  BY <1>1, <1>2, <1>3, <1>4
     DEF Next, Api, Tick, Ask, Reread, StartTick, Fire, Write, Victim, Crash, ApiRestart, Clock, vars

(* A schedule that has been deleted stays deleted: no tick or request that  *)
(* still holds it as an entity writes it back.                              *)
THEOREM DeletedForGoodHolds == Spec => DeletedForGood
<1>1. TypeOK /\ [Next]_vars => [DeleteStep]_vars
  BY NextDelete
<1> QED
  BY <1>1, TypeCorrect, PTL DEF Spec, DeletedForGood, DeleteStep

(* A row belongs to a schedule that was created. *)
Known == \A s \in Schedules : row[s].status # "absent" => s \in created

LEMMA NextKnown == TypeOK /\ Known /\ [Next]_vars => Known'
<1> SUFFICES ASSUME TypeOK, Known, [Next]_vars, NEW s \in Schedules, row'[s].status # "absent"
             PROVE  s \in created'
  BY DEF Known
<1>1. ASSUME NEW r \in Schedules, Create(r) PROVE s \in created'
  BY <1>1 DEF Create, TypeOK, Known
<1>2. ASSUME NEW q \in Requests, Answer(q) PROVE s \in created'
  <2>1. row[s].status # "absent"
    BY <1>2, OverwriteStatus DEF Answer, TypeOK, NoRow
  <2> QED
    BY <1>2, <2>1 DEF Answer, Known
<1>3. ASSUME NEW w \in Workers, Commit(w) PROVE s \in created'
  <2>1. row[s].status # "absent"
    BY <1>3, OverwriteStatus DEF Commit, TypeOK
  <2> QED
    BY <1>3, <2>1 DEF Commit, Known
<1>4. CASE UNCHANGED <<row, created>>
  BY <1>4 DEF Known
<1> QED
  BY <1>1, <1>2, <1>3, <1>4
     DEF Next, Api, Tick, Ask, Reread, StartTick, Fire, Write, Victim, Crash, ApiRestart, Clock, vars

LEMMA KnownHolds == Spec => []Known
<1>1. Init => Known
  BY DEF Init, Known, NoRow
<1> QED
  BY <1>1, NextKnown, TypeCorrect, PTL DEF Spec

LEMMA NextPause == TypeOK /\ Known /\ [Next]_vars => PauseStep
<1> SUFFICES ASSUME TypeOK, Known, [Next]_vars, NEW s \in Schedules,
                    row[s].status = "paused", ~StaleActive(s)
             PROVE  /\ row'[s].status # "active"
                    /\ StaleActive(s)' =>
                         \E q \in Requests : req'[q].of = s /\ req'[q].op \in {"resume", "activate"}
  BY DEF PauseStep
<1> DEFINE Quiet == \A w \in Workers : seen[w][s].status # "active"
           Still == \A q \in Requests : req[q].of = s => req[q].entity.status # "active"
<1>0. Quiet /\ Still
  BY DEF StaleActive
<1>a. Quiet' /\ Still' => ~StaleActive(s)'
  BY DEF StaleActive
<1>b. ASSUME NEW w \in Workers, RollBack(w) PROVE Quiet'
  BY <1>0, <1>b DEF RollBack, TypeOK, NoRow
<1>c. seen' = seen => Quiet'
  BY <1>0
<1>d. req' = req => Still'
  BY <1>0
<1> HIDE DEF Quiet, Still
<1>1. ASSUME NEW r \in Schedules, Create(r) PROVE row'[s].status # "active" /\ ~StaleActive(s)'
  <2>1. r # s
    BY <1>1 DEF Create, Known
  <2> QED
    BY <1>1, <2>1, <1>a, <1>c, <1>d DEF Create, TypeOK, tickVars
<1>2. ASSUME NEW q \in Requests, NEW r \in Schedules, NEW op \in Ops, Ask(q, r, op)
      PROVE  /\ row'[s].status # "active"
             /\ StaleActive(s)' =>
                  \E p \in Requests : req'[p].of = s /\ req'[p].op \in {"resume", "activate"}
  <2>1. req'[q].of = r /\ req'[q].op = op /\ req'[q].entity = Asked(op, r, row[r])
    BY <1>2 DEF Ask, TypeOK
  <2>2. CASE r = s /\ op \in {"resume", "activate"}
    BY <1>2, <2>1, <2>2 DEF Ask
  <2>3. CASE r = s /\ op \notin {"resume", "activate"}
    <3>1. Asked(op, s, row[s]).status # "active"
      BY <2>3, ScheduleAssumption DEF Asked, NoRow, TypeOK, Row
    <3>2. Still'
      BY <1>0, <1>2, <2>1, <2>3, <3>1 DEF Ask, TypeOK, Still
    <3> QED
      BY <1>2, <3>2, <1>a, <1>c DEF Ask, tickVars
  <2>4. CASE r # s
    <3>1. Still'
      BY <1>0, <1>2, <2>1, <2>4 DEF Ask, TypeOK, Still
    <3> QED
      BY <1>2, <3>1, <1>a, <1>c DEF Ask, tickVars
  <2> QED
    BY <2>2, <2>3, <2>4
<1>3. ASSUME NEW q \in Requests, Reread(q) PROVE row'[s].status # "active" /\ ~StaleActive(s)'
  <2>1. ASSUME NEW p \in Requests
        PROVE  \/ req'[p].entity = req[p].entity /\ req'[p].of = req[p].of
               \/ req'[p].entity = NoRow
    <3>1. CASE p # q
      BY <1>3, <3>1 DEF Reread, TypeOK
    <3>2. CASE p = q /\ row[req[q].of].status = "absent"
      <4>1. req'[p] = Answered
        BY <1>3, <3>2 DEF Reread, TypeOK
      <4> QED
        BY <4>1 DEF Answered, Unmade
    <3>3. CASE p = q /\ row[req[q].of].status # "absent"
      <4>1. req'[q] = [req[q] EXCEPT !.at = "writing", !.columns = Changed(req[q].entity, row[req[q].of])]
        BY <1>3, <3>3 DEF Reread, TypeOK
      <4>2. req[q] \in Request
        BY DEF TypeOK
      <4> QED
        BY <4>1, <4>2, <3>3 DEF Request
    <3> QED
      BY <3>1, <3>2, <3>3
  <2>2. Still'
    BY <1>0, <2>1 DEF Still, NoRow
  <2> QED
    BY <1>3, <2>2, <1>a, <1>c DEF Reread, tickVars
<1>4. ASSUME NEW q \in Requests, Answer(q) PROVE row'[s].status # "active" /\ ~StaleActive(s)'
  <2>1. Still'
    BY <1>0, <1>4 DEF Answer, TypeOK, Answered, Unmade, NoRow, Still
  <2>2. row'[s].status # "active"
    <3>1. CASE req[q].of = s
      <4>1. req[q].entity.status # "active"
        BY <1>0, <3>1 DEF Still
      <4>2. row'[s] = NoRow \/ row'[s] = Overwrite(row[s], req[q].entity, req[q].columns)
        BY <1>4, <3>1 DEF Answer, TypeOK
      <4>3. Overwrite(row[s], req[q].entity, req[q].columns).status \in {row[s].status, req[q].entity.status}
        BY OverwriteStatus
      <4> QED
        BY <4>1, <4>2, <4>3 DEF NoRow
    <3>2. CASE req[q].of # s
      BY <1>4, <3>2 DEF Answer, TypeOK
    <3> QED
      BY <3>1, <3>2
  <2> QED
    BY <1>4, <2>1, <2>2, <1>a, <1>c DEF Answer, tickVars
<1>5. ASSUME NEW w \in Workers, StartTick(w) PROVE row'[s].status # "active" /\ ~StaleActive(s)'
  <2>1. PICK D \in SUBSET DueNow :
          seen' = [seen EXCEPT ![w] = [r \in Schedules |-> IF r \in D THEN row[r] ELSE NoRow]]
    BY <1>5 DEF StartTick
  <2>2. s \notin D
    BY <2>1 DEF DueNow
  <2>3. Quiet'
    BY <1>0, <2>1, <2>2 DEF Quiet, TypeOK, NoRow
  <2> QED
    BY <1>5, <2>3, <1>a, <1>d DEF StartTick
<1>6. ASSUME NEW w \in Workers, Fire(w) PROVE row'[s].status # "active" /\ ~StaleActive(s)'
  <2>1. RollBack(w) \/ seen' = seen
    BY <1>6 DEF Fire
  <2> QED
    BY <1>6, <2>1, <1>a, <1>b, <1>c, <1>d DEF Fire
<1>7. ASSUME NEW w \in Workers, Write(w) PROVE row'[s].status # "active" /\ ~StaleActive(s)'
  <2>1. RollBack(w) \/ seen' = seen
    BY <1>7 DEF Write
  <2> QED
    BY <1>7, <2>1, <1>a, <1>b, <1>c, <1>d DEF Write
<1>8. ASSUME NEW w \in Workers, Commit(w) PROVE row'[s].status # "active" /\ ~StaleActive(s)'
  <2>1. Fired(s, seen[w][s], at[w]).status # "active"
    BY <1>0 DEF Fired, Quiet, TypeOK, Row
  <2>2. row'[s].status # "active"
    BY <1>8, <2>1, OverwriteStatus DEF Commit, TypeOK
  <2> QED
    BY <1>8, <2>2, <1>a, <1>b, <1>d DEF Commit
<1>9. ASSUME NEW w \in Workers, Victim(w) PROVE row'[s].status # "active" /\ ~StaleActive(s)'
  BY <1>9, <1>a, <1>b, <1>d DEF Victim
<1>10. ASSUME NEW w \in Workers, Crash(w) PROVE row'[s].status # "active" /\ ~StaleActive(s)'
  BY <1>10, <1>a, <1>b, <1>d DEF Crash
<1>11. CASE ApiRestart
  <2>1. Still'
    BY <1>11 DEF ApiRestart, Unmade, Answered, NoRow, Still
  <2> QED
    BY <1>11, <2>1, <1>a, <1>c DEF ApiRestart, tickVars
<1>12. CASE Clock
  BY <1>12, <1>a, <1>c, <1>d DEF Clock, tickVars
<1>13. CASE UNCHANGED vars
  BY <1>13, <1>a, <1>c, <1>d DEF vars, tickVars
<1> QED
  BY <1>1, <1>2, <1>3, <1>4, <1>5, <1>6, <1>7, <1>8, <1>9, <1>10, <1>11, <1>12, <1>13
     DEF Next, Api, Tick

(* Once the transactions that read it active are over, a paused schedule    *)
(* stays paused until somebody asks to resume it.                           *)
THEOREM PausedUntilResumedHolds == Spec => PausedUntilResumed
<1>1. TypeOK /\ Known /\ [Next]_vars => [PauseStep]_vars
  BY NextPause
<1> QED
  BY <1>1, TypeCorrect, KnownHolds, PTL DEF Spec, PausedUntilResumed, PauseStep

(***************************************************************************)
(* One worker, and users who only create and delete                        *)
(*                                                                         *)
(* Two ticks that read the same row both fire it, and an edit that was      *)
(* read before a tick and rereads the row after it writes the old columns   *)
(* back; so both promises need this hypothesis, and the runs show each      *)
(* broken without it.                                                       *)
(***************************************************************************)
Alone == (\A v, w \in Workers : v = w) /\ Ops \subseteq {"delete"}

DeletesOnly == \A q \in Requests : req[q].at \in {"decided", "writing"} => req[q].op = "delete"

Idle == \A w \in Workers \ ticking : todo[w] = {} /\ fired[w] = {} /\ cur[w] = {} /\ sent[w] = {}

(* The committed side: what has been fired lies before the next due time.   *)
Behind(s) ==
  /\ \A t \in Times : slots[s][t] <= 1
  /\ s \notin created => attempts[s] = 0 /\ \A t \in Times : slots[s][t] = 0
  /\ row[s].status # "absent" =>
       /\ row[s].runs = attempts[s]
       /\ \A t \in Times : slots[s][t] # 0 => t < row[s].next

(* The open tick: what it read is still so, unless it has been deleted,     *)
(* and lies beyond everything fired for before.                             *)
Held(w, s) ==
  s \in todo[w] \cup fired[w] =>
    /\ s \in created
    /\ seen[w][s].next <= at[w]
    /\ \A t \in Times : slots[s][t] # 0 => t < seen[w][s].next
    /\ row[s].status # "absent" => row[s] = seen[w][s]

Sending(w, s) ==
  s \in fired[w] =>
    /\ s \notin todo[w]
    /\ s \in cur[w] => cur[w] = {s}
    /\ ~NoNextTime(s, at[w])
    /\ row[s].status # "absent" =>
         /\ s \in cur[w] \cup sent[w]
         /\ columns[w][s] = Changed(Fired(s, seen[w][s], at[w]), seen[w][s])

AloneInv ==
  /\ IInv
  /\ Known
  /\ DeletesOnly
  /\ Idle
  /\ \A s \in Schedules : Behind(s)
  /\ \A w \in Workers : \A s \in Schedules : Held(w, s) /\ Sending(w, s)

(* What the promises speak of, when nothing of it changes.                  *)
LEMMA AloneStill ==
  ASSUME AloneInv, UNCHANGED <<row, created, attempts, slots>>,
         UNCHANGED <<at, seen, todo, cur, fired, sent, columns>>
  PROVE  /\ \A s \in Schedules : Behind(s)'
         /\ \A w \in Workers : \A s \in Schedules : Held(w, s)' /\ Sending(w, s)'
<1>1. ASSUME NEW s \in Schedules PROVE Behind(s)'
  <2>1. Behind(s)
    BY DEF AloneInv
  <2> QED
    BY <2>1 DEF Behind
<1>2. ASSUME NEW w \in Workers, NEW s \in Schedules PROVE Held(w, s)' /\ Sending(w, s)'
  <2>1. Held(w, s) /\ Sending(w, s)
    BY DEF AloneInv
  <2> QED
    BY <2>1 DEF Held, Sending
<1> QED
  BY <1>1, <1>2

(* A worker that lost its session has nothing in hand, and there is no other. *)
LEMMA AloneRollBack ==
  ASSUME AloneInv, Alone, NEW w \in Workers, RollBack(w)
  PROVE  /\ Idle'
         /\ \A v \in Workers : \A s \in Schedules : Held(v, s)' /\ Sending(v, s)'
<1>1. \A v \in Workers : todo'[v] = {} /\ fired'[v] = {} /\ cur'[v] = {} /\ sent'[v] = {}
  <2>1. \A v \in Workers : v = w
    BY DEF Alone
  <2>2. todo'[w] = {} /\ fired'[w] = {} /\ cur'[w] = {} /\ sent'[w] = {}
    BY DEF RollBack, AloneInv, IInv, TypeOK
  <2> QED
    BY <2>1, <2>2
<1> QED
  BY <1>1 DEF Idle, Held, Sending

(* An UPDATE of the columns that moved, on the row they were read from, is  *)
(* the move.                                                                *)
LEMMA OverwriteMoves ==
  ASSUME NEW r \in Row, NEW e \in Row, r.status # "absent"
  PROVE  Overwrite(r, e, Changed(e, r)) = e
<1> DEFINE c == Changed(e, r)
<1>1. /\ "status" \in c <=> e.status # r.status
      /\ "next" \in c <=> e.next # r.next
      /\ "runs" \in c <=> e.runs # r.runs
  BY DEF Changed, Columns
<1> HIDE DEF c
<1>2. Overwrite(r, e, c) = [status |-> e.status, next |-> e.next, runs |-> e.runs]
  BY <1>1 DEF Overwrite
<1>3. e = [status |-> e.status, next |-> e.next, runs |-> e.runs]
  BY DEF Row
<1> QED
  BY <1>2, <1>3 DEF c

LEMMA AloneRequests ==
  ASSUME AloneInv, Alone, [Next]_vars PROVE DeletesOnly'
<1> SUFFICES ASSUME NEW p \in Requests, req'[p].at \in {"decided", "writing"}
             PROVE  req'[p].op = "delete"
  BY DEF DeletesOnly
<1> USE DEF AloneInv, IInv
<1>1. ASSUME NEW q \in Requests, NEW s \in Schedules, NEW op \in Ops, Ask(q, s, op)
      PROVE  req'[p].op = "delete"
  <2>1. op = "delete"
    BY DEF Alone
  <2> QED
    BY <1>1, <2>1 DEF Ask, TypeOK, DeletesOnly
<1>2. ASSUME NEW q \in Requests, Reread(q) PROVE req'[p].op = "delete"
  <2>1. req[p].at \in {"decided", "writing"} /\ req'[p].op = req[p].op
    <3>1. CASE p # q
      BY <1>2, <3>1 DEF Reread, TypeOK
    <3>2. CASE p = q /\ row[req[q].of].status = "absent"
      <4>1. req'[p] = Answered
        BY <1>2, <3>2 DEF Reread, TypeOK
      <4> QED
        BY <4>1 DEF Answered, Unmade
    <3>3. CASE p = q /\ row[req[q].of].status # "absent"
      <4>1. req'[q] = [req[q] EXCEPT !.at = "writing", !.columns = Changed(req[q].entity, row[req[q].of])]
        BY <1>2, <3>3 DEF Reread, TypeOK
      <4>2. req[q] \in Request /\ req[q].at = "decided"
        BY <1>2 DEF Reread, TypeOK
      <4> QED
        BY <4>1, <4>2, <3>3 DEF Request
    <3> QED
      BY <3>1, <3>2, <3>3
  <2> QED
    BY <2>1 DEF DeletesOnly
<1>3. ASSUME NEW q \in Requests, Answer(q) PROVE req'[p].op = "delete"
  BY <1>3 DEF Answer, TypeOK, Request, Answered, Unmade, DeletesOnly
<1>4. CASE ApiRestart
  BY <1>4 DEF ApiRestart, Answered, Unmade
<1>5. CASE UNCHANGED req
  BY <1>5 DEF DeletesOnly
<1> QED
  BY <1>1, <1>2, <1>3, <1>4, <1>5
     DEF Next, Api, Tick, Create, StartTick, Fire, Write, Commit, Victim, Crash, Clock, vars

LEMMA InitAlone == Init => AloneInv
<1> SUFFICES ASSUME Init PROVE AloneInv
  OBVIOUS
<1>1. IInv
  BY InitIInv
<1>2. \A s \in Schedules : Behind(s)
  BY DEF Init, Behind, NoRow
<1>3. Known /\ DeletesOnly /\ Idle
  BY DEF Init, Known, DeletesOnly, Idle, NoRow, Unmade
<1>4. \A w \in Workers : \A s \in Schedules : Held(w, s) /\ Sending(w, s)
  BY DEF Init, Held, Sending
<1> QED
  BY <1>1, <1>2, <1>3, <1>4 DEF AloneInv

LEMMA NextAlone == AloneInv /\ Alone /\ [Next]_vars => AloneInv'
<1> SUFFICES ASSUME AloneInv, Alone, [Next]_vars PROVE AloneInv'
  OBVIOUS
<1> DEFINE Rest == /\ Idle
                   /\ \A s \in Schedules : Behind(s)
                   /\ \A w \in Workers : \A s \in Schedules : Held(w, s) /\ Sending(w, s)
<1>0. /\ TypeOK /\ IInv /\ Known /\ DeletesOnly /\ Idle
      /\ \A s \in Schedules : Behind(s)
      /\ \A w \in Workers : \A s \in Schedules : Held(w, s) /\ Sending(w, s)
  BY DEF AloneInv, IInv
<1>a. IInv' /\ Known' /\ DeletesOnly'
  BY <1>0, NextIInv, NextKnown, AloneRequests
<1>b. ASSUME UNCHANGED <<row, created, attempts, slots>>, UNCHANGED tickVars PROVE Rest'
  <2>1. Idle'
    BY <1>0, <1>b DEF Idle, tickVars
  <2> QED
    BY <1>b, <2>1, AloneStill DEF tickVars
<1>c. ASSUME NEW w \in Workers, RollBack(w), UNCHANGED <<row, created, attempts, slots>> PROVE Rest'
  <2>1. ASSUME NEW s \in Schedules PROVE Behind(s)'
    BY <1>0, <1>c DEF Behind
  <2> QED
    BY <1>c, <2>1, AloneRollBack
<1>1. ASSUME NEW s \in Schedules, Create(s) PROVE Rest'
  <2>1. ASSUME NEW r \in Schedules PROVE Behind(r)'
    <3>1. CASE r # s
      <4>1. row'[r] = row[r] /\ (r \in created' <=> r \in created)
        BY <1>0, <1>1, <3>1 DEF Create, TypeOK
      <4> QED
        BY <1>0, <1>1, <4>1 DEF Create, Behind
    <3>2. CASE r = s
      <4>1. row'[s] = [status |-> "active", next |-> NextFire[s][now], runs |-> 0]
        BY <1>0, <1>1 DEF Create, TypeOK
      <4>2. attempts[s] = 0 /\ \A t \in Times : slots[s][t] = 0
        BY <1>0, <1>1 DEF Create, Behind
      <4>3. s \in created' /\ attempts' = attempts /\ slots' = slots
        BY <1>1 DEF Create
      <4> QED
        BY <3>2, <4>1, <4>2, <4>3 DEF Behind
    <3> QED
      BY <3>1, <3>2
  <2>2. ASSUME NEW w \in Workers, NEW r \in Schedules PROVE Held(w, r)' /\ Sending(w, r)'
    <3>1. Held(w, r) /\ Sending(w, r)
      BY <1>0
    <3>2. CASE r # s
      <4>1. row'[r] = row[r] /\ (r \in created' <=> r \in created)
        BY <1>0, <1>1, <3>2 DEF Create, TypeOK
      <4> QED
        BY <1>1, <3>1, <4>1 DEF Create, tickVars, Held, Sending
    <3>3. CASE r = s
      <4>1. s \notin todo[w] \cup fired[w]
        BY <1>1, <3>1, <3>3 DEF Create, Held
      <4> QED
        BY <1>1, <3>3, <4>1 DEF Create, tickVars, Held, Sending
    <3> QED
      BY <3>2, <3>3
  <2>3. Idle'
    BY <1>0, <1>1 DEF Create, tickVars, Idle
  <2> QED
    BY <2>1, <2>2, <2>3
<1>2. ASSUME NEW q \in Requests, NEW s \in Schedules, NEW op \in Ops, Ask(q, s, op) PROVE Rest'
  BY <1>2, <1>b DEF Ask
<1>3. ASSUME NEW q \in Requests, Reread(q) PROVE Rest'
  <2>1. Launches(req[q].op) = 0
    BY <1>0, <1>3 DEF Reread, DeletesOnly, Launches
  <2>2. attempts' = attempts
    <3>1. [attempts EXCEPT ![req[q].of] = @ + 0] = attempts
      BY <1>0 DEF TypeOK
    <3> QED
      BY <1>3, <2>1, <3>1 DEF Reread
  <2> QED
    BY <1>3, <2>2, <1>b DEF Reread
<1>4. ASSUME NEW q \in Requests, Answer(q) PROVE Rest'
  <2> DEFINE s == req[q].of
  <2>1. req[q].op = "delete" /\ Launches(req[q].op) = 0
    BY <1>0, <1>4 DEF Answer, DeletesOnly, Launches
  <2>2. row' = [row EXCEPT ![s] = NoRow]
    BY <1>4, <2>1 DEF Answer
  <2>3. attempts' = attempts
    <3>1. [attempts EXCEPT ![s] = @ + 0] = attempts
      BY <1>0 DEF TypeOK
    <3> QED
      BY <1>4, <2>1, <3>1 DEF Answer
  <2>4. created' = created /\ slots' = slots /\ UNCHANGED tickVars
    BY <1>4 DEF Answer
  <2>5. ASSUME NEW r \in Schedules PROVE row'[r].status # "absent" => row'[r] = row[r]
    BY <1>0, <2>2 DEF TypeOK, NoRow
  <2> HIDE DEF s
  <2>6. ASSUME NEW r \in Schedules PROVE Behind(r)'
    <3>1. Behind(r)
      BY <1>0
    <3> QED
      BY <2>3, <2>4, <2>5, <3>1 DEF Behind
  <2>7. ASSUME NEW w \in Workers, NEW r \in Schedules PROVE Held(w, r)' /\ Sending(w, r)'
    <3>1. Held(w, r) /\ Sending(w, r)
      BY <1>0
    <3> QED
      BY <2>4, <2>5, <3>1 DEF Held, Sending, tickVars
  <2>8. Idle'
    BY <1>0, <2>4 DEF tickVars, Idle
  <2> QED
    BY <2>6, <2>7, <2>8
<1>5. ASSUME NEW w \in Workers, StartTick(w) PROVE Rest'
  <2>1. PICK D \in SUBSET DueNow :
          /\ todo' = [todo EXCEPT ![w] = D]
          /\ seen' = [seen EXCEPT ![w] = [s \in Schedules |-> IF s \in D THEN row[s] ELSE NoRow]]
    BY <1>5 DEF StartTick
  <2>2. fired[w] = {} /\ fired' = fired /\ at'[w] = now
    BY <1>0, <1>5 DEF StartTick, Idle, TypeOK
  <2>3. \A v \in Workers : v = w
    BY DEF Alone
  <2>4. ASSUME NEW s \in Schedules PROVE Held(w, s)' /\ Sending(w, s)'
    <3>1. CASE s \in D
      <4>1. row[s].status = "active" /\ row[s].next <= now
        BY <3>1 DEF DueNow
      <4>2. seen'[w][s] = row[s]
        BY <1>0, <2>1, <3>1 DEF TypeOK
      <4>3. Behind(s) /\ s \in created
        BY <1>0, <4>1 DEF Known
      <4> QED
        BY <1>5, <2>2, <4>1, <4>2, <4>3 DEF StartTick, Behind, Held, Sending
    <3>2. CASE s \notin D
      <4>1. s \notin todo'[w] \cup fired'[w]
        BY <1>0, <2>1, <2>2, <3>2 DEF TypeOK
      <4> QED
        BY <4>1 DEF Held, Sending
    <3> QED
      BY <3>1, <3>2
  <2>5. ASSUME NEW s \in Schedules PROVE Behind(s)'
    BY <1>0, <1>5 DEF StartTick, Behind
  <2>6. Idle'
    BY <1>5, <2>3 DEF StartTick, Idle
  <2> QED
    BY <2>3, <2>4, <2>5, <2>6
<1>6. ASSUME NEW w \in Workers, Fire(w) PROVE Rest'
  <2>0. UNCHANGED <<row, created, attempts, slots>>
    BY <1>6 DEF Fire
  <2>1. CASE RollBack(w)
    BY <2>0, <2>1, <1>c
  <2>2. CASE ~RollBack(w)
    <3>1. PICK s \in todo[w] :
            /\ ~Raises(s, at[w])
            /\ todo' = [todo EXCEPT ![w] = @ \ {s}]
            /\ fired' = [fired EXCEPT ![w] = @ \cup {s}]
            /\ IF row[s].status = "absent" THEN UNCHANGED <<cur, columns>>
               ELSE /\ cur' = [cur EXCEPT ![w] = {s}]
                    /\ columns' = [columns EXCEPT ![w][s] =
                                     Changed(Fired(s, seen[w][s], at[w]), row[s])]
            /\ UNCHANGED <<ticking, at, seen, sent, lock>>
      BY <1>6, <2>2 DEF Fire
    <3>2. s \in Schedules /\ cur[w] = {}
      BY <1>0, <1>6 DEF TypeOK, Fire
    <3>3. \A v \in Workers : v = w
      BY DEF Alone
    <3>4. todo'[w] = todo[w] \ {s} /\ fired'[w] = fired[w] \cup {s}
      BY <1>0, <3>1 DEF TypeOK
    <3>5. w \in ticking
      BY <1>0, <3>1 DEF Idle
    <3>6. ASSUME NEW r \in Schedules PROVE Held(w, r)'
      BY <1>0, <2>0, <3>1, <3>4 DEF Held
    <3>7. ASSUME NEW r \in Schedules PROVE Sending(w, r)'
      <4>1. CASE r = s
        <5>1. s \notin todo'[w] /\ ~NoNextTime(s, at'[w])
          BY <3>1, <3>4 DEF Raises
        <5>2. ASSUME row'[s].status # "absent"
              PROVE  s \in cur'[w] /\ columns'[w][s] = Changed(Fired(s, seen'[w][s], at'[w]), seen'[w][s])
          <6>1. row[s] = seen[w][s]
            BY <1>0, <2>0, <3>1, <3>2, <5>2 DEF Held
          <6>2. cur'[w] = {s}
            BY <1>0, <2>0, <3>1, <5>2 DEF TypeOK
          <6>3. columns' = [columns EXCEPT ![w] = [columns[w] EXCEPT ![s] =
                              Changed(Fired(s, seen[w][s], at[w]), row[s])]]
            BY <2>0, <3>1, <5>2
          <6>4. columns'[w][s] = Changed(Fired(s, seen[w][s], at[w]), row[s])
            BY <1>0, <3>2, <6>3 DEF TypeOK
          <6> QED
            BY <3>1, <6>1, <6>2, <6>4
        <5>3. s \in cur'[w] => cur'[w] = {s}
          BY <1>0, <3>1, <3>2 DEF TypeOK
        <5> QED
          BY <4>1, <5>1, <5>2, <5>3 DEF Sending
      <4>2. CASE r # s
        <5>1. Sending(w, r)
          BY <1>0
        <5>2. columns'[w][r] = columns[w][r]
          <6>1. CASE columns' = columns
            BY <6>1
          <6>2. CASE columns' = [columns EXCEPT ![w][s] = Changed(Fired(s, seen[w][s], at[w]), row[s])]
            <7>1. columns' = [columns EXCEPT ![w] = [columns[w] EXCEPT ![s] =
                                Changed(Fired(s, seen[w][s], at[w]), row[s])]]
              BY <6>2
            <7> QED
              BY <1>0, <3>2, <4>2, <7>1 DEF TypeOK
          <6> QED
            BY <3>1, <6>1, <6>2
        <5>3. cur[w] \subseteq cur'[w] /\ r \notin cur'[w]
          BY <1>0, <3>1, <3>2, <4>2 DEF TypeOK
        <5> QED
          BY <2>0, <3>1, <3>4, <4>2, <5>1, <5>2, <5>3 DEF Sending
      <4> QED
        BY <4>1, <4>2
    <3>8. ASSUME NEW r \in Schedules PROVE Behind(r)'
      BY <1>0, <2>0 DEF Behind
    <3>9. Idle'
      BY <3>1, <3>3, <3>5 DEF Idle
    <3> QED
      BY <3>3, <3>6, <3>7, <3>8, <3>9
  <2> QED
    BY <2>1, <2>2
<1>7. ASSUME NEW w \in Workers, Write(w) PROVE Rest'
  <2>0. UNCHANGED <<row, created, attempts, slots>>
    BY <1>7 DEF Write
  <2>1. CASE RollBack(w)
    BY <2>0, <2>1, <1>c
  <2>2. CASE ~RollBack(w)
    <3>1. PICK s \in cur[w] :
            /\ sent' = [sent EXCEPT ![w] = @ \cup {s}]
            /\ cur' = [cur EXCEPT ![w] = {}]
            /\ UNCHANGED <<ticking, at, seen, todo, fired, columns>>
      BY <1>7, <2>2 DEF Write
    <3>2. \A v \in Workers : v = w
      BY DEF Alone
    <3>3. sent'[w] = sent[w] \cup {s} /\ cur'[w] = {} /\ w \in ticking
      BY <1>0, <3>1 DEF TypeOK, Idle
    <3>4. cur[w] = {s}
      <4>1. s \in Schedules /\ s \in fired[w]
        BY <1>0 DEF IInv, CountsCovered, TypeOK
      <4> QED
        BY <1>0, <4>1 DEF Sending
    <3>5. ASSUME NEW r \in Schedules PROVE Held(w, r)' /\ Sending(w, r)'
      <4>1. Held(w, r) /\ Sending(w, r)
        BY <1>0
      <4>2. cur[w] \cup sent[w] \subseteq cur'[w] \cup sent'[w]
        BY <3>3, <3>4
      <4> QED
        BY <2>0, <3>1, <3>3, <4>1, <4>2 DEF Held, Sending
    <3>6. ASSUME NEW r \in Schedules PROVE Behind(r)'
      BY <1>0, <2>0 DEF Behind
    <3>7. Idle'
      BY <3>1, <3>2, <3>3 DEF Idle
    <3> QED
      BY <3>2, <3>5, <3>6, <3>7
  <2> QED
    BY <2>1, <2>2
<1>8. ASSUME NEW w \in Workers, Commit(w) PROVE Rest'
  <2>1. RollBack(w) /\ created' = created
    BY <1>8 DEF Commit
  <2>2. ASSUME NEW s \in Schedules PROVE Behind(s)'
    <3>0. /\ Behind(s) /\ Held(w, s) /\ Sending(w, s) /\ cur[w] = {}
          /\ row[s] \in Row /\ seen[w][s] \in Row /\ at[w] \in Times
          /\ slots[s] \in [Times -> Nat] /\ attempts[s] \in Nat /\ at[w] \in Nat
      BY <1>0, <1>8 DEF Commit, TypeOK, Times
    <3>1. CASE s \notin fired[w]
      <4>1. s \notin sent[w]
        BY <1>0, <3>1 DEF IInv, CountsCovered
      <4>2. row'[s] = row[s] /\ attempts'[s] = attempts[s] /\ slots'[s] = slots[s]
        BY <1>8, <3>1, <4>1 DEF Commit
      <4> QED
        BY <2>1, <3>0, <4>2 DEF Behind
    <3>2. CASE s \in fired[w]
      <4> DEFINE b == seen[w][s].next
      <4>1. attempts'[s] = attempts[s] + 1
        BY <1>8, <3>2 DEF Commit
      <4>2. slots'[s] = [slots[s] EXCEPT ![b] = @ + 1]
        BY <1>8, <3>2 DEF Commit
      <4>3. b \in Times /\ b <= at[w] /\ s \in created
        <5>1. b \in Nat
          BY <3>0 DEF Row
        <5>2. b <= at[w] /\ s \in created
          BY <3>0, <3>2 DEF Held
        <5> QED
          BY <3>0, <5>1, <5>2, ScheduleAssumption DEF Times
      <4>4. slots[s][b] = 0
        <5>1. slots[s][b] # 0 => b < b
          BY <3>0, <3>2, <4>3 DEF Held
        <5> QED
          BY <4>3, <5>1 DEF Times
      <4>5. ASSUME NEW t \in Times
            PROVE  /\ slots'[s][t] <= 1
                   /\ slots'[s][t] # 0 => t <= b
        <5>1. slots[s][t] <= 1 /\ (slots[s][t] # 0 => t < b) /\ slots[s][t] \in Nat
          BY <3>0, <3>2 DEF Held, Behind
        <5>2. CASE t = b
          BY <3>0, <4>2, <4>3, <4>4, <5>2 DEF Times
        <5>3. CASE t # b
          <6>1. slots'[s][t] = slots[s][t]
            BY <3>0, <4>2, <5>3
          <6> QED
            BY <4>3, <5>1, <6>1 DEF Times
        <5> QED
          BY <5>2, <5>3
      <4>6. ASSUME row'[s].status # "absent"
            PROVE  /\ row'[s].runs = attempts'[s]
                   /\ \A t \in Times : slots'[s][t] # 0 => t < row'[s].next
        <5>1. row[s].status # "absent"
          BY <1>8, <4>6, OverwriteStatus DEF Commit
        <5>2. row[s] = seen[w][s] /\ s \in sent[w]
          BY <3>0, <3>2, <5>1 DEF Held, Sending
        <5>3. columns[w][s] = Changed(Fired(s, seen[w][s], at[w]), seen[w][s])
          BY <3>0, <3>2, <5>1 DEF Sending
        <5>4. Fired(s, seen[w][s], at[w]) \in Row /\ Fired(s, seen[w][s], at[w]).runs = seen[w][s].runs + 1
          BY <3>0, FiredTyped
        <5>5. row'[s] = Fired(s, seen[w][s], at[w])
          BY <1>8, <3>0, <5>1, <5>2, <5>3, <5>4, OverwriteMoves DEF Commit
        <5>6. row'[s].runs = attempts'[s]
          BY <3>0, <4>1, <5>1, <5>2, <5>4, <5>5 DEF Behind
        <5>7. row'[s].next = NextFire[s][at[w]]
          BY <3>0, <5>5 DEF Fired, Row
        <5>8. NextFire[s][at[w]] > at[w] /\ NextFire[s][at[w]] \in Nat
          BY <3>0, <3>2, NextFireNat, ScheduleAssumption DEF Sending, NoNextTime
        <5>9. ASSUME NEW t \in Times, slots'[s][t] # 0 PROVE t < row'[s].next
          <6>1. t <= b
            BY <4>5, <5>9
          <6> QED
            BY <3>0, <4>3, <5>7, <5>8, <6>1 DEF Times
        <5> QED
          BY <5>6, <5>9
      <4> QED
        BY <2>1, <4>3, <4>5, <4>6 DEF Behind
    <3> QED
      BY <3>1, <3>2
  <2> QED
    BY <2>1, <2>2, AloneRollBack
<1>9. ASSUME NEW w \in Workers, Victim(w) PROVE Rest'
  BY <1>9, <1>c DEF Victim
<1>10. ASSUME NEW w \in Workers, Crash(w) PROVE Rest'
  BY <1>10, <1>c DEF Crash
<1>11. ASSUME ApiRestart PROVE Rest'
  BY <1>11, <1>b DEF ApiRestart
<1>12. ASSUME Clock PROVE Rest'
  BY <1>12, <1>b DEF Clock
<1>13. ASSUME UNCHANGED vars PROVE Rest'
  BY <1>13, <1>b DEF vars
<1> HIDE DEF Rest
<1> QED
  <2>1. Rest'
    BY <1>1, <1>2, <1>3, <1>4, <1>5, <1>6, <1>7, <1>8, <1>9, <1>10, <1>11, <1>12, <1>13
       DEF Next, Api, Tick
  <2> QED
    BY <1>a, <2>1 DEF AloneInv, Rest

LEMMA AloneInvariance == ASSUME Alone PROVE Spec => []AloneInv
<1>1. AloneInv /\ [Next]_vars => AloneInv'
  BY NextAlone
<1> QED
  BY <1>1, InitAlone, PTL DEF Spec

(* One worker, and nobody editing: no due time is fired for twice, through  *)
(* crashes, lost sessions and deletions in the middle of a tick.            *)
THEOREM OncePerSlotHolds == ASSUME Alone PROVE Spec => []OncePerSlot
<1>1. AloneInv => OncePerSlot
  BY DEF AloneInv, Behind, OncePerSlot
<1> QED
  BY <1>1, AloneInvariance, PTL

(* ... and run_count is the number of attempts.                             *)
THEOREM CountExactHolds == ASSUME Alone PROVE Spec => []CountExact
<1>1. AloneInv => CountExact
  BY DEF AloneInv, Behind, CountExact
<1> QED
  BY <1>1, AloneInvariance, PTL

=============================================================================
