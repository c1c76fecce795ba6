------------------------------ MODULE Schedules ------------------------------
(***************************************************************************)
(* Recurring executions.  Every worker replica's scheduler loop reads the   *)
(* schedules that are due, fires them one by one and commits all of it at   *)
(* the end of its session; meanwhile users edit, pause, resume, delete and  *)
(* fire the same rows through the API.                                      *)
(*                                                                         *)
(* Nobody locks a schedule before reading it.  Both sides read a row into   *)
(* an entity, work on the entity, read the row a second time and UPDATE     *)
(* the columns in which the two differ; the UPDATE waits for whichever      *)
(* transaction updated the row first (PostgreSQL, READ COMMITTED).  What a  *)
(* firing submits belongs to the tick's transaction: it exists once the     *)
(* tick commits, and not at all if the tick does not.                       *)
(***************************************************************************)
EXTENDS Naturals, FiniteSets

CONSTANTS
  Schedules,
  Workers,        \* worker replicas with scheduler_enabled
  NoWorker,       \* nobody holds a row's lock
  Horizon,        \* bound: how far the clock runs
  NextFire,       \* NextFire[s][t]: the first time after t at which s is due
  TickLimit,      \* run_due(limit=25)
  Broken,         \* schedules whose submission always raises
  Ops,            \* what users do with schedules
  Requests,       \* bound: the requests ever made, creations aside
  NoSchedule,     \* what a request is about before it is made
  MaxCrashes      \* bound: crashes of workers and of the API, together

Times == 0 .. Horizon

(* next_cron_time searches 366 days and then raises: there is no next time. *)
Never == 0

ASSUME ScheduleAssumption ==
  /\ NoWorker \notin Workers
  /\ Horizon \in Nat
  /\ NextFire \in [Schedules -> [Times -> Nat]]
  /\ \A s \in Schedules : \A t \in Times : NextFire[s][t] = Never \/ NextFire[s][t] > t
  /\ TickLimit \in Nat \ {0}
  /\ Broken \subseteq Schedules
  /\ Ops \subseteq {"describe", "retime", "pause", "activate", "resume", "runNow", "delete"}
  /\ NoSchedule \notin Schedules
  /\ MaxCrashes \in Nat

VARIABLES
  row,        \* the committed schedules table
  created,    \* the schedules ever created
  lock,       \* whose open tick has updated the row
  attempts,   \* committed attempts to fire each schedule, by tick or by hand
  slots,      \* ... of those made by ticks, how many for each due time
  ticking,    \* the workers inside a tick
  at,         \* the time a tick takes for now
  seen,       \* the entities a tick read
  todo,       \* due schedules a tick has yet to fire
  cur,        \* the schedule, if any, whose UPDATE a tick is about to send
  fired,      \* schedules a tick has fired
  sent,       \* ... and whose UPDATE it has sent
  columns,    \* the columns of those UPDATEs
  req,        \* how far each API request is
  now,
  crashes

tickVars == <<ticking, at, seen, todo, cur, fired, sent, columns>>
vars     == <<row, created, lock, attempts, slots, tickVars, req, now, crashes>>

(***************************************************************************)
(* Rows and entities                                                       *)
(***************************************************************************)
Row   == [status: {"absent", "active", "paused"}, next: Nat, runs: Nat]
NoRow == [status |-> "absent", next |-> 0, runs |-> 0]

Columns == {"status", "next", "runs"}

(* The columns an UPDATE will carry: where the entity differs from the row  *)
(* as repository.update() finds it.                                         *)
Changed(entity, found) == {c \in Columns : entity[c] # found[c]}

(* Mutant: session.merge(entity), which also inserts what is not there. *)
Merged(r, entity, cols) == entity

(* The row after such an UPDATE, which finds no row to change once the      *)
(* schedule has been deleted.                                               *)
Overwrite(r, entity, cols) ==
  IF r.status = "absent" THEN r
  ELSE [status |-> IF "status" \in cols THEN entity.status ELSE r.status,
        next   |-> IF "next" \in cols THEN entity.next ELSE r.next,
        runs   |-> IF "runs" \in cols THEN entity.runs ELSE r.runs]

Unlocked(s) == lock[s] = NoWorker

(* schedule_next(after=t) raises when the trigger has no next time. *)
NoNextTime(s, t) == NextFire[s][t] = Never

(* Mutant: the try around the submission is gone. *)
RaisesIfBroken(s, t) == NoNextTime(s, t) \/ s \in Broken

(* What _fire() lets through: of its two steps that can raise, the          *)
(* submission of a Broken schedule stands inside the try.                   *)
Raises(s, t) == NoNextTime(s, t)

(* Mutants: the firing does not move the schedule on; counts only what was  *)
(* submitted; counts twice.                                                 *)
FiredInPlace(s, r, t)   == [r EXCEPT !.runs = @ + 1]
FiredIfAccepted(s, r, t) == [r EXCEPT !.runs = IF s \in Broken THEN @ ELSE @ + 1, !.next = NextFire[s][t]]
FiredTwice(s, r, t)     == [r EXCEPT !.runs = @ + 2, !.next = NextFire[s][t]]

(* What _fire(reschedule=True) makes of the entity.  Whether the submission *)
(* succeeded shows only in last_status, last_error and failure_count.       *)
Fired(s, r, t) == [r EXCEPT !.runs = @ + 1, !.next = NextFire[s][t]]

(* Mutant: firing by hand also wakes the schedule up.                       *)
AskedAndWoken(op, s, r) ==
  CASE op = "runNow" -> [r EXCEPT !.runs = @ + 1, !.status = "active"]
    [] op = "pause"  -> [r EXCEPT !.status = "paused"]
    [] OTHER -> r

(* What a request makes of the entity it read.  "describe" stands for every *)
(* edit of other columns, "retime" for a new trigger, "activate" for a      *)
(* PATCH of the status, which unlike resume() keeps the next run time.      *)
Asked(op, s, r) ==
  CASE op = "pause"    -> [r EXCEPT !.status = "paused"]
    [] op = "activate" -> [r EXCEPT !.status = "active"]
    [] op = "retime"   -> [r EXCEPT !.next = NextFire[s][now]]
    [] op = "resume"   -> [r EXCEPT !.status = "active", !.next = NextFire[s][now]]
    [] op = "runNow"   -> [r EXCEPT !.runs = @ + 1]
    [] op = "describe" -> r
    [] op = "delete"   -> NoRow

Unmade   == [at |-> "unmade", of |-> NoSchedule, op |-> "describe", entity |-> NoRow, columns |-> {}]
Answered == [Unmade EXCEPT !.at = "answered"]
Request  == [at: {"unmade", "decided", "writing", "answered"}, of: Schedules \cup {NoSchedule},
             op: {"describe", "retime", "pause", "activate", "resume", "runNow", "delete"},
             entity: Row, columns: SUBSET Columns]

(***************************************************************************)
(* The API                                                                 *)
(***************************************************************************)

(* POST /schedules: refused, by the exception, when it would never fire. *)
Create(s) ==
  /\ s \notin created
  /\ ~NoNextTime(s, now)
  /\ created' = created \cup {s}
  /\ row' = [row EXCEPT ![s] = [status |-> "active", next |-> NextFire[s][now], runs |-> 0]]
  /\ UNCHANGED <<lock, attempts, slots, tickVars, req, now, crashes>>

(* Any other request starts by reading the row ...                          *)
Ask(q, s, op) ==
  /\ req[q].at = "unmade"
  /\ row[s].status # "absent"
  /\ op \in {"retime", "resume"} => ~NoNextTime(s, now)
  /\ req' = [req EXCEPT ![q] = [at |-> "decided", of |-> s, op |-> op,
                                entity |-> Asked(op, s, row[s]), columns |-> {}]]
  /\ UNCHANGED <<row, created, lock, attempts, slots, tickVars, now, crashes>>

Launches(op) == IF op = "runNow" THEN 1 ELSE 0

(* ... reads it again when it has decided; if the row is gone by now there  *)
(* is nothing to update, and what run_now() submitted is committed without. *)
Reread(q) ==
  LET s == req[q].of IN
  /\ req[q].at = "decided"
  /\ IF row[s].status = "absent"
     THEN /\ req' = [req EXCEPT ![q] = Answered]
          /\ attempts' = [attempts EXCEPT ![s] = @ + Launches(req[q].op)]
     ELSE /\ req' = [req EXCEPT ![q].at = "writing", ![q].columns = Changed(req[q].entity, row[s])]
          /\ attempts' = attempts
  /\ UNCHANGED <<row, created, lock, slots, tickVars, now, crashes>>

(* ... and writes and commits once no tick holds the row.  An UPDATE that   *)
(* finds no row raises StaleDataError, a DELETE does not mind.              *)
Answer(q) ==
  LET s == req[q].of IN
  /\ req[q].at = "writing"
  /\ Unlocked(s)
  /\ row' = [row EXCEPT ![s] = IF req[q].op = "delete" THEN NoRow
                               ELSE Overwrite(@, req[q].entity, req[q].columns)]
  /\ attempts' = IF row[s].status = "absent" THEN attempts
                 ELSE [attempts EXCEPT ![s] = @ + Launches(req[q].op)]
  /\ req' = [req EXCEPT ![q] = Answered]
  /\ UNCHANGED <<created, lock, slots, tickVars, now, crashes>>

(***************************************************************************)
(* A scheduler tick                                                        *)
(***************************************************************************)
DueNow == {s \in Schedules : row[s].status = "active" /\ row[s].next <= now}

(* due(): the first TickLimit of them, soonest first. *)
SoonestDue(D) ==
  /\ D \subseteq DueNow
  /\ Cardinality(D) = (IF Cardinality(DueNow) < TickLimit THEN Cardinality(DueNow) ELSE TickLimit)
  /\ \A s \in D : \A r \in DueNow \ D : row[s].next <= row[r].next

StartTick(w) ==
  /\ w \notin ticking
  /\ DueNow # {}
  /\ \E D \in SUBSET DueNow :
       /\ SoonestDue(D)
       /\ todo' = [todo EXCEPT ![w] = D]
       /\ seen' = [seen EXCEPT ![w] = [s \in Schedules |-> IF s \in D THEN row[s] ELSE NoRow]]
  /\ at' = [at EXCEPT ![w] = now]
  /\ ticking' = ticking \cup {w}
  /\ UNCHANGED <<row, created, lock, attempts, slots, cur, fired, sent, columns, req, now, crashes>>

(* The session is rolled back: the tick leaves no trace. *)
RollBack(w) ==
  /\ ticking' = ticking \ {w}
  /\ at' = [at EXCEPT ![w] = 0]
  /\ seen' = [seen EXCEPT ![w] = [s \in Schedules |-> NoRow]]
  /\ todo' = [todo EXCEPT ![w] = {}]
  /\ cur' = [cur EXCEPT ![w] = {}]
  /\ fired' = [fired EXCEPT ![w] = {}]
  /\ sent' = [sent EXCEPT ![w] = {}]
  /\ columns' = [columns EXCEPT ![w] = [s \in Schedules |-> {}]]
  /\ lock' = [s \in Schedules |-> IF lock[s] = w THEN NoWorker ELSE lock[s]]

(* _fire() submits, moves the entity on, and has update() read the row      *)
(* again.  schedule_next() stands outside the try: when it raises, the      *)
(* exception ends the tick.                                                 *)
Fire(w) ==
  /\ cur[w] = {}
  /\ \E s \in todo[w] :
       /\ \A r \in todo[w] : seen[w][s].next <= seen[w][r].next
       /\ IF Raises(s, at[w]) THEN RollBack(w)
          ELSE /\ todo' = [todo EXCEPT ![w] = @ \ {s}]
               /\ fired' = [fired EXCEPT ![w] = @ \cup {s}]
               /\ IF row[s].status = "absent" THEN UNCHANGED <<cur, columns>>
                  ELSE /\ cur' = [cur EXCEPT ![w] = {s}]
                       /\ columns' = [columns EXCEPT ![w][s] =
                                        Changed(Fired(s, seen[w][s], at[w]), row[s])]
               /\ UNCHANGED <<ticking, at, seen, sent, lock>>
  /\ UNCHANGED <<row, created, attempts, slots, req, now, crashes>>

(* The UPDATE; StaleDataError if the schedule was deleted in between. *)
Write(w) ==
  /\ \E s \in cur[w] :
       /\ Unlocked(s)
       /\ IF row[s].status = "absent" THEN RollBack(w)
          ELSE /\ lock' = [lock EXCEPT ![s] = w]
               /\ sent' = [sent EXCEPT ![w] = @ \cup {s}]
               /\ cur' = [cur EXCEPT ![w] = {}]
               /\ UNCHANGED <<ticking, at, seen, todo, fired, columns>>
  /\ UNCHANGED <<row, created, attempts, slots, req, now, crashes>>

Commit(w) ==
  /\ w \in ticking
  /\ todo[w] = {} /\ cur[w] = {}
  /\ row' = [s \in Schedules |->
               IF s \in sent[w]
               THEN Overwrite(row[s], Fired(s, seen[w][s], at[w]), columns[w][s]) ELSE row[s]]
  /\ attempts' = [s \in Schedules |-> IF s \in fired[w] THEN attempts[s] + 1 ELSE attempts[s]]
  /\ slots' = [s \in Schedules |->
                 IF s \in fired[w] THEN [slots[s] EXCEPT ![seen[w][s].next] = @ + 1] ELSE slots[s]]
  /\ RollBack(w)
  /\ UNCHANGED <<created, req, now, crashes>>

(* Ticks waiting for each other's rows: PostgreSQL aborts one of them. *)
Deadlocked(w) ==
  \E C \in SUBSET Workers :
    w \in C /\ \A v \in C : \E s \in cur[v] : lock[s] \in C \ {v}

Victim(w) ==
  /\ Deadlocked(w)
  /\ RollBack(w)
  /\ UNCHANGED <<row, created, attempts, slots, req, now, crashes>>

(***************************************************************************)
(* Failures and time                                                       *)
(***************************************************************************)
Crash(w) ==
  /\ crashes < MaxCrashes
  /\ w \in ticking
  /\ crashes' = crashes + 1
  /\ RollBack(w)
  /\ UNCHANGED <<row, created, attempts, slots, req, now>>

ApiRestart ==
  /\ crashes < MaxCrashes
  /\ crashes' = crashes + 1
  /\ req' = [q \in Requests |-> IF req[q].at = "unmade" THEN Unmade ELSE Answered]
  /\ UNCHANGED <<row, created, lock, attempts, slots, tickVars, now>>

Clock ==
  /\ now < Horizon
  /\ now' = now + 1
  /\ UNCHANGED <<row, created, lock, attempts, slots, tickVars, req, crashes>>

(***************************************************************************)
(* Specification                                                           *)
(***************************************************************************)
Init ==
  /\ row = [s \in Schedules |-> NoRow]
  /\ created = {}
  /\ lock = [s \in Schedules |-> NoWorker]
  /\ attempts = [s \in Schedules |-> 0]
  /\ slots = [s \in Schedules |-> [t \in Times |-> 0]]
  /\ ticking = {}
  /\ at = [w \in Workers |-> 0]
  /\ seen = [w \in Workers |-> [s \in Schedules |-> NoRow]]
  /\ todo = [w \in Workers |-> {}]
  /\ cur = [w \in Workers |-> {}]
  /\ fired = [w \in Workers |-> {}]
  /\ sent = [w \in Workers |-> {}]
  /\ columns = [w \in Workers |-> [s \in Schedules |-> {}]]
  /\ req = [q \in Requests |-> Unmade]
  /\ now = 0
  /\ crashes = 0

Api(q) == (\E s \in Schedules, op \in Ops : Ask(q, s, op)) \/ Reread(q) \/ Answer(q)

Tick(w) == StartTick(w) \/ Fire(w) \/ Write(w) \/ Commit(w) \/ Victim(w)

Next ==
  \/ \E s \in Schedules : Create(s)
  \/ \E q \in Requests : Api(q)
  \/ \E w \in Workers : Tick(w) \/ Crash(w)
  \/ ApiRestart \/ Clock

Spec == Init /\ [][Next]_vars

(* A worker keeps ticking whatever happened to the tick before, requests    *)
(* run to their end, and row locks are granted in the order of asking.      *)
Fairness ==
  /\ \A w \in Workers : WF_vars(StartTick(w) \/ Fire(w) \/ Commit(w) \/ Victim(w)) /\ SF_vars(Write(w))
  /\ \A q \in Requests : WF_vars(Reread(q)) /\ SF_vars(Answer(q))

FairSpec == Spec /\ Fairness

(***************************************************************************)
(* Properties                                                              *)
(***************************************************************************)

(* Every variable has the shape the code gives it. *)
TypeOK ==
  /\ row \in [Schedules -> Row]
  /\ created \subseteq Schedules
  /\ lock \in [Schedules -> Workers \cup {NoWorker}]
  /\ attempts \in [Schedules -> Nat]
  /\ slots \in [Schedules -> [Times -> Nat]]
  /\ ticking \subseteq Workers
  /\ at \in [Workers -> Times]
  /\ seen \in [Workers -> [Schedules -> Row]]
  /\ todo \in [Workers -> SUBSET Schedules]
  /\ cur \in [Workers -> SUBSET Schedules]
  /\ fired \in [Workers -> SUBSET Schedules]
  /\ sent \in [Workers -> SUBSET Schedules]
  /\ columns \in [Workers -> [Schedules -> SUBSET Columns]]
  /\ req \in [Requests -> Request]
  /\ now \in Times
  /\ crashes \in 0 .. MaxCrashes

(* A due time is fired for at most once: a tick's submissions and the move  *)
(* to the next time are one transaction, so a tick that dies half-way       *)
(* leaves nothing behind to be fired again.  True of one worker and of      *)
(* users who only create and delete; worker.py says of several workers      *)
(* "Safe to run several replicas".                                          *)
OncePerSlot == \A s \in Schedules : \A t \in Times : slots[s][t] <= 1

(* With one worker and nobody editing, run_count is the number of times the *)
(* schedule was tried, through crashes and ticks that were rolled back.     *)
CountExact ==
  \A s \in Schedules : row[s].status # "absent" => row[s].runs = attempts[s]

(* Whatever runs concurrently, run_count never claims an attempt that was   *)
(* not made: stale entities lose counts, they do not invent them.           *)
CountNeverOver == \A s \in Schedules : row[s].runs <= attempts[s]

(* A deleted schedule is never written back by a tick or a request that     *)
(* still holds it as an entity.                                             *)
DeletedForGood ==
  [][\A s \in created : row[s].status = "absent" => row'[s].status = "absent"]_vars

(* A transaction still open that read s as active. *)
StaleActive(s) ==
  \/ \E w \in Workers : seen[w][s].status = "active"
  \/ \E q \in Requests : req[q].of = s /\ req[q].entity.status = "active"

(* Behind CountNeverOver: no open transaction holds a count that would be   *)
(* too high once it commits.                                                *)
CountsCovered ==
  /\ CountNeverOver
  /\ \A w \in Workers : sent[w] \cup cur[w] \subseteq fired[w]
  /\ \A w \in Workers : \A s \in Schedules : seen[w][s].runs <= attempts[s]
  /\ \A q \in Requests :
       req[q].at \in {"decided", "writing"} =>
         /\ req[q].of \in Schedules
         /\ req[q].entity.runs <= attempts[req[q].of] + Launches(req[q].op)

IInv == TypeOK /\ CountsCovered

(* Once the transactions that read it active are over, a paused schedule    *)
(* stays paused and reaches no tick: only a request to resume it holds it   *)
(* as active again.                                                         *)
PausedUntilResumed ==
  [][\A s \in Schedules :
       row[s].status = "paused" /\ ~StaleActive(s)
       => /\ row'[s].status # "active"
          /\ StaleActive(s)' =>
               \E q \in Requests : req'[q].of = s /\ req'[q].op \in {"resume", "activate"}]_vars

(* A schedule that is due does not stay due: neither schedules whose        *)
(* submission raises, nor the 25 a tick is limited to, nor crashes keep it  *)
(* from being fired.  schedules.py, _fire: "A broken schedule must not stop *)
(* the ones behind it in the queue" - which one whose next time cannot be   *)
(* found does.                                                              *)
Hopeful == {s \in Schedules : \A t \in Times : NextFire[s][t] # Never}

EventuallyFires ==
  \A s \in Hopeful :
    (row[s].status = "active" /\ row[s].next <= now)
      ~> (row[s].status # "active" \/ row[s].next > now)

=============================================================================
