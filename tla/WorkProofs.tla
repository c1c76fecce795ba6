----------------------------- MODULE WorkProofs -----------------------------
(***************************************************************************)
(* Proofs about VersionStore, for any sessions, any working definitions and *)
(* any number of versions, about ExperimentRuns, for any trials, runs and   *)
(* sessions, about PipelineGraph, for any pipelines, editors and runs, and  *)
(* about AnalogEngines, for any record, any runs and any questions.         *)
(*                                                                         *)
(* A number is read long before the row is inserted, so what holds is that  *)
(* a number read is never beyond the next one, and that the constraint lets *)
(* at most one session have the next one in flight; nobody else commits a   *)
(* version, or deletes the row, before that session has ended.              *)
(***************************************************************************)
EXTENDS VersionStore, ExperimentRuns, PipelineGraph, AnalogEngines,
        FiniteSetTheorems, SequenceTheorems, WellFoundedInduction, TLAPS

VersionCount == Cardinality(versions)

(* A session between the INSERT of its version and its commit.              *)
Inserting(s) ==
  inserted[s].id # Nothing /\ versionPc[s] \in {"inserted", "update", "flushed"}

InsertedInv(s) ==
  /\ inserted[s].id = Nothing => inserted[s] = NoVersion /\ versionPc[s] \notin {"stored", "inserted"}
  /\ inserted[s].id # Nothing =>
       /\ versionPc[s] \in {"stored", "inserted", "update", "flushed"}
       /\ inserted[s].number >= 1
       /\ deleting \/ inserted[s].id \in objects
       /\ holder.alive => inserted[s].number <= VersionCount + 1
  /\ Inserting(s) => holder.alive /\ inserted[s].number = VersionCount + 1

(* One INSERT at a time, and never next to a DELETE.                        *)
OneInserts ==
  \A s, t \in Publishers : Inserting(s) => (Inserting(t) => s = t) /\ ~ At(t, "removed")

(* What a session read points at a version that is still there, or that it  *)
(* is itself about to commit.                                               *)
EntityInv(s) ==
  versionPc[s] # "idle" /\ holder.alive =>
    \/ \E v \in versions : v.id = entity[s].current
    \/ Inserting(s) /\ entity[s].current = inserted[s].id

(* A session by itself: what its commit will point the row at.              *)
Pointed(s) ==
  IF inserted[s].id = Nothing THEN holder.current ELSE inserted[s].id

SoleInv(s) ==
  /\ versionPc[s] \in {"publish", "stored", "inserted", "edit", "remove"} =>
       entity[s].current = holder.current
  /\ versionPc[s] \in {"update", "flushed"} =>
       /\ entity[s].current = Pointed(s)
       /\ "current" \in written[s] \/ holder.current = Pointed(s)

NumbersInv ==
  /\ IsFiniteSet(versions)
  /\ Numbers = 1..VersionCount
  /\ \A v, w \in versions : v.number = w.number => v = w

CurrentInv ==
  ~ overlap =>
    /\ \A s, t \in AtWork : s = t
    /\ \A s \in Publishers : SoleInv(s)
    /\ holder.alive => \A v \in versions : v.number = VersionCount => v.id = holder.current

VersionInv ==
  /\ VersionTypeOK
  /\ NumbersInv
  /\ VersionsReadable
  /\ CurrentInv
  /\ OneInserts
  /\ \A s \in Publishers : InsertedInv(s) /\ EntityInv(s)

-----------------------------------------------------------------------------
(* Numbers.                                                                *)

LEMMA LatestIsCount ==
  ASSUME NumbersInv
  PROVE  /\ VersionCount \in Nat
         /\ LatestNumber = VersionCount
         /\ \A v \in versions : v.number \in 1..VersionCount
<1>1. VersionCount \in Nat
  BY FS_CardinalityType DEF NumbersInv, VersionCount
<1>2. {0} \cup Numbers = 0..VersionCount
  BY <1>1 DEF NumbersInv
<1>3. Max(0..VersionCount) = VersionCount
  <2>1. \E x \in 0..VersionCount : \A y \in 0..VersionCount : x >= y
    BY <1>1
  <2>2. \A x \in 0..VersionCount : (\A y \in 0..VersionCount : x >= y) => x = VersionCount
    BY <1>1
  <2> QED
    BY <2>1, <2>2 DEF Max
<1> QED
  BY <1>1, <1>2, <1>3 DEF LatestNumber, NumbersInv, Numbers

(* The next number is the one that is free.                                *)
LEMMA FreeIsNext ==
  ASSUME NumbersInv, NEW s \in Publishers, NumberFree(s),
         inserted[s].number \in Nat, inserted[s].number >= 1, inserted[s].number <= VersionCount + 1
  PROVE  inserted[s].number = VersionCount + 1
<1>1. inserted[s].number \notin 1..VersionCount
  BY DEF NumberFree, NumbersInv
<1> QED
  BY <1>1, LatestIsCount

LEMMA AddNumber ==
  ASSUME NumbersInv, NEW v, v.number = VersionCount + 1, versions' = versions \cup {v}
  PROVE  NumbersInv' /\ VersionCount' = VersionCount + 1
<1>1. VersionCount \in Nat /\ \A w \in versions : w.number \in 1..VersionCount
  BY LatestIsCount
<1>2. v \notin versions
  BY <1>1
<1>3. IsFiniteSet(versions') /\ VersionCount' = VersionCount + 1
  BY <1>2, FS_AddElement DEF NumbersInv, VersionCount
<1>4. Numbers' = Numbers \cup {VersionCount + 1}
  BY DEF Numbers
<1>5. Numbers' = 1..VersionCount'
  BY <1>1, <1>3, <1>4 DEF NumbersInv
<1>6. \A w, x \in versions' : w.number = x.number => w = x
  BY <1>1 DEF NumbersInv
<1> QED
  BY <1>3, <1>5, <1>6 DEF NumbersInv

-----------------------------------------------------------------------------
(* Types.                                                                  *)

LEMMA NoneTyped ==
  ASSUME Contents # {} PROVE NoEntity \in Holder /\ NoVersion \in Version
<1>1. SomeContent \in Contents
  BY DEF SomeContent
<1>2. 0 \in VersionId
  BY VersionConstants DEF VersionId
<1> QED
  BY <1>1, <1>2 DEF NoEntity, NoVersion, Holder, Version, Nothing

LEMMA SomeContents == ASSUME VersionTypeOK PROVE Contents # {}
  BY DEF VersionTypeOK, Holder

LEMMA LeaveTyped ==
  ASSUME VersionTypeOK, NEW s \in Publishers, Leave(s)
  PROVE  /\ versionPc' = [versionPc EXCEPT ![s] = "idle"]
         /\ entity' \in [Publishers -> Holder]
         /\ inserted' \in [Publishers -> Version]
         /\ written' \in [Publishers -> SUBSET {"definition", "current"}]
<1>1. NoEntity \in Holder /\ NoVersion \in Version
  BY NoneTyped, SomeContents
<1> QED
  BY <1>1 DEF Leave, Goto, VersionTypeOK

LEMMA ReadTyped ==
  ASSUME VersionTypeOK, NEW s \in Publishers, NEW pc \in {"publish", "edit", "remove"},
         NEW d \in Contents, ReadHolder(s, pc, d)
  PROVE  /\ versionPc' \in [Publishers -> {"idle", "publish", "stored", "inserted", "edit",
                                           "update", "flushed", "remove", "removed"}]
         /\ entity' \in [Publishers -> Holder]
         /\ overlap' \in BOOLEAN
<1>1. [holder EXCEPT !.definition = d] \in Holder
  BY DEF VersionTypeOK, Holder
<1>2. overlap' \in BOOLEAN
  BY DEF ReadHolder, VersionTypeOK
<1> QED
  BY <1>1, <1>2 DEF ReadHolder, Goto, VersionTypeOK

LEMMA InitVersionType == VersionInit => VersionTypeOK
<1> SUFFICES ASSUME VersionInit PROVE VersionTypeOK
  OBVIOUS
<1>1. 0 \in VersionId /\ 1 \in VersionId
  BY VersionConstants DEF VersionId
<1>2. holder \in Holder
  BY <1>1 DEF VersionInit, Holder
<1>3. NoEntity \in Holder /\ NoVersion \in Version
  BY <1>2, NoneTyped DEF Holder
<1>4. versions \subseteq Version
  BY <1>1, <1>2 DEF VersionInit, Version, Holder
<1> QED
  BY <1>1, <1>2, <1>3, <1>4 DEF VersionInit, VersionTypeOK

LEMMA NextVersionType ==
  VersionTypeOK /\ NumbersInv /\ [VersionNext]_versionVars => VersionTypeOK'
<1> SUFFICES ASSUME VersionTypeOK, NumbersInv, [VersionNext]_versionVars PROVE VersionTypeOK'
  OBVIOUS
<1>0. LatestNumber \in Nat
  BY LatestIsCount
<1>1. ASSUME NEW s \in Publishers, BeginPublish(s) PROVE VersionTypeOK'
  <2>1. holder.definition \in Contents /\ ReadHolder(s, "publish", holder.definition)
    BY <1>1 DEF BeginPublish, VersionTypeOK, Holder
  <2> QED
    BY <1>1, <2>1, ReadTyped DEF BeginPublish, ReadHolder, VersionTypeOK
<1>2. ASSUME NEW s \in Publishers, BeginEdit(s) PROVE VersionTypeOK'
  <2>1. PICK d \in Contents : ReadHolder(s, "edit", d)
    BY <1>2 DEF BeginEdit
  <2> QED
    BY <1>2, <2>1, ReadTyped DEF BeginEdit, ReadHolder, VersionTypeOK
<1>3. ASSUME NEW s \in Publishers, BeginDelete(s) PROVE VersionTypeOK'
  <2>1. holder.definition \in Contents /\ ReadHolder(s, "remove", holder.definition)
    BY <1>3 DEF BeginDelete, VersionTypeOK, Holder
  <2> QED
    BY <1>3, <2>1, ReadTyped DEF BeginDelete, ReadHolder, VersionTypeOK
<1>4. ASSUME NEW s \in Publishers, StoreObject(s) PROVE VersionTypeOK'
  <2>1. published' \in VersionId
    BY <1>4, VersionConstants DEF StoreObject, VersionTypeOK, VersionId
  <2>2. [id |-> published', number |-> LatestNumber + 1, snapshot |-> entity[s].definition] \in Version
    BY <1>0, <2>1 DEF VersionTypeOK, Holder, Version
  <2>3. inserted' \in [Publishers -> Version]
    BY <1>4, <2>2 DEF StoreObject, VersionTypeOK
  <2> QED
    BY <1>4, <2>1, <2>3 DEF StoreObject, Goto, VersionTypeOK
<1>5. ASSUME NEW s \in Publishers, InsertVersion(s) PROVE VersionTypeOK'
  <2>1. CASE Leave(s)
    BY <1>5, <2>1, LeaveTyped DEF InsertVersion, VersionTypeOK
  <2>2. CASE Goto(s, "inserted") /\ UNCHANGED <<entity, inserted, written>>
    BY <1>5, <2>2 DEF InsertVersion, Goto, VersionTypeOK
  <2> QED
    BY <1>5, <2>1, <2>2 DEF InsertVersion
<1>6. ASSUME NEW s \in Publishers, RereadHolder(s) PROVE VersionTypeOK'
  <2>1. CASE Leave(s)
    BY <1>6, <2>1, LeaveTyped DEF RereadHolder, VersionTypeOK
  <2>2. CASE holder.alive
    <3>1. Reloaded(s) \in Holder
      BY DEF Reloaded, VersionTypeOK, Holder, Version
    <3>2. ChangedColumns(Reloaded(s), holder) \subseteq {"definition", "current"}
      BY DEF ChangedColumns
    <3> QED
      BY <1>6, <2>2, <3>1, <3>2 DEF RereadHolder, Goto, VersionTypeOK
  <2> QED
    BY <1>6, <2>1, <2>2 DEF RereadHolder
<1>7. ASSUME NEW s \in Publishers, FlushUpdate(s) \/ FlushDelete(s) PROVE VersionTypeOK'
  BY <1>7 DEF FlushUpdate, FlushDelete, Goto, VersionTypeOK
<1>8. ASSUME NEW s \in Publishers, CommitChange(s) PROVE VersionTypeOK'
  <2>1. Apply(holder, written[s], entity[s]) \in Holder
    BY DEF Apply, VersionTypeOK, Holder
  <2>2. holder' \in Holder
    BY <1>8, <2>1 DEF CommitChange, VersionTypeOK, Holder
  <2>3. versions' \subseteq Version
    BY <1>8 DEF CommitChange, VersionTypeOK
  <2> QED
    BY <1>8, <2>2, <2>3, LeaveTyped DEF CommitChange, VersionTypeOK
<1>9. ASSUME NEW s \in Publishers, AbandonChange(s) PROVE VersionTypeOK'
  BY <1>9, LeaveTyped DEF AbandonChange, VersionTypeOK
<1>10. CASE UNCHANGED versionVars
  BY <1>10 DEF versionVars, VersionTypeOK
<1> QED
  BY <1>1, <1>2, <1>3, <1>4, <1>5, <1>6, <1>7, <1>8, <1>9, <1>10 DEF VersionNext

-----------------------------------------------------------------------------
(* The steps that commit nothing.                                          *)

(* A session that does nothing, while the rows stay as they are.           *)
LEMMA Bystander ==
  ASSUME VersionInv, NEW t \in Publishers,
         versionPc'[t] = versionPc[t], entity'[t] = entity[t],
         inserted'[t] = inserted[t], written'[t] = written[t],
         holder' = holder, versions' = versions,
         deleting => deleting', deleting' \/ objects \subseteq objects'
  PROVE  /\ InsertedInv(t)' /\ EntityInv(t)'
         /\ Inserting(t)' <=> Inserting(t)
         /\ SoleInv(t) => SoleInv(t)'
<1>1. Inserting(t)' <=> Inserting(t)
  BY DEF Inserting
<1>2. InsertedInv(t) /\ EntityInv(t) /\ VersionCount' = VersionCount
  BY DEF VersionInv, VersionCount
<1>3. InsertedInv(t)'
  <2>1. deleting' \/ inserted'[t].id \in objects' \/ ~ (deleting \/ inserted[t].id \in objects)
    OBVIOUS
  <2> QED
    BY <1>1, <1>2, <2>1 DEF InsertedInv
<1>4. EntityInv(t)'
  BY <1>1, <1>2 DEF EntityInv
<1>5. SoleInv(t) => SoleInv(t)'
  BY DEF SoleInv, Pointed
<1> QED
  BY <1>1, <1>3, <1>4, <1>5

(* What s has to see to when it takes such a step.                         *)
LEMMA Uncommitted ==
  ASSUME VersionInv, VersionTypeOK', NEW s \in Publishers,
         holder' = holder, versions' = versions,
         deleting => deleting', deleting' \/ objects \subseteq objects',
         \A t \in Publishers \ {s} :
           /\ versionPc'[t] = versionPc[t] /\ entity'[t] = entity[t]
           /\ inserted'[t] = inserted[t] /\ written'[t] = written[t],
         InsertedInv(s)', EntityInv(s)',
         Inserting(s)' /\ ~ Inserting(s) =>
           \A t \in Publishers \ {s} : ~ Inserting(t) /\ ~ At(t, "removed"),
         versionPc'[s] = "removed" /\ ~ At(s, "removed") =>
           \A t \in Publishers \ {s} : ~ Inserting(t),
         ~ overlap' =>
           /\ ~ overlap /\ SoleInv(s)'
           /\ s \in AtWork \/ versionPc'[s] = "idle" \/ AtWork = {}
  PROVE  VersionInv'
<1>1. \A t \in Publishers \ {s} :
        /\ InsertedInv(t)' /\ EntityInv(t)'
        /\ Inserting(t)' <=> Inserting(t)
        /\ SoleInv(t) => SoleInv(t)'
  BY Bystander
<1>2. NumbersInv' /\ VersionCount' = VersionCount
  BY DEF VersionInv, NumbersInv, Numbers, VersionCount
<1>3. VersionsReadable'
  BY DEF VersionInv, VersionsReadable
<1>4. OneInserts'
  <2> SUFFICES ASSUME NEW t \in Publishers, NEW u \in Publishers, Inserting(t)'
               PROVE  (Inserting(u)' => t = u) /\ ~ At(u, "removed")'
    BY DEF OneInserts
  <2>1. ~ (Inserting(s)' /\ At(s, "removed")')
    BY DEF Inserting, At
  <2>2. CASE t = s /\ Inserting(s)
    BY <1>1, <2>1, <2>2 DEF VersionInv, OneInserts, At
  <2>3. CASE t = s /\ ~ Inserting(s)
    BY <1>1, <2>1, <2>3 DEF At
  <2>4. CASE t # s
    <3>1. Inserting(t)
      BY <1>1, <2>4
    <3>2. CASE u = s
      BY <2>4, <3>1, <3>2 DEF VersionInv, OneInserts, At
    <3>3. CASE u # s
      BY <1>1, <3>1, <3>3 DEF VersionInv, OneInserts, At
    <3> QED
      BY <3>2, <3>3
  <2> QED
    BY <2>2, <2>3, <2>4
<1>5. CurrentInv'
  <2> SUFFICES ASSUME ~ overlap' PROVE
         /\ \A t, u \in AtWork' : t = u
         /\ \A t \in Publishers : SoleInv(t)'
         /\ holder.alive => \A v \in versions : v.number = VersionCount => v.id = holder.current
    BY <1>2 DEF CurrentInv
  <2>1. /\ \A t, u \in AtWork : t = u
        /\ \A t \in Publishers : SoleInv(t)
        /\ holder.alive => \A v \in versions : v.number = VersionCount => v.id = holder.current
    BY DEF VersionInv, CurrentInv
  <2>2. \A t \in Publishers \ {s} : t \in AtWork' <=> t \in AtWork
    BY DEF AtWork
  <2>3. s \in AtWork' => s \in AtWork \/ AtWork = {}
    BY DEF AtWork
  <2>4. \A t \in AtWork' : t \in Publishers
    BY DEF AtWork
  <2>5. \A t, u \in AtWork' : t = u
    BY <2>1, <2>2, <2>3, <2>4
  <2> QED
    BY <1>1, <2>1, <2>5
<1> QED
  BY <1>1, <1>2, <1>3, <1>4, <1>5 DEF VersionInv

LEMMA Reading ==
  ASSUME VersionInv, VersionTypeOK', NEW s \in Publishers,
         NEW pc \in {"publish", "edit", "remove"}, NEW d, ReadHolder(s, pc, d),
         deleting => deleting', deleting' \/ objects \subseteq objects'
  PROVE  VersionInv'
<1>1. /\ versionPc[s] = "idle" /\ holder.alive /\ versionPc'[s] = pc
      /\ entity'[s].current = holder.current
      /\ inserted' = inserted /\ written' = written /\ holder' = holder /\ versions' = versions
  BY DEF ReadHolder, At, Goto, VersionInv, VersionTypeOK, Holder
<1>2. inserted[s].id = Nothing /\ inserted[s] = NoVersion
  BY <1>1 DEF VersionInv, InsertedInv
<1>3. ~ Inserting(s)' /\ InsertedInv(s)'
  BY <1>1, <1>2 DEF Inserting, InsertedInv
<1>4. EntityInv(s)'
  BY <1>1 DEF EntityInv, VersionInv, VersionsReadable
<1>5. SoleInv(s)'
  BY <1>1 DEF SoleInv
<1>6. \A t \in Publishers \ {s} :
        /\ versionPc'[t] = versionPc[t] /\ entity'[t] = entity[t]
        /\ inserted'[t] = inserted[t] /\ written'[t] = written[t]
  BY DEF ReadHolder, Goto, VersionInv, VersionTypeOK
<1>7. ~ overlap' => ~ overlap /\ AtWork = {}
  BY DEF ReadHolder
<1>8. versionPc'[s] # "removed"
  BY <1>1
<1> QED
  BY <1>1, <1>3, <1>4, <1>5, <1>6, <1>7, <1>8, Uncommitted

LEMMA Leaving ==
  ASSUME VersionInv, VersionTypeOK', NEW s \in Publishers, Leave(s),
         UNCHANGED <<holder, versions, objects, deleting, overlap>>
  PROVE  VersionInv'
<1>1. versionPc'[s] = "idle" /\ inserted'[s] = NoVersion /\ inserted'[s].id = Nothing
  BY DEF Leave, Goto, VersionInv, VersionTypeOK, NoVersion
<1>2. ~ Inserting(s)' /\ InsertedInv(s)'
  BY <1>1 DEF Inserting, InsertedInv
<1>3. EntityInv(s)' /\ SoleInv(s)'
  BY <1>1 DEF EntityInv, SoleInv
<1>4. \A t \in Publishers \ {s} :
        /\ versionPc'[t] = versionPc[t] /\ entity'[t] = entity[t]
        /\ inserted'[t] = inserted[t] /\ written'[t] = written[t]
  BY DEF Leave, Goto, VersionInv, VersionTypeOK
<1> QED
  BY <1>1, <1>2, <1>3, <1>4, Uncommitted

LEMMA Storing ==
  ASSUME VersionInv, VersionTypeOK', NEW s \in Publishers, StoreObject(s) PROVE VersionInv'
<1>1. /\ versionPc[s] = "publish" /\ versionPc'[s] = "stored"
      /\ inserted'[s].id = published' /\ inserted'[s].number = LatestNumber + 1
      /\ published' = published + 1 /\ objects' = objects \cup {published'}
      /\ UNCHANGED <<holder, versions, entity, written, deleting, overlap>>
  BY DEF StoreObject, At, Goto, VersionInv, VersionTypeOK
<1>2. published' # Nothing
  BY <1>1 DEF VersionInv, VersionTypeOK, VersionId, Nothing
<1>3. LatestNumber = VersionCount /\ VersionCount \in Nat /\ VersionCount' = VersionCount
  BY <1>1, LatestIsCount DEF VersionInv, VersionCount
<1>4. ~ Inserting(s) /\ ~ Inserting(s)'
  BY <1>1 DEF Inserting
<1>5. InsertedInv(s)'
  <2>1. inserted'[s].id \in objects'
    BY <1>1
  <2>2. inserted'[s].number >= 1 /\ inserted'[s].number <= VersionCount' + 1
    BY <1>1, <1>3
  <2> QED
    BY <1>1, <1>2, <1>4, <2>1, <2>2 DEF InsertedInv
<1>6. EntityInv(s)'
  BY <1>1, <1>4 DEF VersionInv, EntityInv
<1>7. ~ overlap' => SoleInv(s)'
  BY <1>1 DEF VersionInv, CurrentInv, SoleInv
<1>8. \A t \in Publishers \ {s} :
        /\ versionPc'[t] = versionPc[t] /\ entity'[t] = entity[t]
        /\ inserted'[t] = inserted[t] /\ written'[t] = written[t]
  BY DEF StoreObject, Goto, VersionInv, VersionTypeOK
<1>9. s \in AtWork
  BY <1>1 DEF AtWork
<1> QED
  BY <1>1, <1>4, <1>5, <1>6, <1>7, <1>8, <1>9, Uncommitted

(* The constraint and the waiting of the INSERT let one session through.   *)
LEMMA InsertingOne ==
  ASSUME VersionInv, VersionTypeOK', NEW s \in Publishers, InsertVersion(s) PROVE VersionInv'
<1>1. CASE Leave(s)
  BY <1>1, Leaving DEF InsertVersion
<1>2. CASE NumberFree(s) /\ holder.alive /\ Goto(s, "inserted") /\ UNCHANGED <<entity, inserted, written>>
  <2>1. /\ versionPc[s] = "stored" /\ versionPc'[s] = "inserted"
        /\ UNCHANGED <<holder, versions, objects, entity, inserted, written, deleting, overlap>>
    BY <1>2 DEF InsertVersion, At, Goto, VersionInv, VersionTypeOK
  <2>2. InsertedInv(s) /\ inserted[s].id # Nothing /\ inserted[s].number \in Nat
    BY <2>1 DEF VersionInv, VersionTypeOK, Version, InsertedInv
  <2>3. inserted[s].number = VersionCount + 1
    BY <1>2, <2>2, FreeIsNext DEF InsertedInv, VersionInv
  <2>4. InsertedInv(s)'
    <3>1. VersionCount' = VersionCount
      BY <2>1 DEF VersionCount
    <3> QED
      BY <1>2, <2>1, <2>2, <2>3, <3>1 DEF InsertedInv, Inserting
  <2>5. ASSUME NEW t \in Publishers \ {s} PROVE ~ Inserting(t) /\ ~ At(t, "removed")
    <3>1. ~ At(t, "removed")
      BY DEF InsertVersion
    <3>2. ASSUME Inserting(t) PROVE FALSE
      <4>1. inserted[t] \in InFlight(s)
        BY <3>2 DEF Inserting, InFlight
      <4>2. inserted[t].number = VersionCount + 1
        BY <3>2 DEF VersionInv, InsertedInv
      <4> QED
        BY <2>3, <4>1, <4>2 DEF InsertVersion
    <3> QED
      BY <3>1, <3>2
  <2>6. EntityInv(s)'
    <3>1. ~ Inserting(s)
      BY <2>1 DEF Inserting
    <3> QED
      BY <2>1, <3>1 DEF VersionInv, EntityInv
  <2>7. ~ overlap' => SoleInv(s)'
    BY <2>1 DEF VersionInv, CurrentInv, SoleInv
  <2>8. \A t \in Publishers \ {s} : versionPc'[t] = versionPc[t]
    BY <1>2 DEF Goto, VersionInv, VersionTypeOK
  <2>9. s \in AtWork
    BY <2>1 DEF AtWork
  <2> QED
    BY <2>1, <2>4, <2>5, <2>6, <2>7, <2>8, <2>9, Uncommitted
<1> QED
  BY <1>1, <1>2 DEF InsertVersion

LEMMA Rereading ==
  ASSUME VersionInv, VersionTypeOK', NEW s \in Publishers, RereadHolder(s) PROVE VersionInv'
<1>1. CASE ~ holder.alive
  BY <1>1, Leaving DEF RereadHolder
<1>2. CASE holder.alive
  <2>1. /\ versionPc[s] \in {"inserted", "edit"} /\ versionPc'[s] = "update"
        /\ entity'[s] = Reloaded(s) /\ written'[s] = ChangedColumns(Reloaded(s), holder)
        /\ UNCHANGED <<holder, versions, objects, inserted, deleting, overlap>>
    BY <1>2 DEF RereadHolder, Goto, VersionInv, VersionTypeOK
  <2>2. InsertedInv(s) /\ EntityInv(s)
    BY DEF VersionInv
  <2>3. VersionCount' = VersionCount
    BY <2>1 DEF VersionCount
  <2>4. Inserting(s)' <=> versionPc[s] = "inserted"
    BY <2>1, <2>2 DEF Inserting, InsertedInv
  <2>5. Inserting(s)' <=> Inserting(s)
    BY <2>1, <2>2, <2>4 DEF Inserting, InsertedInv
  <2>6. InsertedInv(s)'
    BY <2>1, <2>2, <2>3, <2>5 DEF InsertedInv
  <2>7. entity'[s].current = IF versionPc[s] = "inserted" THEN inserted[s].id ELSE entity[s].current
    BY <2>1 DEF Reloaded, At, VersionInv, VersionTypeOK, Holder
  <2>8. EntityInv(s)'
    BY <1>2, <2>1, <2>2, <2>4, <2>5, <2>7 DEF EntityInv
  <2>9. "current" \in written'[s] <=> entity'[s].current # holder.current
    BY <2>1 DEF ChangedColumns
  <2>10. ~ overlap' => SoleInv(s)'
    <3>1. ~ overlap => entity[s].current = holder.current
      BY <2>1 DEF VersionInv, CurrentInv, SoleInv
    <3>2. inserted[s].id = Nothing <=> versionPc[s] = "edit"
      BY <2>1, <2>2 DEF InsertedInv
    <3> QED
      BY <2>1, <2>7, <2>9, <3>1, <3>2 DEF SoleInv, Pointed
  <2>11. \A t \in Publishers \ {s} :
          versionPc'[t] = versionPc[t] /\ entity'[t] = entity[t] /\ written'[t] = written[t]
    BY <1>2 DEF RereadHolder, Goto, VersionInv, VersionTypeOK
  <2>12. s \in AtWork /\ versionPc'[s] # "removed"
    BY <2>1 DEF AtWork
  <2> QED
    BY <2>1, <2>5, <2>6, <2>8, <2>10, <2>11, <2>12, Uncommitted
<1> QED
  BY <1>1, <1>2

LEMMA Flushing ==
  ASSUME VersionInv, VersionTypeOK', NEW s \in Publishers, FlushUpdate(s) \/ FlushDelete(s)
  PROVE  VersionInv'
<1>1. UNCHANGED <<holder, versions, objects, entity, inserted, written, deleting, overlap>>
  BY DEF FlushUpdate, FlushDelete
<1>2. \A t \in Publishers \ {s} : versionPc'[t] = versionPc[t]
  BY DEF FlushUpdate, FlushDelete, Goto, VersionInv, VersionTypeOK
<1>3. InsertedInv(s) /\ EntityInv(s) /\ VersionCount' = VersionCount
  BY <1>1 DEF VersionInv, VersionCount
<1>4. CASE FlushUpdate(s)
  <2>1. versionPc[s] = "update" /\ versionPc'[s] = "flushed"
    BY <1>4 DEF FlushUpdate, At, Goto, VersionInv, VersionTypeOK
  <2>2. Inserting(s)' <=> Inserting(s)
    BY <1>1, <2>1 DEF Inserting
  <2>3. InsertedInv(s)' /\ EntityInv(s)'
    BY <1>1, <1>3, <2>1, <2>2 DEF InsertedInv, EntityInv
  <2>4. ~ overlap' => SoleInv(s)'
    BY <1>1, <2>1 DEF VersionInv, CurrentInv, SoleInv, Pointed
  <2>5. s \in AtWork /\ versionPc'[s] # "removed"
    BY <2>1 DEF AtWork
  <2> QED
    BY <1>1, <1>2, <2>2, <2>3, <2>4, <2>5, Uncommitted
<1>5. CASE FlushDelete(s)
  <2>1. versionPc[s] = "remove" /\ versionPc'[s] = "removed"
    BY <1>5 DEF FlushDelete, At, Goto, VersionInv, VersionTypeOK
  <2>2. ~ Inserting(s)' /\ ~ Inserting(s)
    BY <2>1 DEF Inserting
  <2>3. InsertedInv(s)' /\ EntityInv(s)'
    BY <1>1, <1>3, <2>1, <2>2 DEF InsertedInv, EntityInv
  <2>4. SoleInv(s)'
    BY <2>1 DEF SoleInv
  <2>5. ASSUME NEW t \in Publishers \ {s} PROVE ~ Inserting(t)
    <3>1. Inserting(t) => inserted[t] \in InFlight(s)
      BY DEF Inserting, InFlight
    <3> QED
      BY <1>5, <3>1 DEF FlushDelete
  <2>6. s \in AtWork
    BY <2>1 DEF AtWork
  <2> QED
    BY <1>1, <1>2, <2>2, <2>3, <2>4, <2>5, <2>6, Uncommitted
<1> QED
  BY <1>4, <1>5

-----------------------------------------------------------------------------
(* The commits.                                                            *)

(* After a commit the session is idle; a session that was by itself leaves *)
(* nobody at work.                                                         *)
LEMMA Committing ==
  ASSUME VersionInv, NEW s \in Publishers, CommitChange(s)
  PROVE  /\ versionPc'[s] = "idle" /\ inserted'[s] = NoVersion /\ inserted'[s].id = Nothing
         /\ \A t \in Publishers \ {s} :
              /\ versionPc'[t] = versionPc[t] /\ entity'[t] = entity[t]
              /\ inserted'[t] = inserted[t] /\ written'[t] = written[t]
         /\ UNCHANGED <<objects, deleting, overlap>>
         /\ ~ Inserting(s)' /\ InsertedInv(s)' /\ EntityInv(s)'
         /\ ~ overlap' => AtWork' = {} /\ \A t \in Publishers : SoleInv(t)'
<1>1. versionPc'[s] = "idle" /\ inserted'[s] = NoVersion /\ inserted'[s].id = Nothing
  BY DEF CommitChange, Leave, Goto, VersionInv, VersionTypeOK, NoVersion
<1>2. \A t \in Publishers \ {s} :
        /\ versionPc'[t] = versionPc[t] /\ entity'[t] = entity[t]
        /\ inserted'[t] = inserted[t] /\ written'[t] = written[t]
  BY DEF CommitChange, Leave, Goto, VersionInv, VersionTypeOK
<1>3. UNCHANGED <<objects, deleting, overlap>>
  BY DEF CommitChange
<1>4. ~ Inserting(s)' /\ InsertedInv(s)' /\ EntityInv(s)'
  BY <1>1 DEF Inserting, InsertedInv, EntityInv
<1>5. ASSUME ~ overlap' PROVE AtWork' = {} /\ \A t \in Publishers : SoleInv(t)'
  <2>1. s \in AtWork
    BY DEF CommitChange, At, AtWork
  <2>2. AtWork = {s}
    BY <1>3, <1>5, <2>1 DEF VersionInv, CurrentInv
  <2>3. \A t \in Publishers : versionPc'[t] = "idle"
    BY <1>1, <1>2, <2>2 DEF AtWork
  <2> QED
    BY <2>3 DEF AtWork, SoleInv
<1> QED
  BY <1>1, <1>2, <1>3, <1>4, <1>5

LEMMA CommittingDelete ==
  ASSUME VersionInv, VersionTypeOK', NEW s \in Publishers, CommitChange(s), ~ At(s, "flushed")
  PROVE  VersionInv'
<1>1. At(s, "removed") /\ ~ holder'.alive /\ versions' = {}
  BY DEF CommitChange, VersionInv, VersionTypeOK, Holder
<1>2. NumbersInv'
  <2>1. IsFiniteSet(versions') /\ VersionCount' = 0 /\ Numbers' = {}
    BY <1>1, FS_EmptySet DEF VersionCount, Numbers
  <2> QED
    BY <1>1, <2>1 DEF NumbersInv
<1>3. VersionsReadable'
  BY <1>1 DEF VersionsReadable
<1>4. \A t \in Publishers : ~ Inserting(t)'
  <2>1. \A t \in Publishers : ~ Inserting(t)
    BY <1>1 DEF VersionInv, OneInserts
  <2> QED
    BY <2>1, Committing DEF Inserting
<1>5. ASSUME NEW t \in Publishers \ {s} PROVE InsertedInv(t)' /\ EntityInv(t)'
  <2>1. InsertedInv(t)
    BY DEF VersionInv
  <2>2. InsertedInv(t)'
    BY <1>1, <1>4, <2>1, Committing DEF InsertedInv
  <2> QED
    BY <1>1, <2>2 DEF EntityInv
<1>6. CurrentInv'
  BY <1>1, Committing DEF CurrentInv
<1>7. OneInserts'
  BY <1>4 DEF OneInserts
<1> QED
  BY <1>2, <1>3, <1>5, <1>6, <1>7, Committing DEF VersionInv

(* What the UPDATE leaves in the row.                                      *)
LEMMA Applied ==
  ASSUME VersionInv, NEW s \in Publishers, CommitChange(s), At(s, "flushed")
  PROVE  /\ holder'.alive = holder.alive
         /\ holder'.current = IF "current" \in written[s] THEN entity[s].current ELSE holder.current
         /\ versions' = versions \cup ({inserted[s]} \ {NoVersion})
  BY DEF CommitChange, Apply, VersionInv, VersionTypeOK, Holder

LEMMA CommittingEdit ==
  ASSUME VersionInv, VersionTypeOK', NEW s \in Publishers, CommitChange(s), At(s, "flushed"),
         inserted[s].id = Nothing
  PROVE  VersionInv'
<1>1. versions' = versions
  BY Applied DEF VersionInv, InsertedInv
<1>2. NumbersInv' /\ VersionCount' = VersionCount
  BY <1>1 DEF VersionInv, NumbersInv, Numbers, VersionCount
<1>3. ~ Inserting(s)
  BY DEF Inserting
<1>4. VersionsReadable'
  <2>1. holder.alive => \E v \in versions : v.id = entity[s].current
    BY <1>3 DEF VersionInv, EntityInv, At
  <2> QED
    BY <1>1, <2>1, Applied, Committing DEF VersionInv, VersionsReadable
<1>5. ASSUME NEW t \in Publishers \ {s}
      PROVE  InsertedInv(t)' /\ EntityInv(t)' /\ (Inserting(t)' <=> Inserting(t))
  <2>1. InsertedInv(t) /\ EntityInv(t)
    BY DEF VersionInv
  <2>2. Inserting(t)' <=> Inserting(t)
    BY Committing DEF Inserting
  <2>3. InsertedInv(t)'
    BY <1>2, <2>1, <2>2, Applied, Committing DEF InsertedInv
  <2>4. EntityInv(t)'
    BY <1>1, <2>1, <2>2, Applied, Committing DEF EntityInv
  <2> QED
    BY <2>2, <2>3, <2>4
<1>6. CurrentInv'
  <2> SUFFICES ASSUME ~ overlap' PROVE holder'.current = holder.current
    BY <1>1, <1>2, Applied, Committing DEF VersionInv, CurrentInv
  <2>1. entity[s].current = holder.current
    BY Committing DEF VersionInv, CurrentInv, SoleInv, Pointed, At
  <2> QED
    BY <2>1, Applied
<1>7. OneInserts'
  BY <1>5, Committing DEF VersionInv, OneInserts, At
<1> QED
  BY <1>2, <1>4, <1>5, <1>6, <1>7, Committing DEF VersionInv

LEMMA CommittingVersion ==
  ASSUME VersionInv, VersionTypeOK', NEW s \in Publishers, CommitChange(s), At(s, "flushed"),
         inserted[s].id # Nothing
  PROVE  VersionInv'
<1>1. Inserting(s) /\ holder.alive /\ inserted[s].number = VersionCount + 1
  BY DEF VersionInv, InsertedInv, Inserting, At
<1>2. versions' = versions \cup {inserted[s]}
  BY Applied DEF NoVersion
<1>3. NumbersInv' /\ VersionCount' = VersionCount + 1
  BY <1>1, <1>2, AddNumber DEF VersionInv
<1>4. VersionCount \in Nat /\ \A v \in versions : v.number \in 1..VersionCount
  BY LatestIsCount DEF VersionInv
<1>5. VersionsReadable'
  <2>1. \/ \E v \in versions : v.id = entity[s].current
        \/ entity[s].current = inserted[s].id
    BY <1>1 DEF VersionInv, EntityInv, At
  <2>2. deleting \/ inserted[s].id \in objects
    BY DEF VersionInv, InsertedInv
  <2>3. \E v \in versions' : v.id = holder'.current
    <3>1. \E v \in versions : v.id = holder.current
      BY <1>1 DEF VersionInv, VersionsReadable
    <3>2. \E v \in versions' : v.id = entity[s].current
      BY <1>2, <2>1
    <3> QED
      BY <1>2, <3>1, <3>2, Applied
  <2>4. deleting' \/ \A v \in versions' : v.id \in objects'
    BY <1>2, <2>2, Committing DEF VersionInv, VersionsReadable
  <2> QED
    BY <2>3, <2>4 DEF VersionsReadable
<1>6. ASSUME NEW t \in Publishers \ {s}
      PROVE  InsertedInv(t)' /\ EntityInv(t)' /\ ~ Inserting(t)'
  <2>1. InsertedInv(t) /\ EntityInv(t) /\ ~ Inserting(t)
    BY <1>1 DEF VersionInv, OneInserts
  <2>2. ~ Inserting(t)'
    BY <2>1, Committing DEF Inserting
  <2>3. inserted[t].number \in Nat
    BY DEF VersionInv, VersionTypeOK, Version
  <2>4. inserted[t].number <= VersionCount + 1 => inserted[t].number <= VersionCount' + 1
    BY <1>3, <1>4, <2>3
  <2>5. InsertedInv(t)'
    BY <2>1, <2>2, <2>4, Applied, Committing DEF InsertedInv
  <2>6. EntityInv(t)'
    <3>1. versionPc'[t] = versionPc[t] /\ entity'[t] = entity[t]
      BY Committing
    <3>2. holder'.alive = holder.alive
      BY Applied
    <3>3. versionPc[t] # "idle" /\ holder.alive => \E v \in versions : v.id = entity[t].current
      BY <2>1 DEF EntityInv
    <3> QED
      BY <1>2, <3>1, <3>2, <3>3 DEF EntityInv
  <2> QED
    BY <2>2, <2>5, <2>6
<1>7. CurrentInv'
  <2> SUFFICES ASSUME ~ overlap', NEW v \in versions', v.number = VersionCount' PROVE v.id = holder'.current
    BY Committing DEF CurrentInv
  <2>1. v = inserted[s]
    BY <1>2, <1>3, <1>4
  <2>2. SoleInv(s) /\ Pointed(s) = inserted[s].id
    BY Committing DEF VersionInv, CurrentInv, Pointed
  <2>3. holder'.current = inserted[s].id
    BY <2>2, Applied DEF SoleInv, At
  <2> QED
    BY <2>1, <2>3
<1>8. OneInserts'
  BY <1>6, Committing DEF OneInserts
<1> QED
  BY <1>3, <1>5, <1>6, <1>7, <1>8, Committing DEF VersionInv

-----------------------------------------------------------------------------
(* The theorems.                                                           *)

LEMMA InitVersionInv == VersionInit => VersionInv
<1> SUFFICES ASSUME VersionInit PROVE VersionInv
  OBVIOUS
<1> DEFINE first == [id |-> 1, number |-> 1, snapshot |-> holder.definition]
<1>1. versions = {first} /\ first.id = 1 /\ first.number = 1
  BY DEF VersionInit
<1>2. VersionCount = 1 /\ IsFiniteSet(versions)
  BY <1>1, FS_Singleton DEF VersionCount
<1>3. NumbersInv
  <2>1. Numbers = {1}
    BY <1>1 DEF Numbers
  <2> QED
    BY <1>1, <1>2, <2>1 DEF NumbersInv
<1>4. holder.current = 1 /\ objects = {1} /\ \A s \in Publishers : versionPc[s] = "idle" /\ inserted[s] = NoVersion
  BY DEF VersionInit
<1>5. VersionsReadable
  BY <1>1, <1>4 DEF VersionsReadable
<1>6. \A s \in Publishers : InsertedInv(s) /\ EntityInv(s) /\ ~ Inserting(s) /\ SoleInv(s)
  BY <1>4 DEF InsertedInv, EntityInv, Inserting, SoleInv, NoVersion
<1>7. CurrentInv
  BY <1>1, <1>4, <1>6 DEF CurrentInv, AtWork
<1> QED
  BY <1>3, <1>5, <1>6, <1>7, InitVersionType DEF VersionInv, OneInserts

LEMMA NextVersionInv == VersionInv /\ [VersionNext]_versionVars => VersionInv'
<1> SUFFICES ASSUME VersionInv, [VersionNext]_versionVars PROVE VersionInv'
  OBVIOUS
<1>0. VersionTypeOK'
  BY NextVersionType DEF VersionInv
<1>1. ASSUME NEW s \in Publishers, BeginPublish(s) PROVE VersionInv'
  BY <1>0, <1>1, Reading DEF BeginPublish
<1>2. ASSUME NEW s \in Publishers, BeginEdit(s) PROVE VersionInv'
  BY <1>0, <1>2, Reading DEF BeginEdit
<1>3. ASSUME NEW s \in Publishers, BeginDelete(s) PROVE VersionInv'
  BY <1>0, <1>3, Reading DEF BeginDelete
<1>4. ASSUME NEW s \in Publishers, CommitChange(s) PROVE VersionInv'
  BY <1>0, <1>4, CommittingDelete, CommittingEdit, CommittingVersion
<1>5. ASSUME NEW s \in Publishers, AbandonChange(s) PROVE VersionInv'
  BY <1>0, <1>5, Leaving DEF AbandonChange
<1>6. CASE UNCHANGED versionVars
  <2>1. \A s \in Publishers : InsertedInv(s)' /\ EntityInv(s)' /\ (Inserting(s)' <=> Inserting(s))
    BY <1>6, Bystander DEF versionVars
  <2>2. NumbersInv' /\ VersionsReadable' /\ VersionCount' = VersionCount
    BY <1>6 DEF versionVars, VersionInv, NumbersInv, Numbers, VersionsReadable, VersionCount
  <2>3. CurrentInv'
    BY <1>6, <2>2 DEF versionVars, VersionInv, CurrentInv, SoleInv, Pointed, AtWork
  <2>4. OneInserts'
    BY <1>6, <2>1 DEF versionVars, VersionInv, OneInserts, At
  <2> QED
    BY <1>0, <2>1, <2>2, <2>3, <2>4 DEF VersionInv
<1> QED
  BY <1>0, <1>1, <1>2, <1>3, <1>4, <1>5, <1>6, Storing, InsertingOne, Rereading, Flushing
     DEF VersionNext

THEOREM VersionInvariance == VersionSpec => []VersionInv
  BY InitVersionInv, NextVersionInv, PTL DEF VersionSpec

(* Every variable keeps its type.                                          *)
THEOREM VersionTypeCorrect == VersionSpec => []VersionTypeOK
<1>1. VersionInv => VersionTypeOK
  BY DEF VersionInv
<1> QED
  BY <1>1, VersionInvariance, PTL

(* However publishers, editors and deletions interleave, versions are      *)
(* numbered 1..n, each number once; and sessions that do not overlap leave *)
(* the newest as the current one.                                          *)
THEOREM NumbersRunOnHolds == VersionSpec => []NumbersRunOn
<1>1. VersionInv => NumbersRunOn
  <2> SUFFICES ASSUME VersionInv PROVE NumbersRunOn
    OBVIOUS
  <2>1. LatestNumber = VersionCount /\ NumbersInv
    BY LatestIsCount DEF VersionInv
  <2>2. ASSUME holder.alive, ~ overlap PROVE holder.current = LatestVersion.id
    <3>1. VersionCount \in Numbers
      <4>1. versions # {} /\ VersionCount \in Nat /\ \A v \in versions : v.number \in 1..VersionCount
        BY <2>1, <2>2, LatestIsCount DEF VersionInv, VersionsReadable
      <4> QED
        BY <2>1, <4>1 DEF NumbersInv
    <3>2. LatestVersion \in versions /\ LatestVersion.number = VersionCount
      BY <2>1, <3>1 DEF LatestVersion, Numbers
    <3> QED
      BY <2>2, <3>2 DEF VersionInv, CurrentInv
  <2> QED
    BY <2>1, <2>2 DEF NumbersRunOn, NumbersInv, VersionCount
<1> QED
  BY <1>1, VersionInvariance, PTL

(* The current version exists, and unless somebody has begun to delete the *)
(* row, the bytes of every version on record are stored.                   *)
THEOREM VersionsReadableHolds == VersionSpec => []VersionsReadable
<1>1. VersionInv => VersionsReadable
  BY DEF VersionInv
<1> QED
  BY <1>1, VersionInvariance, PTL

-----------------------------------------------------------------------------
(* Experiments: every run goes by the name its trial had when it was        *)
(* submitted, and the ends and judgements that follow leave it its name.   *)

RunsNamed ==
  \A r \in 1..Len(trialRuns) : trialRuns[r].name = RecordedName(trialRuns[r].trial)

FiniteTrials ==
  IsFiniteSet(trials) /\ \A s \in Comparers : IsFiniteSet(comparing[s].trials)

BoardInv == ExperimentTypeOK /\ FiniteTrials /\ RunsNamed

LEMMA Submitted ==
  ASSUME NEW t \in Trial
  PROVE  /\ Submission(t) \in TrialRun
         /\ Submission(t).name = RecordedName(Submission(t).trial)
  BY DEF Submission, RecordedName, Trial, TrialRun

LEMMA InitBoard == ExperimentInit => BoardInv
<1> SUFFICES ASSUME ExperimentInit PROVE BoardInv
  OBVIOUS
<1>1. comparing \in [Comparers -> Comparison]
  BY DEF ExperimentInit, NotReading, Comparison
<1>2. DOMAIN judged \subseteq DOMAIN trialRuns /\ judged \in [DOMAIN judged -> Scores \cup {NoScore}]
  BY DEF ExperimentInit
<1>3. FiniteTrials
  BY FS_EmptySet DEF ExperimentInit, FiniteTrials, NotReading
<1> QED
  BY <1>1, <1>2, <1>3 DEF ExperimentInit, BoardInv, ExperimentTypeOK, RunsNamed

(* A session reads the trials, and closes.                                 *)
LEMMA Sessions ==
  ASSUME BoardInv, NEW s \in Comparers,
         ReadExperiment(s) \/ RefuseTrials(s)
  PROVE  BoardInv'
<1>0. PICK read \in SUBSET Trial, open \in BOOLEAN :
        /\ IsFiniteSet(read)
        /\ comparing' = [comparing EXCEPT ![s] = [open |-> open, trials |-> read]]
  <2>1. CASE ReadExperiment(s)
    BY <2>1 DEF ReadExperiment, BoardInv, ExperimentTypeOK, FiniteTrials
  <2>2. CASE RefuseTrials(s)
    BY <2>2, FS_EmptySet DEF RefuseTrials, NotReading
  <2> QED
    BY <2>1, <2>2
<1>1. comparing' \in [Comparers -> Comparison]
  <2>1. [open |-> open, trials |-> read] \in Comparison
    BY DEF Comparison
  <2> QED
    BY <1>0, <2>1 DEF BoardInv, ExperimentTypeOK
<1>2. FiniteTrials'
  <2>1. \A c \in Comparers : IsFiniteSet(comparing'[c].trials)
    BY <1>0 DEF BoardInv, ExperimentTypeOK, FiniteTrials
  <2> QED
    BY <2>1 DEF ReadExperiment, RefuseTrials, BoardInv, FiniteTrials
<1> QED
  BY <1>1, <1>2 DEF ReadExperiment, RefuseTrials, BoardInv, ExperimentTypeOK, RunsNamed, RecordedName

LEMMA Editing ==
  ASSUME BoardInv, NEW s \in Comparers, EditTrials(s)
  PROVE  BoardInv'
<1>1. comparing' \in [Comparers -> Comparison]
  BY DEF EditTrials, BoardInv, ExperimentTypeOK, Comparison, NotReading
<1>2. trials' \subseteq Trial /\ IsFiniteSet(trials')
  BY ExperimentConstants, FS_Subset DEF EditTrials, Trial
<1>3. FiniteTrials'
  BY <1>2, FS_EmptySet DEF EditTrials, BoardInv, ExperimentTypeOK, FiniteTrials, NotReading
<1> QED
  BY <1>1, <1>2, <1>3 DEF EditTrials, BoardInv, ExperimentTypeOK, RunsNamed, RecordedName

LEMMA Running ==
  ASSUME BoardInv, NEW s \in Comparers, RunTrials(s)
  PROVE  BoardInv'
<1> DEFINE S == comparing[s].trials
           N == Cardinality(S)
           M == Len(trialRuns)
<1>1. /\ S \subseteq Trial /\ IsFiniteSet(S) /\ N \in Nat
      /\ trialRuns \in Seq(TrialRun) /\ M \in Nat
  <2>1. S \subseteq Trial /\ IsFiniteSet(S) /\ trialRuns \in Seq(TrialRun)
    BY DEF BoardInv, ExperimentTypeOK, Comparison, FiniteTrials
  <2> QED
    BY <2>1, FS_CardinalityType
<1>2. PICK batch \in SetToSeqs(S) :
        trialRuns' = trialRuns \o [i \in DOMAIN batch |-> Submission(batch[i])]
  BY DEF RunTrials
<1>3. batch \in [1..N -> S] /\ DOMAIN batch = 1..N
  BY <1>2 DEF SetToSeqs
<1> DEFINE runs == [i \in 1..N |-> Submission(batch[i])]
<1>4. \A i \in 1..N : Submission(batch[i]) \in TrialRun /\ runs[i] = Submission(batch[i])
                      /\ runs[i].name = RecordedName(runs[i].trial)
  BY <1>1, <1>3, Submitted
<1>5. runs \in Seq(TrialRun) /\ Len(runs) = N
  BY <1>1, <1>4
<1>6. trialRuns' = trialRuns \o runs
  BY <1>2, <1>3
<1> HIDE DEF runs, N, M, S
<1>7. /\ trialRuns' \in Seq(TrialRun) /\ Len(trialRuns') = M + N
      /\ \A r \in 1..(M + N) :
           trialRuns'[r] = IF r <= M THEN trialRuns[r] ELSE runs[r - M]
  <2>1. trialRuns' \in Seq(TrialRun) /\ Len(trialRuns') = M + N
    <3>1. trialRuns \o runs \in Seq(TrialRun)
      BY <1>1, <1>5
    <3>2. Len(trialRuns \o runs) = Len(trialRuns) + Len(runs)
      BY <1>1, <1>5
    <3>3. Len(runs) = N /\ Len(trialRuns) = M
      BY <1>5 DEF M
    <3> QED
      BY <1>6, <3>1, <3>2, <3>3
  <2>2. ASSUME NEW r \in 1..(M + N)
        PROVE  trialRuns'[r] = IF r <= M THEN trialRuns[r] ELSE runs[r - M]
    BY <1>1, <1>5, <1>6, <2>2 DEF M
  <2> QED
    BY <2>1, <2>2
<1>8. RunsNamed'
  <2> SUFFICES ASSUME NEW r \in 1..(M + N)
               PROVE  trialRuns'[r].name = RecordedName(trialRuns'[r].trial)
    BY <1>7 DEF RunsNamed, RecordedName
  <2>1. CASE r <= M
    <3>1. trialRuns'[r] = trialRuns[r] /\ r \in 1..M
      BY <1>1, <1>7, <2>1
    <3> QED
      BY <3>1 DEF BoardInv, RunsNamed, M
  <2>2. CASE r > M
    <3>1. trialRuns'[r] = runs[r - M] /\ r - M \in 1..N
      BY <1>1, <1>7, <2>2
    <3> QED
      BY <1>4, <3>1
  <2> QED
    BY <1>1, <2>1, <2>2
<1>9. DOMAIN judged' \subseteq DOMAIN trialRuns' /\ judged' \in [DOMAIN judged' -> Scores \cup {NoScore}]
  BY <1>1, <1>7 DEF RunTrials, BoardInv, ExperimentTypeOK, M
<1>10. comparing' \in [Comparers -> Comparison] /\ trials' = S /\ UNCHANGED lowerWins
  BY DEF RunTrials, BoardInv, ExperimentTypeOK, Comparison, NotReading, S
<1>11. FiniteTrials'
  <2>1. \A c \in Comparers : comparing'[c].trials = {} \/ comparing'[c].trials = comparing[c].trials
    BY DEF RunTrials, BoardInv, ExperimentTypeOK, NotReading
  <2>2. IsFiniteSet({})
    BY FS_EmptySet
  <2> QED
    BY <1>1, <1>10, <2>1, <2>2 DEF FiniteTrials, BoardInv
<1> QED
  BY <1>1, <1>7, <1>8, <1>9, <1>10, <1>11 DEF BoardInv, ExperimentTypeOK

LEMMA Ending ==
  ASSUME BoardInv, NEW r \in DOMAIN trialRuns, EndTrialRun(r) \/ JudgeRun(r)
  PROVE  BoardInv'
<1> DEFINE M == Len(trialRuns)
<1>1. trialRuns \in Seq(TrialRun) /\ r \in 1..M /\ M \in Nat /\ DOMAIN trialRuns = 1..M
  BY DEF BoardInv, ExperimentTypeOK
<1>2. CASE EndTrialRun(r)
  <2>1. PICK status \in {"succeeded", "failed"}, score \in Scores \cup {NoScore} :
          trialRuns' = [trialRuns EXCEPT ![r].status = status, ![r].score = score]
    <3>1. CASE \E score \in Scores \cup {NoScore} :
                 trialRuns' = [trialRuns EXCEPT ![r].status = "succeeded", ![r].score = score]
      BY <3>1
    <3>2. CASE trialRuns' = [trialRuns EXCEPT ![r].status = "failed"]
      <4> DEFINE old == trialRuns[r]
      <4>1. old \in TrialRun
        BY <1>1
      <4>2. [old EXCEPT !.status = "failed"] = [old EXCEPT !.status = "failed", !.score = old.score]
        BY <4>1 DEF TrialRun
      <4>3. old.score \in Scores \cup {NoScore}
        BY <4>1 DEF TrialRun
      <4>4. trialRuns' = [trialRuns EXCEPT ![r] = [old EXCEPT !.status = "failed"]]
        BY <3>2
      <4>5. trialRuns' = [trialRuns EXCEPT ![r].status = "failed", ![r].score = old.score]
        BY <1>1, <4>1, <4>2, <4>4
      <4> QED
        BY <4>3, <4>5
    <3> QED
      BY <1>2, <3>1, <3>2 DEF EndTrialRun
  <2> DEFINE ended == [trialRuns[r] EXCEPT !.status = status, !.score = score]
  <2>2. ended \in TrialRun /\ ended.name = trialRuns[r].name /\ ended.trial = trialRuns[r].trial
    <3>1. trialRuns[r] \in TrialRun
      BY <1>1
    <3>2. status \in {"pending", "succeeded", "failed"}
      OBVIOUS
    <3> QED
      BY <3>1, <3>2 DEF TrialRun
  <2>3. trialRuns' = [trialRuns EXCEPT ![r] = ended]
    BY <1>1, <2>1
  <2> HIDE DEF ended
  <2>4. /\ trialRuns' \in Seq(TrialRun) /\ Len(trialRuns') = M /\ DOMAIN trialRuns' = 1..M
        /\ \A q \in 1..M : trialRuns'[q] = IF q = r THEN ended ELSE trialRuns[q]
    BY <1>1, <2>2, <2>3
  <2>5. RunsNamed'
    BY <1>1, <2>2, <2>4 DEF BoardInv, RunsNamed, RecordedName
  <2> QED
    BY <1>1, <1>2, <2>4, <2>5 DEF EndTrialRun, BoardInv, ExperimentTypeOK, FiniteTrials
<1>3. CASE JudgeRun(r)
  BY <1>1, <1>3 DEF JudgeRun, BoardInv, ExperimentTypeOK, RunsNamed, RecordedName, FiniteTrials
<1> QED
  BY <1>2, <1>3

LEMMA NextBoard == BoardInv /\ [ExperimentNext]_experimentVars => BoardInv'
<1> SUFFICES ASSUME BoardInv, [ExperimentNext]_experimentVars PROVE BoardInv'
  OBVIOUS
<1>1. CASE UNCHANGED experimentVars
  BY <1>1 DEF experimentVars, BoardInv, ExperimentTypeOK, RunsNamed, RecordedName, FiniteTrials
<1> QED
  BY <1>1, Sessions, Editing, Running, Ending DEF ExperimentNext

(* The board of any such state.                                            *)
LEMMA BoardOf == BoardInv => BoardShowsOwnRuns
<1> SUFFICES ASSUME BoardInv, NEW t \in trials,
                    \A r \in Scanned : trialRuns[r].trial # t => ~ Confusable(t, trialRuns[r].trial)
             PROVE  /\ ShownRun(t) = NewestOf({r \in Succeeded : trialRuns[r].trial = t})
                    /\ \A r \in ShownRun(t) :
                         RowScore(t) = IF r \in DOMAIN judged THEN judged[r] ELSE trialRuns[r].score
  BY DEF BoardShowsOwnRuns
<1> DEFINE Named(name) == {r \in Succeeded : trialRuns[r].name = name}
           Own == {r \in Succeeded : trialRuns[r].trial = t}
<1>1. /\ Scanned \subseteq 1..Len(trialRuns) /\ Succeeded \subseteq Scanned
      /\ Len(trialRuns) \in Nat
  BY DEF BoardInv, ExperimentTypeOK, Scanned, Succeeded
<1>2. \A r \in Succeeded : trialRuns[r].name = RecordedName(trialRuns[r].trial)
  BY <1>1 DEF BoardInv, RunsNamed
<1>3. \A r \in Succeeded : trialRuns[r].name \in {RowName(t), t.target} => r \in Own
  BY <1>1, <1>2 DEF Confusable
<1>4. \A r \in Own : trialRuns[r].name = RecordedName(t)
  BY <1>2
<1>5. RecordedName(t) \in {RowName(t), t.target}
  BY DEF RecordedName, RowName
<1>6. Named(RecordedName(t)) = Own
  BY <1>3, <1>4, <1>5
<1>7. \A name \in {RowName(t), t.target} :
        Named(name) = IF name = RecordedName(t) THEN Own ELSE {}
  BY <1>3, <1>4, <1>6
<1>8. \A name : NewestNamed(name) = NewestOf(Named(name))
  BY DEF NewestNamed
<1>9. NewestOf({}) = {}
  BY DEF NewestOf
<1> HIDE DEF Named, Own
<1>10. ShownRun(t) = NewestOf(Own)
  <2>1. CASE RowName(t) = RecordedName(t)
    <3>1. NewestNamed(RowName(t)) = NewestOf(Own)
      BY <1>7, <1>8, <2>1
    <3>2. NewestNamed(t.target) = NewestOf(Own) \/ NewestNamed(t.target) = {}
      BY <1>7, <1>8, <1>9
    <3> QED
      BY <3>1, <3>2 DEF ShownRun
  <2>2. CASE RowName(t) # RecordedName(t)
    <3>1. NewestNamed(RowName(t)) = {}
      BY <1>7, <1>8, <1>9, <2>2
    <3>2. NewestNamed(t.target) = NewestOf(Own)
      BY <1>5, <1>6, <1>8, <2>2
    <3> QED
      BY <3>1, <3>2 DEF ShownRun
  <2> QED
    BY <2>1, <2>2
<1>11. ASSUME NEW r \in ShownRun(t)
       PROVE  RowScore(t) = IF r \in DOMAIN judged THEN judged[r] ELSE trialRuns[r].score
  <2>1. \A p, q \in NewestOf(Own) : p = q
    <3>1. Own \subseteq Succeeded
      BY DEF Own
    <3>2. \A p \in Own : p \in Nat
      BY <1>1, <3>1
    <3> QED
      BY <3>2 DEF NewestOf
  <2>2. (CHOOSE q \in ShownRun(t) : TRUE) = r
    BY <1>10, <1>11, <2>1
  <2>3. RowScore(t) = ScoreOf(r)
    BY <1>11, <2>2 DEF RowScore
  <2> QED
    BY <2>3 DEF ScoreOf
<1> QED
  BY <1>10, <1>11 DEF Own

(* However trials are renamed, deleted or exchanged between runs, a row of  *)
(* the leaderboard shows the newest success of its own trial, judged if it *)
(* was, unless a trial ever run shares a name with it.                     *)
THEOREM BoardShowsOwnRunsHolds == ExperimentSpec => []BoardShowsOwnRuns
<1>1. ExperimentSpec => []BoardInv
  BY InitBoard, NextBoard, PTL DEF ExperimentSpec
<1> QED
  BY <1>1, BoardOf, PTL

-----------------------------------------------------------------------------
(* Sorting: what the leaderboard is put in order by exists.                 *)

(* A set of numbers that is not empty has a least one.                      *)
LEMMA LeastNumber ==
  ASSUME NEW T, T \subseteq Nat, T # {}
  PROVE  \E m \in T : \A k \in T : m <= k
<1>1. PICK m \in T : \A k \in T : ~ (<<k, m>> \in OpToRel(<, Nat))
  BY WFMin, NatLessThanWellFounded
<1>2. \A k \in T : k < m => <<k, m>> \in OpToRel(<, Nat)
  BY DEF OpToRel
<1>3. \A k \in T : ~ (k < m)
  BY <1>1, <1>2, Zenon
<1> QED
  BY <1>3

Distinct(f, n) == \A i, j \in 1..n : i # j => f[i] # f[j]
Arranged(f, n, R) == \A i, j \in 1..n : i < j => <<f[i], f[j]>> \in R
Sorting(g, f, n, R) ==
  /\ Distinct(g, n) /\ Arranged(g, n, R)
  /\ \A i \in 1..n : \E j \in 1..n : g[j] = f[i]
  /\ \A j \in 1..n : \E i \in 1..n : g[j] = f[i]

(* One more element than can be sorted can be sorted: the greatest of the   *)
(* others, or the new one, goes last.                                       *)
LEMMA SortOneMore ==
  ASSUME NEW S, NEW R,
         \A t, u \in S : <<t, u>> \in R \/ <<u, t>> \in R,
         \A t, u, v \in S : <<t, u>> \in R /\ <<u, v>> \in R => <<t, v>> \in R,
         NEW k \in Nat \ {0},
         \A f \in [1..k -> S] : Distinct(f, k) => \E g \in [1..k -> S] : Sorting(g, f, k, R),
         NEW f \in [1..(k+1) -> S], Distinct(f, k+1)
  PROVE  \E g \in [1..(k+1) -> S] : Sorting(g, f, k+1, R)
<1> DEFINE x == f[k+1]
           most == [i \in 1..k |-> f[i]]
<1>1. x \in S /\ most \in [1..k -> S] /\ Distinct(most, k)
  BY DEF Distinct
<1>2. PICK g \in [1..k -> S] : Sorting(g, most, k, R)
  BY <1>1
<1> DEFINE last == g[k]
<1>3. last \in S /\ last # x
  BY <1>2 DEF Sorting, Distinct
<1>4. \A j \in 1..k : \E i \in 1..k : g[j] = f[i]
  BY <1>2 DEF Sorting
<1>5. \A i \in 1..k : \E j \in 1..k : g[j] = f[i]
  BY <1>2 DEF Sorting
<1>6. CASE <<last, x>> \in R
  <2> DEFINE h == [i \in 1..(k+1) |-> IF i = k + 1 THEN x ELSE g[i]]
  <2>1. h \in [1..(k+1) -> S] /\ h[k+1] = x /\ \A i \in 1..k : h[i] = g[i]
    BY <1>1
  <2> HIDE DEF h
  <2>2. \A j \in 1..k : g[j] # x
    BY <1>4 DEF Distinct
  <2>3. Distinct(h, k+1)
    <3> SUFFICES ASSUME NEW i \in 1..(k+1), NEW j \in 1..(k+1), i < j PROVE h[i] # h[j]
      BY DEF Distinct
    <3>1. i \in 1..k
      OBVIOUS
    <3>2. CASE j = k + 1
      BY <2>1, <2>2, <3>1, <3>2
    <3>3. CASE j \in 1..k
      BY <2>1, <3>1, <3>3, <1>2 DEF Sorting, Distinct
    <3> QED
      BY <3>2, <3>3
  <2>4. Arranged(h, k+1, R)
    <3> SUFFICES ASSUME NEW i \in 1..(k+1), NEW j \in 1..(k+1), i < j PROVE <<h[i], h[j]>> \in R
      BY DEF Arranged
    <3>1. i \in 1..k
      OBVIOUS
    <3>2. CASE j = k + 1
      <4>1. CASE i = k
        <5>1. h[i] = last /\ h[j] = x
          BY <2>1, <3>1, <3>2, <4>1
        <5> QED
          BY <1>6, <5>1
      <4>2. CASE i < k
        <5>1. <<g[i], last>> \in R
          BY <1>2, <3>1, <4>2 DEF Sorting, Arranged
        <5>2. g[i] \in S
          BY <3>1
        <5>3. <<g[i], x>> \in R
          BY <1>1, <1>3, <1>6, <5>1, <5>2
        <5> QED
          BY <2>1, <3>1, <3>2, <5>3
      <4> QED
        BY <3>1, <4>1, <4>2
    <3>3. CASE j \in 1..k
      BY <2>1, <3>1, <3>3, <1>2 DEF Sorting, Arranged
    <3> QED
      BY <3>2, <3>3
  <2>5. \A i \in 1..(k+1) : \E j \in 1..(k+1) : h[j] = f[i]
    <3> SUFFICES ASSUME NEW i \in 1..(k+1) PROVE \E j \in 1..(k+1) : h[j] = f[i]
      OBVIOUS
    <3>1. CASE i = k + 1
      BY <2>1, <3>1
    <3>2. CASE i \in 1..k
      <4>1. PICK j \in 1..k : g[j] = f[i]
        BY <1>5, <3>2
      <4> QED
        BY <2>1, <4>1
    <3> QED
      BY <3>1, <3>2
  <2>6. \A j \in 1..(k+1) : \E i \in 1..(k+1) : h[j] = f[i]
    <3> SUFFICES ASSUME NEW j \in 1..(k+1) PROVE \E i \in 1..(k+1) : h[j] = f[i]
      OBVIOUS
    <3>1. CASE j = k + 1
      BY <2>1, <3>1
    <3>2. CASE j \in 1..k
      <4>1. PICK i \in 1..k : g[j] = f[i]
        BY <1>4, <3>2
      <4> QED
        BY <2>1, <3>2, <4>1
    <3> QED
      BY <3>1, <3>2
  <2> QED
    BY <2>1, <2>3, <2>4, <2>5, <2>6 DEF Sorting
<1>7. CASE <<last, x>> \notin R
  <2>1. <<x, last>> \in R
    BY <1>1, <1>3, <1>7
  <2> DEFINE f2 == [i \in 1..k |-> IF f[i] = last THEN x ELSE f[i]]
  <2>2. f2 \in [1..k -> S] /\ \A i \in 1..k : f2[i] = IF f[i] = last THEN x ELSE f[i]
    BY <1>1
  <2> HIDE DEF f2
  <2>3. \A i \in 1..k : f[i] # x
    BY DEF Distinct
  <2>4. Distinct(f2, k)
    BY <2>2, <2>3 DEF Distinct
  <2>5. PICK g2 \in [1..k -> S] : Sorting(g2, f2, k, R)
    BY <2>2, <2>4
  <2> DEFINE h == [i \in 1..(k+1) |-> IF i = k + 1 THEN last ELSE g2[i]]
  <2>6. h \in [1..(k+1) -> S] /\ h[k+1] = last /\ \A i \in 1..k : h[i] = g2[i]
    BY <1>3
  <2> HIDE DEF h, last, x
  <2>7. \A j \in 1..k : g2[j] # last /\ <<g2[j], last>> \in R
    <3> SUFFICES ASSUME NEW j \in 1..k PROVE g2[j] # last /\ <<g2[j], last>> \in R
      OBVIOUS
    <3>1. PICK i \in 1..k : g2[j] = f2[i]
      BY <2>5 DEF Sorting
    <3>2. CASE f[i] = last
      BY <1>3, <2>1, <2>2, <3>1, <3>2
    <3>3. CASE f[i] # last
      <4>1. PICK l \in 1..k : g[l] = f[i]
        BY <1>5
      <4>2. l < k
        BY <3>3, <4>1 DEF last
      <4>3. <<g[l], g[k]>> \in R
        BY <1>2, <4>2 DEF Sorting, Arranged
      <4> QED
        BY <2>2, <3>1, <3>3, <4>1, <4>3 DEF last
    <3> QED
      BY <3>2, <3>3
  <2>8. Distinct(h, k+1)
    <3> SUFFICES ASSUME NEW i \in 1..(k+1), NEW j \in 1..(k+1), i < j PROVE h[i] # h[j]
      BY DEF Distinct
    <3>1. i \in 1..k
      OBVIOUS
    <3>2. CASE j = k + 1
      BY <2>6, <2>7, <3>1, <3>2
    <3>3. CASE j \in 1..k
      BY <2>6, <3>1, <3>3, <2>5 DEF Sorting, Distinct
    <3> QED
      BY <3>2, <3>3
  <2>9. Arranged(h, k+1, R)
    <3> SUFFICES ASSUME NEW i \in 1..(k+1), NEW j \in 1..(k+1), i < j PROVE <<h[i], h[j]>> \in R
      BY DEF Arranged
    <3>1. i \in 1..k
      OBVIOUS
    <3>2. CASE j = k + 1
      BY <2>6, <2>7, <3>1, <3>2
    <3>3. CASE j \in 1..k
      BY <2>6, <3>1, <3>3, <2>5 DEF Sorting, Arranged
    <3> QED
      BY <3>2, <3>3
  <2>10. PICK top \in 1..k : f[top] = last
    BY <1>4 DEF last
  <2>11. \A i \in 1..(k+1) : \E j \in 1..(k+1) : h[j] = f[i]
    <3> SUFFICES ASSUME NEW i \in 1..(k+1) PROVE \E j \in 1..(k+1) : h[j] = f[i]
      OBVIOUS
    <3>1. CASE i = k + 1
      <4>1. f2[top] = x
        BY <2>2, <2>10
      <4>2. PICK j \in 1..k : g2[j] = f2[top]
        BY <2>5 DEF Sorting
      <4> QED
        BY <2>6, <3>1, <4>1, <4>2 DEF x
    <3>2. CASE i \in 1..k /\ f[i] # last
      <4>1. PICK j \in 1..k : g2[j] = f2[i]
        BY <2>5, <3>2 DEF Sorting
      <4> QED
        BY <2>2, <2>6, <3>2, <4>1
    <3>3. CASE f[i] = last
      BY <2>6, <3>3
    <3> QED
      BY <3>1, <3>2, <3>3
  <2>12. \A j \in 1..(k+1) : \E i \in 1..(k+1) : h[j] = f[i]
    <3> SUFFICES ASSUME NEW j \in 1..(k+1) PROVE \E i \in 1..(k+1) : h[j] = f[i]
      OBVIOUS
    <3>1. CASE j = k + 1
      BY <2>6, <2>10, <3>1
    <3>2. CASE j \in 1..k
      <4>1. PICK i \in 1..k : g2[j] = f2[i]
        BY <2>5, <3>2 DEF Sorting
      <4>2. f2[i] = f[k+1] \/ f2[i] = f[i]
        BY <2>2 DEF x
      <4> QED
        BY <2>6, <3>2, <4>1, <4>2
    <3> QED
      BY <3>1, <3>2
  <2> QED
    BY <2>6, <2>8, <2>9, <2>11, <2>12 DEF Sorting
<1> QED
  BY <1>6, <1>7

(* Finitely many things that any two of can be compared can be sorted.      *)
LEMMA Sortable ==
  ASSUME NEW S, NEW R,
         \A t, u \in S : <<t, u>> \in R \/ <<u, t>> \in R,
         \A t, u, v \in S : <<t, u>> \in R /\ <<u, v>> \in R => <<t, v>> \in R
  PROVE  \A n \in Nat : \A f \in [1..n -> S] :
           Distinct(f, n) => \E g \in [1..n -> S] : Sorting(g, f, n, R)
<1> DEFINE Good(n) == \A f \in [1..n -> S] :
                        Distinct(f, n) => \E g \in [1..n -> S] : Sorting(g, f, n, R)
           Bad == {n \in Nat : ~ Good(n)}
<1>1. ASSUME Bad # {} PROVE FALSE
  <2>1. PICK m \in Bad : \A k \in Bad : m <= k
    BY <1>1, LeastNumber
  <2>2. m \in Nat /\ ~ Good(m)
    OBVIOUS
  <2>3. Good(0)
    <3> SUFFICES ASSUME NEW f \in [1..0 -> S] PROVE Sorting(f, f, 0, R)
      OBVIOUS
    <3> QED
      BY DEF Sorting, Distinct, Arranged
  <2>4. Good(1)
    <3> SUFFICES ASSUME NEW f \in [1..1 -> S] PROVE Sorting(f, f, 1, R)
      OBVIOUS
    <3> QED
      BY DEF Sorting, Distinct, Arranged
  <2> HIDE DEF Good
  <2>5. m # 0 /\ m # 1
    BY <2>2, <2>3, <2>4
  <2>9. m - 1 \in Nat \ {0} /\ (m - 1) + 1 = m
    BY <2>2, <2>5
  <2>6. Good(m - 1)
    BY <2>1, <2>9
  <2> DEFINE k == m - 1
  <2>7. k \in Nat \ {0} /\ Good(k) /\ k + 1 = m
    BY <2>9, <2>6
  <2> HIDE DEF k
  <2>8. Good(k + 1)
    <3> SUFFICES ASSUME NEW f \in [1..(k+1) -> S], Distinct(f, k+1)
                 PROVE  \E g \in [1..(k+1) -> S] : Sorting(g, f, k+1, R)
      BY DEF Good
    <3>1. \A e \in [1..k -> S] : Distinct(e, k) => \E g \in [1..k -> S] : Sorting(g, e, k, R)
      BY <2>7 DEF Good
    <3> QED
      BY <2>7, <3>1, SortOneMore
  <2> QED
    BY <2>2, <2>7, <2>8
<1> QED
  BY <1>1

(* The value a row is sorted by is a reported one, or none.                 *)
LEMMA Scored ==
  ASSUME BoardInv, NEW t
  PROVE  RowScore(t) \in Scores \cup {NoScore}
<1>1. CASE ShownRun(t) = {}
  BY <1>1 DEF RowScore
<1>2. CASE ShownRun(t) # {}
  <2>1. ShownRun(t) \subseteq DOMAIN trialRuns
    BY DEF ShownRun, NewestNamed, NewestOf, Succeeded, Scanned
  <2>2. PICK r \in DOMAIN trialRuns : RowScore(t) = ScoreOf(r)
    BY <1>2, <2>1 DEF RowScore
  <2>3. trialRuns[r].score \in Scores \cup {NoScore}
    <3>1. trialRuns \in Seq(TrialRun)
      BY DEF BoardInv, ExperimentTypeOK
    <3>2. trialRuns[r] \in TrialRun
      BY <3>1
    <3> QED
      BY <3>2 DEF TrialRun
  <2> QED
    BY <2>2, <2>3 DEF ScoreOf, BoardInv, ExperimentTypeOK
<1> QED
  BY <1>1, <1>2

(* The key of the leaderboard can be sorted by: there is a board, of every  *)
(* trial once, in which nothing comes before what is better.                *)
LEMMA BoardInOrder ==
  ASSUME BoardInv
  PROVE  /\ Board \in SetToSeqs(trials)
         /\ \A i, j \in DOMAIN Board : i < j => ~ Before(Board[j], Board[i])
<1> DEFINE N == Cardinality(trials)
           R == {q \in trials \X trials : ~ Before(q[2], q[1])}
<1>1. \A t \in trials : RowScore(t) \in Int \/ RowScore(t) = NoScore
  BY Scored, ExperimentConstants
<1>2. NoScore \notin Int /\ lowerWins \in BOOLEAN
  BY ExperimentConstants DEF BoardInv, ExperimentTypeOK
<1>3. \A t, u \in trials : ~ Before(u, t) \/ ~ Before(t, u)
  BY <1>1, <1>2 DEF Before
<1>4. \A t, u, v \in trials : ~ Before(u, t) /\ ~ Before(v, u) => ~ Before(v, t)
  BY <1>1, <1>2 DEF Before
<1>5. \A t, u \in trials : <<t, u>> \in R <=> ~ Before(u, t)
  OBVIOUS
<1> HIDE DEF R
<1>6. /\ \A t, u \in trials : <<t, u>> \in R \/ <<u, t>> \in R
      /\ \A t, u, v \in trials : <<t, u>> \in R /\ <<u, v>> \in R => <<t, v>> \in R
  BY <1>3, <1>4, <1>5
<1>7. N \in Nat /\ ExistsBijection(1..N, trials)
  BY FS_CardinalityType DEF BoardInv, FiniteTrials
<1>8. PICK f \in [1..N -> trials] : Distinct(f, N)
  BY <1>7 DEF ExistsBijection, Bijection, Injection, IsInjective, Distinct
<1>9. PICK g \in [1..N -> trials] : Sorting(g, f, N, R)
  BY <1>6, <1>7, <1>8, Sortable
<1>10. g \in SetToSeqs(trials)
  BY <1>9 DEF SetToSeqs, Sorting, Distinct
<1>11. \A i, j \in DOMAIN g : i < j => ~ Before(g[j], g[i])
  BY <1>5, <1>9 DEF Sorting, Arranged
<1> QED
  BY <1>10, <1>11 DEF Board

LEMMA LeadersLead == BoardInv => BestLeads
<1> SUFFICES ASSUME BoardInv, NEW i \in 1..Len(Board), NEW j \in 1..Len(Board),
                    i < j, RowScore(Board[j]) # NoScore
             PROVE  /\ RowScore(Board[i]) # NoScore
                    /\ IF lowerWins THEN RowScore(Board[i]) <= RowScore(Board[j])
                                    ELSE RowScore(Board[i]) >= RowScore(Board[j])
  BY DEF BestLeads
<1>1. Cardinality(trials) \in Nat
  BY FS_CardinalityType DEF BoardInv, FiniteTrials
<1>2. Board \in [1..Cardinality(trials) -> trials]
  BY BoardInOrder DEF SetToSeqs
<1>3. DOMAIN Board = 1..Len(Board)
  BY <1>1, <1>2
<1>4. ~ Before(Board[j], Board[i])
  BY <1>3, BoardInOrder
<1>5. /\ RowScore(Board[i]) \in Int \/ RowScore(Board[i]) = NoScore
      /\ RowScore(Board[j]) \in Int
  BY Scored, ExperimentConstants
<1>6. NoScore \notin Int /\ lowerWins \in BOOLEAN
  BY ExperimentConstants DEF BoardInv, ExperimentTypeOK
<1> QED
  BY <1>4, <1>5, <1>6 DEF Before

(* The leaderboard tells what the runs measured: rows show their own runs,  *)
(* the best of them leads, whichever way better runs, and trials nobody     *)
(* measured come last.                                                      *)
THEOREM BoardIsTrueHolds == ExperimentSpec => []BoardIsTrue
<1>1. ExperimentSpec => []BoardInv
  BY InitBoard, NextBoard, PTL DEF ExperimentSpec
<1>2. BoardInv => BoardIsTrue
  BY BoardOf, LeadersLead DEF BoardIsTrue
<1> QED
  BY <1>1, <1>2, PTL

-----------------------------------------------------------------------------
(* Nested pipelines: what a save that passes its check leaves acyclic.      *)

Graph == [Pipelines -> SUBSET Pipelines]
LeadsBack(graph, p) == p \in Reachable(graph, graph[p])

(* What is reachable is the least set nothing leads out of.                *)
LEMMA ReachableLeast ==
  ASSUME NEW graph \in Graph, NEW from \in SUBSET Pipelines
  PROVE  /\ Reachable(graph, from) \in SUBSET Pipelines
         /\ from \subseteq Reachable(graph, from)
         /\ Closed(graph, Reachable(graph, from))
         /\ \A S \in SUBSET Pipelines :
              from \subseteq S /\ Closed(graph, S) => Reachable(graph, from) \subseteq S
<1>1. Closed(graph, Reachable(graph, from))
  <2> SUFFICES ASSUME NEW p \in Reachable(graph, from), NEW q \in graph[p],
                      NEW S \in SUBSET Pipelines, from \subseteq S, Closed(graph, S)
               PROVE  q \in Pipelines /\ q \in S
    BY DEF Closed, Reachable, Graph
  <2>1. p \in S /\ p \in Pipelines
    BY DEF Reachable
  <2>2. graph[p] \subseteq S
    BY <2>1 DEF Closed
  <2> QED
    BY <2>2
<1> QED
  BY <1>1 DEF Reachable

(* A pipeline whose new steps do not lead to it can be given them.          *)
LEMMA NoLoopMade ==
  ASSUME NEW graph \in Graph, NEW p \in Pipelines, NEW inner \in SUBSET Pipelines,
         p \notin Reachable(graph, inner),
         \A q \in Pipelines : ~ LeadsBack(graph, q),
         NEW q \in Pipelines
  PROVE  ~ LeadsBack([graph EXCEPT ![p] = inner], q)
<1> DEFINE new == [graph EXCEPT ![p] = inner]
           R == Reachable(graph, inner)
           T == Reachable(graph, graph[q])
<1>1. new \in Graph /\ new[p] = inner /\ \A x \in Pipelines \ {p} : new[x] = graph[x]
  BY DEF Graph
<1>2. graph[q] \in SUBSET Pipelines /\ new[q] \in SUBSET Pipelines
  BY <1>1 DEF Graph
<1>3. R \in SUBSET Pipelines /\ inner \subseteq R /\ Closed(graph, R) /\ p \notin R
  BY ReachableLeast
<1>4. /\ T \in SUBSET Pipelines /\ graph[q] \subseteq T /\ Closed(graph, T) /\ q \notin T
      /\ \A S \in SUBSET Pipelines : graph[q] \subseteq S /\ Closed(graph, S) => T \subseteq S
  BY <1>2, ReachableLeast DEF LeadsBack
<1>5. \A S \in SUBSET Pipelines :
        new[q] \subseteq S /\ Closed(new, S) => Reachable(new, new[q]) \subseteq S
  BY <1>1, <1>2, ReachableLeast
<1> HIDE DEF new, R, T
<1>6. Closed(new, R)
  BY <1>1, <1>3 DEF Closed
<1>7. CASE q = p
  <2>1. new[q] \subseteq R
    BY <1>1, <1>3, <1>7
  <2>2. q \notin Reachable(new, new[q])
    BY <1>3, <1>5, <1>6, <1>7, <2>1
  <2> QED
    BY <2>2 DEF LeadsBack, new
<1>8. CASE q # p /\ q \in R
  <2>1. graph[q] \subseteq R
    BY <1>3, <1>8 DEF Closed
  <2>2. T \subseteq R
    BY <1>3, <1>4, <2>1
  <2>3. Closed(new, T)
    BY <1>1, <1>3, <1>4, <2>2 DEF Closed
  <2>4. q \notin Reachable(new, new[q])
    BY <1>1, <1>4, <1>5, <1>8, <2>3
  <2> QED
    BY <2>4 DEF LeadsBack, new
<1>9. CASE q # p /\ q \notin R
  <2>1. Closed(new, T \cup R)
    <3> SUFFICES ASSUME NEW x \in T \cup R PROVE new[x] \subseteq T \cup R
      BY DEF Closed
    <3>1. CASE x \in R
      BY <1>6, <3>1 DEF Closed
    <3>2. CASE x \in T /\ x = p
      BY <1>1, <1>3, <3>2
    <3>3. CASE x \in T /\ x # p
      <4>1. new[x] = graph[x]
        BY <1>1, <1>4, <3>3
      <4> QED
        BY <1>4, <3>3, <4>1 DEF Closed
    <3> QED
      BY <3>1, <3>2, <3>3
  <2>2. new[q] \subseteq T \cup R /\ T \cup R \in SUBSET Pipelines
    BY <1>1, <1>3, <1>4, <1>9
  <2>3. q \notin Reachable(new, new[q])
    BY <1>4, <1>5, <1>9, <2>1, <2>2
  <2> QED
    BY <2>3 DEF LeadsBack, new
<1> QED
  BY <1>7, <1>8, <1>9

(* While nothing has crossed, what a save or a run has read is what is      *)
(* committed, unless a commit has outdated it: the steps a save brings have *)
(* been checked against that or are the ones there, and a run holds, and    *)
(* has written, what is there.                                              *)
SaveFresh(e) ==
  saves[e] # NoSave /\ e \notin outdated =>
    \/ saves[e][2] = nests[saves[e][1]]
    \/ saves[e][1] \notin Reachable(nests, saves[e][2])

FreshFrames(frames) ==
  \A i \in 1..Len(frames) : frames[i].steps = nests[frames[i].pipeline]

FreshRows(rows) == \A p \in DOMAIN rows : rows[p] = nests[p]

RunFresh(r) == r \notin outdated => FreshFrames(descent[r]) /\ FreshRows(flushed[r])

(* Only a run has rows of its own.                                          *)
IdleRuns == \A r \in Runs : descent[r] = <<>> => DOMAIN flushed[r] = {}

NestingInv ==
  /\ GraphTypeOK /\ IdleRuns
  /\ ~ crossed =>
       /\ \A p \in Pipelines : ~ LeadsBack(nests, p)
       /\ \A e \in Editors : SaveFresh(e)
       /\ \A r \in Runs : RunFresh(r)

LEMMA InitNesting == GraphInit => NestingInv
<1> SUFFICES ASSUME GraphInit PROVE NestingInv
  OBVIOUS
<1>1. nests \in Graph /\ \A p \in Pipelines : nests[p] = {}
  BY DEF GraphInit, Graph
<1>2. ASSUME NEW p \in Pipelines PROVE ~ LeadsBack(nests, p)
  <2>1. Closed(nests, {}) /\ {} \in SUBSET Pipelines /\ nests[p] \subseteq {}
    BY <1>1 DEF Closed
  <2>2. Reachable(nests, nests[p]) \subseteq {}
    BY <1>1, <2>1, ReachableLeast
  <2> QED
    BY <2>2 DEF LeadsBack
<1>3. NothingFlushed \in FlushedRows /\ DOMAIN NothingFlushed = {}
  BY DEF NothingFlushed, FlushedRows
<1>4. GraphTypeOK
  <2>1. descent \in [Runs -> Seq(Frame)]
    BY DEF GraphInit
  <2>2. saveCount \in 0..MaxSaves /\ saves \in [Editors -> {NoSave} \cup (Pipelines \X SUBSET Pipelines)]
    BY GraphConstants DEF GraphInit
  <2>3. nests \in [Pipelines -> SUBSET Pipelines] /\ flushed \in [Runs -> FlushedRows]
    BY <1>3 DEF GraphInit
  <2> QED
    BY <2>1, <2>2, <2>3 DEF GraphInit, GraphTypeOK
<1>5. \A e \in Editors : SaveFresh(e)
  BY DEF GraphInit, SaveFresh
<1>6. \A r \in Runs : RunFresh(r)
  BY <1>3 DEF GraphInit, RunFresh, FreshFrames, FreshRows
<1> QED
  BY <1>2, <1>3, <1>4, <1>5, <1>6 DEF NestingInv, IdleRuns, GraphInit

(* A row as a run's session reads it.                                       *)
LEMMA ViewTyped ==
  ASSUME GraphTypeOK, NEW r \in Runs, NEW p \in Pipelines
  PROVE  /\ View(r, p) \in SUBSET Pipelines
         /\ FreshRows(flushed[r]) => View(r, p) = nests[p]
<1>1. flushed[r] \in FlushedRows
  BY DEF GraphTypeOK
<1>2. PICK rows \in SUBSET Pipelines : flushed[r] \in [rows -> SUBSET Pipelines]
  BY <1>1 DEF FlushedRows
<1> QED
  BY <1>2 DEF View, FreshRows, GraphTypeOK

(* A run, or a nested run, begins with what is there.                       *)
LEMMA OpenedTyped ==
  ASSUME GraphTypeOK, NEW r \in Runs, NEW p \in Pipelines
  PROVE  /\ Opened(r, p) \in Frame
         /\ Opened(r, p).pipeline = p
         /\ FreshRows(flushed[r]) => Opened(r, p).steps = nests[p]
  BY ViewTyped DEF Opened, Frame

LEMMA WithoutTyped ==
  ASSUME GraphTypeOK, NEW r \in Runs, NEW p \in Pipelines, descent[r] # <<>>
  PROVE  /\ Without(r, p) \in Seq(Frame) /\ Len(Without(r, p)) = Len(descent[r])
         /\ FreshFrames(descent[r]) => FreshFrames(Without(r, p))
<1> DEFINE n == Len(descent[r])
           last == [descent[r][n] EXCEPT !.todo = @ \ {p}]
<1>1. descent[r] \in Seq(Frame) /\ n \in Nat /\ n >= 1
  BY DEF GraphTypeOK
<1>2. descent[r][n] \in Frame
  BY <1>1
<1>3. /\ last \in Frame /\ last.steps = descent[r][n].steps
      /\ last.pipeline = descent[r][n].pipeline
  BY <1>2 DEF Frame
<1>4. Without(r, p) = [descent[r] EXCEPT ![n] = last]
  BY DEF Without
<1> HIDE DEF last
<1>5. Without(r, p) \in Seq(Frame) /\ Len(Without(r, p)) = n
  <2>1. descent[r] \in [1..n -> Frame] /\ DOMAIN descent[r] = 1..n
    BY <1>1
  <2>2. Without(r, p) \in [1..n -> Frame]
    BY <1>3, <1>4, <2>1
  <2> QED
    BY <1>1, <2>2
<1> HIDE DEF n
<1>6. ASSUME FreshFrames(descent[r]), NEW i \in 1..n
      PROVE  Without(r, p)[i].steps = nests[Without(r, p)[i].pipeline]
  <2>1. descent[r][i].steps = nests[descent[r][i].pipeline]
    BY <1>6 DEF FreshFrames, n
  <2>2. CASE i = n
    BY <1>1, <1>3, <1>4, <2>1, <2>2
  <2>3. CASE i # n
    BY <1>1, <1>4, <2>1, <2>3
  <2> QED
    BY <2>2, <2>3
<1> QED
  BY <1>5, <1>6 DEF FreshFrames, n

(* A run goes on, without committing.                                       *)
Goes(r, frames, rows) ==
  /\ descent' = [descent EXCEPT ![r] = frames]
  /\ flushed' = [flushed EXCEPT ![r] = rows]
  /\ UNCHANGED <<nests, saves, saveCount, crossed, outdated>>

LEMMA GoingOn ==
  ASSUME NestingInv, NEW r \in Runs,
         NEW frames \in Seq(Frame), NEW rows \in FlushedRows, frames # <<>>,
         ~ crossed /\ r \notin outdated => FreshFrames(frames) /\ FreshRows(rows),
         Goes(r, frames, rows)
  PROVE  NestingInv'
<1>1. GraphTypeOK /\ Goes(r, frames, rows)
  BY DEF NestingInv
<1>2. Open \subseteq Open'
  BY <1>1 DEF Goes, GraphTypeOK, Open
<1>3. GraphTypeOK'
  BY <1>1, <1>2 DEF Goes, GraphTypeOK
<1>4. ASSUME ~ crossed, NEW s \in Runs PROVE RunFresh(s)'
  <2>1. RunFresh(s)
    BY <1>4 DEF NestingInv
  <2>2. CASE s = r
    BY <1>1, <1>4, <2>2 DEF Goes, GraphTypeOK, RunFresh, FreshFrames, FreshRows
  <2>3. CASE s # r
    BY <1>1, <2>1, <2>3 DEF Goes, GraphTypeOK, RunFresh, FreshFrames, FreshRows
  <2> QED
    BY <2>2, <2>3
<1>5. crossed' = crossed /\ nests' = nests /\ saves' = saves /\ outdated' = outdated
  BY DEF Goes
<1>6. IdleRuns'
  BY <1>1 DEF NestingInv, IdleRuns, Goes, GraphTypeOK
<1> QED
  BY <1>3, <1>4, <1>5, <1>6 DEF NestingInv, SaveFresh, LeadsBack

LEMMA StartingDescent ==
  ASSUME NestingInv, NEW r \in Runs, NEW p \in Pipelines, StartDescent(r, p)
  PROVE  NestingInv'
<1>1. GraphTypeOK
  BY DEF NestingInv
<1>2. Goes(r, <<Opened(r, p)>>, flushed[r])
  BY <1>1 DEF StartDescent, Goes, GraphTypeOK
<1>3. <<Opened(r, p)>> \in Seq(Frame) /\ <<Opened(r, p)>> # <<>> /\ flushed[r] \in FlushedRows
  BY <1>1, OpenedTyped DEF GraphTypeOK
<1>4. ~ crossed /\ r \notin outdated =>
        FreshFrames(<<Opened(r, p)>>) /\ FreshRows(flushed[r])
  BY <1>1, OpenedTyped DEF NestingInv, RunFresh, FreshFrames
<1> QED
  BY <1>2, <1>3, <1>4, GoingOn

LEMMA EnteringNested ==
  ASSUME NestingInv, NEW r \in Runs, NEW p \in Pipelines,
         EnterNested(r, p) \/ SkipNested(r, p)
  PROVE  NestingInv'
<1> DEFINE rest == Without(r, p)
           deeper == Append(rest, Opened(r, p))
<1>1. GraphTypeOK /\ descent[r] # <<>> /\ flushed[r] \in FlushedRows
  BY DEF NestingInv, EnterNested, SkipNested, GraphTypeOK
<1>2. Goes(r, rest, flushed[r]) \/ Goes(r, deeper, flushed[r])
  BY <1>1 DEF EnterNested, SkipNested, Goes, GraphTypeOK
<1>3. /\ rest \in Seq(Frame) /\ Len(rest) = Len(descent[r])
      /\ FreshFrames(descent[r]) => FreshFrames(rest)
  BY <1>1, WithoutTyped
<1>4. /\ Opened(r, p) \in Frame /\ Opened(r, p).pipeline = p
      /\ FreshRows(flushed[r]) => Opened(r, p).steps = nests[p]
  BY <1>1, OpenedTyped
<1>5. rest # <<>>
  BY <1>1, <1>3 DEF GraphTypeOK
<1> HIDE DEF rest
<1>6. deeper \in Seq(Frame) /\ deeper # <<>>
  BY <1>3, <1>4
<1>7. ~ crossed /\ r \notin outdated => FreshFrames(descent[r]) /\ FreshRows(flushed[r])
  BY DEF NestingInv, RunFresh
<1>8. ASSUME FreshFrames(rest), Opened(r, p).steps = nests[p] PROVE FreshFrames(deeper)
  <2> SUFFICES ASSUME NEW i \in 1..Len(deeper) PROVE deeper[i].steps = nests[deeper[i].pipeline]
    BY DEF FreshFrames
  <2>1. CASE i = Len(rest) + 1
    BY <1>3, <1>4, <1>8, <2>1
  <2>2. CASE i # Len(rest) + 1
    BY <1>3, <1>4, <1>8, <2>2 DEF FreshFrames
  <2> QED
    BY <2>1, <2>2
<1> HIDE DEF deeper
<1> QED
  BY <1>1, <1>2, <1>3, <1>4, <1>5, <1>6, <1>7, <1>8, GoingOn

LEMMA ReadingBack ==
  ASSUME NestingInv, NEW r \in Runs, ReadBack(r)
  PROVE  NestingInv'
<1> DEFINE n == Len(descent[r])
           last == [descent[r][n] EXCEPT !.same = TRUE]
           frames == [descent[r] EXCEPT ![n] = last]
<1>1. GraphTypeOK /\ descent[r] # <<>> /\ flushed[r] \in FlushedRows
  BY DEF NestingInv, ReadBack, GraphTypeOK
<1>2. descent[r] \in Seq(Frame) /\ n \in Nat /\ n >= 1 /\ descent[r][n] \in Frame
  BY <1>1 DEF GraphTypeOK
<1>3. /\ last \in Frame /\ last.steps = descent[r][n].steps
      /\ last.pipeline = descent[r][n].pipeline
  BY <1>2 DEF Frame
<1>4. Goes(r, frames, flushed[r])
  BY <1>1 DEF ReadBack, Goes, GraphTypeOK
<1> HIDE DEF last
<1>5. frames \in Seq(Frame) /\ Len(frames) = n
  <2>1. descent[r] \in [1..n -> Frame] /\ DOMAIN descent[r] = 1..n
    BY <1>2
  <2>2. frames \in [1..n -> Frame]
    BY <1>3, <2>1
  <2> QED
    BY <1>2, <2>2
<1>6. ASSUME FreshFrames(descent[r]) PROVE FreshFrames(frames)
  BY <1>2, <1>3, <1>5, <1>6 DEF FreshFrames
<1>7. ~ crossed /\ r \notin outdated => FreshFrames(descent[r]) /\ FreshRows(flushed[r])
  BY DEF NestingInv, RunFresh
<1>8. frames # <<>>
  BY <1>2, <1>5
<1> HIDE DEF frames
<1> QED
  BY <1>1, <1>4, <1>5, <1>6, <1>7, <1>8, GoingOn

(* What a run puts back is what it held: unchanged, unless it is outdated.  *)
LEMMA WrittenTyped ==
  ASSUME NestingInv, NEW r \in Runs, descent[r] # <<>>
  PROVE  /\ WrittenBack(r) \in FlushedRows
         /\ ~ crossed /\ r \notin outdated => FreshRows(WrittenBack(r))
<1> DEFINE frame == Innermost(r)
           rows == DOMAIN flushed[r] \cup {frame.pipeline}
<1>1. GraphTypeOK /\ flushed[r] \in FlushedRows
  BY DEF NestingInv, GraphTypeOK
<1>2. DOMAIN flushed[r] \in SUBSET Pipelines
  BY <1>1 DEF FlushedRows
<1>3. frame \in Frame
  BY <1>1 DEF GraphTypeOK, Innermost
<1>4. frame.pipeline \in Pipelines /\ frame.steps \in SUBSET Pipelines
  BY <1>3 DEF Frame
<1>5. \A p \in Pipelines : /\ View(r, p) \in SUBSET Pipelines
                           /\ FreshRows(flushed[r]) => View(r, p) = nests[p]
  BY <1>1, ViewTyped
<1>6. ASSUME ~ crossed, r \notin outdated
      PROVE  FreshRows(flushed[r]) /\ frame.steps = nests[frame.pipeline]
  BY <1>1, <1>6 DEF NestingInv, RunFresh, FreshFrames, Innermost, GraphTypeOK
<1> HIDE DEF frame
<1>7. WrittenBack(r) = [p \in rows |-> IF p = frame.pipeline /\ ~ frame.same
                                       THEN frame.steps ELSE View(r, p)]
  BY DEF WrittenBack, frame
<1>8. rows \in SUBSET Pipelines
  BY <1>2, <1>4
<1> HIDE DEF rows
<1>9. WrittenBack(r) \in [rows -> SUBSET Pipelines] /\ DOMAIN WrittenBack(r) = rows
  BY <1>4, <1>5, <1>7, <1>8
<1>10. ASSUME ~ crossed, r \notin outdated, NEW p \in rows
       PROVE  WrittenBack(r)[p] = nests[p]
  BY <1>5, <1>6, <1>7, <1>8, <1>10
<1> QED
  BY <1>8, <1>9, <1>10 DEF FlushedRows, FreshRows

LEMMA LeavingNested ==
  ASSUME NestingInv, NEW r \in Runs, LeaveNested(r)
  PROVE  NestingInv'
<1> DEFINE outer == SubSeq(descent[r], 1, Len(descent[r]) - 1)
<1>1. GraphTypeOK /\ descent[r] # <<>> /\ Len(descent[r]) > 1
  BY DEF NestingInv, LeaveNested, Updates
<1>2. descent[r] \in Seq(Frame)
  BY <1>1 DEF GraphTypeOK
<1>3. /\ outer \in Seq(Frame) /\ Len(outer) = Len(descent[r]) - 1 /\ outer # <<>>
      /\ \A i \in 1..Len(outer) : outer[i] = descent[r][i]
  <2>1. Len(descent[r]) \in Nat /\ Len(descent[r]) - 1 \in 1..Len(descent[r])
    BY <1>1, <1>2
  <2> DEFINE n == Len(descent[r]) - 1
  <2>2. n \in Int /\ 1 \in Int /\ \A i \in 1..n : descent[r][i] \in Frame
    BY <1>2, <2>1
  <2> HIDE DEF n
  <2>3. /\ SubSeq(descent[r], 1, n) \in Seq(Frame)
        /\ Len(SubSeq(descent[r], 1, n)) = IF 1 <= n THEN n - 1 + 1 ELSE 0
        /\ \A i \in 1..(n - 1 + 1) : SubSeq(descent[r], 1, n)[i] = descent[r][1 + i - 1]
    BY <2>2, SubSeqProperties
  <2>4. n \in 1..Len(descent[r]) /\ n = Len(descent[r]) - 1 /\ outer = SubSeq(descent[r], 1, n)
    BY <2>1 DEF n
  <2>5. Len(descent[r]) \in Nat
    BY <1>2
  <2> HIDE DEF outer
  <2>6. outer \in Seq(Frame) /\ Len(outer) = n /\ n >= 1
    BY <2>3, <2>4, <2>5
  <2>7. outer # <<>>
    BY <2>6
  <2>8. ASSUME NEW i \in 1..n PROVE outer[i] = descent[r][i]
    <3>1. 1 + i - 1 = i /\ i \in 1..(n - 1 + 1)
      BY <2>2, <2>8
    <3> QED
      BY <2>3, <2>4, <3>1
  <2> QED
    BY <2>4, <2>6, <2>7, <2>8
<1>4. FreshFrames(descent[r]) => FreshFrames(outer)
  BY <1>1, <1>2, <1>3 DEF FreshFrames
<1>5. Goes(r, outer, WrittenBack(r))
  BY <1>1 DEF LeaveNested, Goes, GraphTypeOK
<1>6. ~ crossed /\ r \notin outdated => FreshFrames(descent[r])
  BY DEF NestingInv, RunFresh
<1> HIDE DEF outer
<1> QED
  BY <1>1, <1>3, <1>4, <1>5, <1>6, WrittenTyped, GoingOn

(* A save or a run over, as it leaves the graph unchanged: by a rollback, by *)
(* a commit that changes nothing, or as nobody is followed any more.        *)
LEMMA LosingDescent ==
  ASSUME NestingInv, NEW r \in Runs, LoseDescent(r)
  PROVE  NestingInv'
<1>1. GraphTypeOK /\ NothingFlushed \in FlushedRows /\ DOMAIN NothingFlushed = {}
  BY DEF NestingInv, NothingFlushed, FlushedRows
<1>2. /\ descent' = [descent EXCEPT ![r] = <<>>]
      /\ flushed' = [flushed EXCEPT ![r] = NothingFlushed]
      /\ outdated' = outdated \ {r}
      /\ nests' = nests /\ saves' = saves /\ saveCount' = saveCount /\ crossed' = crossed
  BY DEF LoseDescent
<1>3. GraphTypeOK'
  <2>1. outdated' \subseteq Open'
    BY <1>1, <1>2 DEF GraphTypeOK, Open
  <2> QED
    BY <1>1, <1>2, <2>1 DEF GraphTypeOK
<1>4. ASSUME ~ crossed, NEW s \in Runs PROVE RunFresh(s)'
  <2>1. RunFresh(s)
    BY <1>4 DEF NestingInv
  <2>2. CASE s = r
    BY <1>1, <1>2, <2>2 DEF GraphTypeOK, RunFresh, FreshFrames, FreshRows
  <2>3. CASE s # r
    BY <1>1, <1>2, <2>1, <2>3 DEF GraphTypeOK, RunFresh, FreshFrames, FreshRows
  <2> QED
    BY <2>2, <2>3
<1>5. ASSUME ~ crossed, NEW e \in Editors PROVE SaveFresh(e)'
  <2>1. SaveFresh(e) /\ e # r
    BY <1>5, GraphConstants DEF NestingInv
  <2> QED
    BY <1>2, <2>1 DEF SaveFresh
<1>6. IdleRuns'
  BY <1>1, <1>2 DEF NestingInv, IdleRuns, GraphTypeOK
<1> QED
  BY <1>2, <1>3, <1>4, <1>5, <1>6 DEF NestingInv, LeadsBack

LEMMA FinishingDescent ==
  ASSUME NestingInv, NEW r \in Runs, FinishDescent(r)
  PROVE  NestingInv'
<1> DEFINE back == WrittenBack(r)
           graph == [p \in Pipelines |-> IF p \in DOMAIN back THEN back[p] ELSE nests[p]]
<1>1. /\ GraphTypeOK /\ descent[r] # <<>>
      /\ NothingFlushed \in FlushedRows /\ DOMAIN NothingFlushed = {}
  BY DEF NestingInv, FinishDescent, Updates, NothingFlushed, FlushedRows
<1>2. back \in FlushedRows /\ (~ crossed /\ r \notin outdated => FreshRows(back))
  BY <1>1, WrittenTyped
<1>3. /\ descent' = [descent EXCEPT ![r] = <<>>]
      /\ flushed' = [flushed EXCEPT ![r] = NothingFlushed]
      /\ saves' = saves /\ saveCount' = saveCount
      /\ Commits(r, graph)
  BY DEF FinishDescent
<1> HIDE DEF back
<1>4. graph \in [Pipelines -> SUBSET Pipelines]
  BY <1>1, <1>2 DEF FlushedRows, GraphTypeOK
<1>5. ~ crossed /\ r \notin outdated => graph = nests
  BY <1>1, <1>2 DEF FreshRows, GraphTypeOK
<1> HIDE DEF graph
<1>6. outdated' \subseteq Open'
  BY <1>1, <1>3 DEF GraphTypeOK, Open, Commits
<1>7. GraphTypeOK'
  BY <1>1, <1>3, <1>4, <1>6 DEF GraphTypeOK, Commits
<1>8. ~ crossed' => ~ crossed /\ nests' = nests /\ outdated' = outdated \ {r}
  BY <1>3, <1>5 DEF Commits
<1>9. ASSUME ~ crossed', NEW s \in Runs PROVE RunFresh(s)'
  <2>1. RunFresh(s)
    BY <1>8, <1>9 DEF NestingInv
  <2>2. CASE s = r
    BY <1>1, <1>3, <2>2 DEF GraphTypeOK, RunFresh, FreshFrames, FreshRows
  <2>3. CASE s # r
    BY <1>1, <1>3, <1>8, <1>9, <2>1, <2>3 DEF GraphTypeOK, RunFresh, FreshFrames, FreshRows
  <2> QED
    BY <2>2, <2>3
<1>10. ASSUME ~ crossed', NEW e \in Editors PROVE SaveFresh(e)'
  <2>1. SaveFresh(e) /\ e # r
    BY <1>8, <1>10, GraphConstants DEF NestingInv
  <2> QED
    BY <1>3, <1>8, <1>10, <2>1 DEF SaveFresh
<1>11. IdleRuns'
  BY <1>1, <1>3 DEF NestingInv, IdleRuns, GraphTypeOK
<1> QED
  BY <1>7, <1>8, <1>9, <1>10, <1>11 DEF NestingInv, LeadsBack

LEMMA BeginningSave ==
  ASSUME NestingInv, NEW e \in Editors, NEW p \in Pipelines, NEW inner \in SUBSET Pipelines,
         BeginSave(e, p, inner), inner = nests[p] \/ p \notin Reachable(nests, inner)
  PROVE  NestingInv'
<1>1. /\ GraphTypeOK /\ saveCount < MaxSaves
      /\ saves' = [saves EXCEPT ![e] = <<p, inner>>] /\ saveCount' = saveCount + 1
      /\ nests' = nests /\ descent' = descent /\ flushed' = flushed
      /\ crossed' = crossed /\ outdated' = outdated
  BY DEF NestingInv, BeginSave
<1>2. Open \subseteq Open'
  BY <1>1 DEF Open, GraphTypeOK, NoSave
<1>3. GraphTypeOK'
  BY <1>1, <1>2, GraphConstants DEF GraphTypeOK
<1>4. ASSUME ~ crossed, NEW f \in Editors PROVE SaveFresh(f)'
  <2>1. SaveFresh(f)
    BY <1>4 DEF NestingInv
  <2>2. CASE f = e
    BY <1>1, <2>2 DEF GraphTypeOK, SaveFresh
  <2>3. CASE f # e
    BY <1>1, <2>1, <2>3 DEF GraphTypeOK, SaveFresh
  <2> QED
    BY <2>2, <2>3
<1> QED
  BY <1>1, <1>3, <1>4 DEF NestingInv, IdleRuns, LeadsBack, RunFresh, FreshFrames, FreshRows

LEMMA CommittingSave ==
  ASSUME NestingInv, NEW e \in Editors, CommitSave(e)
  PROVE  NestingInv'
<1>1. GraphTypeOK /\ saves[e] # NoSave
  BY DEF NestingInv, CommitSave
<1>2. PICK p \in Pipelines, inner \in SUBSET Pipelines : saves[e] = <<p, inner>>
  BY <1>1 DEF GraphTypeOK
<1> DEFINE graph == [nests EXCEPT ![p] = inner]
<1>3. /\ saves' = [saves EXCEPT ![e] = NoSave] /\ saveCount' = saveCount
      /\ descent' = descent /\ flushed' = flushed
      /\ Commits(e, graph)
  BY <1>2 DEF CommitSave
<1>4. graph \in [Pipelines -> SUBSET Pipelines] /\ nests \in Graph
  BY <1>1 DEF GraphTypeOK, Graph
<1>5. inner = nests[p] => graph = nests
  BY <1>4
<1>6. ASSUME ~ crossed', NEW q \in Pipelines PROVE ~ LeadsBack(graph, q)
  <2>1. ~ crossed /\ (e \notin outdated \/ graph = nests)
    BY <1>3, <1>6 DEF Commits
  <2>2. \A x \in Pipelines : ~ LeadsBack(nests, x)
    BY <2>1 DEF NestingInv
  <2>3. CASE graph = nests
    BY <2>2, <2>3
  <2>4. CASE graph # nests
    <3>1. SaveFresh(e) /\ e \notin outdated /\ inner # nests[p]
      BY <1>5, <2>1, <2>4 DEF NestingInv
    <3>2. p \notin Reachable(nests, inner)
      BY <1>1, <1>2, <3>1 DEF SaveFresh
    <3> QED
      BY <1>4, <2>2, <3>2, NoLoopMade
  <2> QED
    BY <2>3, <2>4
<1> HIDE DEF graph
<1>7. /\ nests' = graph
      /\ ~ crossed' => /\ ~ crossed
                       /\ \/ nests' = nests /\ outdated' = outdated \ {e}
                          \/ outdated' = Open \ {e}
      /\ crossed' => outdated' = {}
      /\ crossed' \in BOOLEAN
  BY <1>1, <1>3 DEF Commits, GraphTypeOK
<1>8. outdated' \subseteq Open'
  BY <1>1, <1>3, <1>7 DEF GraphTypeOK, Open
<1>9. GraphTypeOK'
  BY <1>1, <1>3, <1>4, <1>7, <1>8 DEF GraphTypeOK
<1>10. ASSUME ~ crossed', NEW f \in Editors PROVE SaveFresh(f)'
  <2>1. CASE f = e
    BY <1>1, <1>3, <2>1 DEF SaveFresh, GraphTypeOK
  <2>2. CASE f # e /\ outdated' = Open \ {e}
    BY <1>1, <1>3, <2>2 DEF SaveFresh, GraphTypeOK, Open
  <2>3. CASE f # e /\ nests' = nests /\ outdated' = outdated \ {e}
    <3>1. SaveFresh(f)
      BY <1>7, <1>10 DEF NestingInv
    <3> QED
      BY <1>1, <1>3, <2>3, <3>1 DEF SaveFresh, GraphTypeOK
  <2> QED
    BY <1>7, <1>10, <2>1, <2>2, <2>3
<1>11. ASSUME ~ crossed', NEW r \in Runs PROVE RunFresh(r)'
  <2>1. RunFresh(r) /\ e # r
    BY <1>7, <1>11, GraphConstants DEF NestingInv
  <2>2. CASE outdated' = Open \ {e}
    <3>1. ASSUME r \notin outdated'
          PROVE  descent'[r] = <<>> /\ DOMAIN flushed'[r] = {}
      BY <1>3, <2>1, <2>2, <3>1 DEF Open, NestingInv, IdleRuns
    <3>2. descent'[r] = <<>> => Len(descent'[r]) = 0
      OBVIOUS
    <3> QED
      BY <3>1, <3>2 DEF RunFresh, FreshFrames, FreshRows
  <2>3. CASE nests' = nests /\ outdated' = outdated \ {e}
    BY <1>3, <2>1, <2>3 DEF RunFresh, FreshFrames, FreshRows
  <2> QED
    BY <1>7, <1>11, <2>2, <2>3
<1>12. IdleRuns'
  BY <1>3 DEF NestingInv, IdleRuns
<1> QED
  BY <1>6, <1>7, <1>9, <1>10, <1>11, <1>12 DEF NestingInv, LeadsBack

LEMMA NextNesting == NestingInv /\ [GraphNext]_graphVars => NestingInv'
<1> SUFFICES ASSUME NestingInv, [GraphNext]_graphVars PROVE NestingInv'
  OBVIOUS
<1>1. ASSUME NEW e \in Editors, NEW p \in Pipelines, NEW inner \in SUBSET Pipelines,
             CheckSave(e, p, inner)
      PROVE  NestingInv'
  BY <1>1, BeginningSave DEF CheckSave, NestingAllowed
<1>2. ASSUME NEW e \in Editors, NEW p \in Pipelines, TouchSave(e, p)
      PROVE  NestingInv'
  <2>1. nests[p] \in SUBSET Pipelines
    BY DEF NestingInv, GraphTypeOK
  <2> QED
    BY <1>2, <2>1, BeginningSave DEF TouchSave
<1>3. ASSUME UNCHANGED graphVars PROVE NestingInv'
  BY <1>3 DEF graphVars, NestingInv, IdleRuns, GraphTypeOK, Open, SaveFresh, RunFresh,
              FreshFrames, FreshRows, LeadsBack
<1> QED
  BY <1>1, <1>2, <1>3, CommittingSave, StartingDescent, EnteringNested, ReadingBack,
     LeavingNested, FinishingDescent, LosingDescent DEF GraphNext, Descend

(* A pipeline can only have come to lead back to itself through a write     *)
(* based on a reading that another's commit had outdated.                  *)
THEOREM LoopNeedsCrossingHolds == GraphSpec => []LoopNeedsCrossing
<1>1. GraphSpec => []NestingInv
  BY InitNesting, NextNesting, PTL DEF GraphSpec
<1>2. NestingInv => LoopNeedsCrossing
  BY DEF NestingInv, LoopNeedsCrossing, LeadsBack
<1> QED
  BY <1>1, <1>2, PTL

-----------------------------------------------------------------------------
(* Time warping: the table of costs, for any two paths.                    *)

StaysIn(V, H, n) == \A i \in 1..n, v \in V : H[i][v] \in V

Leads(V, base, H, n) ==
  \E g \in [0..n -> V] : g[0] = base /\ \A i \in 1..n : g[i] = H[i][g[i - 1]]

(* What each step makes of what the one before left.                       *)
LEMMA Chain ==
  ASSUME NEW n \in Nat, NEW V, NEW base \in V, NEW H, StaysIn(V, H, n)
  PROVE  Leads(V, base, H, n)
<1> DEFINE Made(k) == \E g \in [0..k -> V] : g[0] = base /\ \A i \in 1..k : g[i] = H[i][g[i - 1]]
           Bad == {k \in 0..n : ~ Made(k)}
<1>1. Made(0)
  <2> DEFINE g == [i \in 0..0 |-> base]
  <2>1. g \in [0..0 -> V] /\ g[0] = base /\ 1..0 = {}
    OBVIOUS
  <2> QED
    BY <2>1
<1>2. ASSUME NEW k \in 1..n, Made(k - 1) PROVE Made(k)
  <2>1. PICK g \in [0..(k-1) -> V] : g[0] = base /\ \A i \in 1..(k-1) : g[i] = H[i][g[i - 1]]
    BY <1>2
  <2>2. k - 1 \in 0..(k-1) /\ g[k - 1] \in V
    BY <2>1
  <2> DEFINE last == H[k][g[k - 1]]
             h == [i \in 0..k |-> IF i = k THEN last ELSE g[i]]
  <2>3. last \in V
    BY <2>2 DEF StaysIn
  <2> HIDE DEF last
  <2>4. h \in [0..k -> V] /\ h[k] = last /\ \A i \in 0..(k-1) : h[i] = g[i]
    BY <2>1, <2>3
  <2> HIDE DEF h
  <2>5. h[0] = base
    BY <2>1, <2>4
  <2>6. \A i \in 1..k : h[i] = H[i][h[i - 1]]
    BY <2>1, <2>4 DEF last
  <2> QED
    BY <2>4, <2>5, <2>6
<1> HIDE DEF Made
<1>3. ASSUME Bad # {} PROVE FALSE
  <2>1. PICK m \in Bad : \A k \in Bad : m <= k
    <3>1. Bad \subseteq Nat
      OBVIOUS
    <3> HIDE DEF Bad
    <3> QED
      BY <1>3, <3>1, LeastNumber
  <2>2. m \in 1..n /\ ~ Made(m) /\ m - 1 \in 0..n
    BY <1>1, <2>1
  <2>3. Made(m - 1)
    BY <2>1, <2>2
  <2> QED
    BY <1>2, <2>2, <2>3
<1>4. Made(n)
  BY <1>3
<1> QED
  BY <1>4 DEF Made, Leads

LEMMA LeastOf ==
  ASSUME NEW a \in Nat, NEW b \in Nat
  PROVE  Min({a, b}) = IF a <= b THEN a ELSE b
<1>1. \A x, y \in {a, b} : (\A z \in {a, b} : x <= z) /\ (\A z \in {a, b} : y <= z) => x = y
  OBVIOUS
<1>2. (IF a <= b THEN a ELSE b) \in {a, b} /\ \A z \in {a, b} : (IF a <= b THEN a ELSE b) <= z
  OBVIOUS
<1>3. Min({a, b}) \in {a, b} /\ \A z \in {a, b} : Min({a, b}) <= z
  BY <1>2 DEF Min
<1> QED
  BY <1>1, <1>2, <1>3

LEMMA LeastOfThree ==
  ASSUME NEW a \in Nat, NEW b \in Nat, NEW c \in Nat
  PROVE  Min({a, b, c}) \in {a, b, c} /\ \A z \in {a, b, c} : Min({a, b, c}) <= z
<1>1. \E x \in {a, b, c} : \A z \in {a, b, c} : x <= z
  <2>1. CASE a <= b /\ a <= c
    BY <2>1
  <2>2. CASE b <= a /\ b <= c
    BY <2>2
  <2>3. CASE c <= a /\ c <= b
    BY <2>3
  <2> QED
    BY <2>1, <2>2, <2>3
<1> QED
  BY <1>1 DEF Min

LEMMA GreatestOf ==
  ASSUME NEW a \in Nat, NEW b \in Nat
  PROVE  Max({a, b}) = IF a >= b THEN a ELSE b
<1>1. \A x, y \in {a, b} : (\A z \in {a, b} : x >= z) /\ (\A z \in {a, b} : y >= z) => x = y
  OBVIOUS
<1>2. (IF a >= b THEN a ELSE b) \in {a, b} /\ \A z \in {a, b} : (IF a >= b THEN a ELSE b) >= z
  OBVIOUS
<1>3. Max({a, b}) \in {a, b} /\ \A z \in {a, b} : Max({a, b}) >= z
  BY <1>2 DEF Max
<1> QED
  BY <1>1, <1>2, <1>3

LEMMA BandTyped ==
  ASSUME NEW p \in Seq(Int), NEW q \in Seq(Int)
  PROVE  BandOf(p, q) \in Nat /\ BandOf(p, q) = BandOf(q, p)
<1>1. Len(p) \in Nat /\ Len(q) \in Nat /\ WarpBand \in Nat
  BY MatchingAssumption
<1>2. {Len(p), Len(q)} = {Len(q), Len(p)}
  OBVIOUS
<1>3. Max({Len(p), Len(q)}) \in Nat
  BY <1>1, GreatestOf
<1> DEFINE m == Max({Len(p), Len(q)})
           share == WarpBand * m
<1>4. m \in Nat
  BY <1>3
<1> HIDE DEF m
<1>5. share \in Nat
  BY <1>1, <1>4
<1> HIDE DEF share
<1>6. share \div 100 \in Nat
  BY <1>5
<1>7. Max({1, share \div 100}) \in Nat
  BY <1>6, GreatestOf
<1> QED
  BY <1>2, <1>7 DEF BandOf, share, m

LEMMA ApartTyped ==
  ASSUME NEW x \in Int, NEW y \in Int
  PROVE  Apart(x, y) \in Nat /\ Apart(x, y) = Apart(y, x) /\ Apart(x, x) = 0
<1>1. \A d \in Int : d * d \in Nat /\ d * d = (0 - d) * (0 - d)
  OBVIOUS
<1>2. x - y \in Int /\ y - x = 0 - (x - y) /\ x - x = 0
  OBVIOUS
<1> QED
  BY <1>1, <1>2 DEF Apart

LEMMA SteppedTyped ==
  ASSUME NEW p \in Seq(Int), NEW q \in Seq(Int), NEW i \in 1..Len(p), NEW j \in 1..Len(q),
         NEW above \in [0..Len(q) -> Nat], NEW beside \in Nat
  PROVE  Stepped(p, q, i, j, above, beside) \in Nat
<1>0. Len(q) \in Nat /\ p[i] \in Int /\ q[j] \in Int
  OBVIOUS
<1>1. Apart(p[i], q[j]) \in Nat
  BY <1>0, ApartTyped
<1>2. above[j] \in Nat /\ above[j - 1] \in Nat
  <2>1. j \in 0..Len(q) /\ j - 1 \in 0..Len(q)
    BY <1>0
  <2> QED
    BY <2>1
<1>3. Min({above[j], beside, above[j - 1]}) \in Nat
  <2>1. Min({above[j], beside, above[j - 1]}) \in {above[j], beside, above[j - 1]}
    BY <1>2, LeastOfThree, Zenon
  <2> QED
    BY <1>2, <2>1
<1> DEFINE sum == Apart(p[i], q[j]) + Min({above[j], beside, above[j - 1]})
<1>4. sum \in Nat /\ Infinite \in Nat
  BY <1>1, <1>3 DEF Infinite
<1> HIDE DEF sum
<1>5. Min({Infinite, sum}) \in Nat
  BY <1>4, LeastOf
<1> QED
  BY <1>4, <1>5 DEF Stepped, sum

(* A row and the table are what the loops fill in.                         *)
IsRow(g, p, q, i, above) ==
  /\ g \in [0..Len(q) -> Nat] /\ g[0] = Infinite
  /\ \A j \in 1..Len(q) : g[j] = Stepped(p, q, i, j, above, g[j - 1])

IsCost(f, p, q) ==
  /\ f \in [0..Len(p) -> [0..Len(q) -> Nat]]
  /\ f[0] = [j \in 0..Len(q) |-> IF j = 0 THEN 0 ELSE Infinite]
  /\ \A i \in 1..Len(p) : IsRow(f[i], p, q, i, f[i - 1])

Steps(p, q, i, above) == \A j \in 1..Len(q), v \in Nat : Stepped(p, q, i, j, above, v) \in Nat

LEMMA SomeRow ==
  ASSUME NEW p, NEW q, NEW i, NEW above, Len(q) \in Nat, Steps(p, q, i, above)
  PROVE  \E g : IsRow(g, p, q, i, above)
<1> DEFINE V == Nat
           m == Len(q)
           H == [j \in 1..m |-> [v \in V |-> Stepped(p, q, i, j, above, v)]]
<1>1. \A j \in 1..m, v \in V : H[j][v] = Stepped(p, q, i, j, above, v)
  OBVIOUS
<1>2. StaysIn(V, H, m)
  BY <1>1 DEF StaysIn, Steps
<1>3. Infinite \in V
  BY DEF Infinite
<1> HIDE DEF H, V
<1>4. PICK g \in [0..m -> V] : g[0] = Infinite /\ \A j \in 1..m : g[j] = H[j][g[j - 1]]
  <2>1. m \in Nat
    OBVIOUS
  <2> HIDE DEF m
  <2>2. Leads(V, Infinite, H, m)
    BY <1>2, <1>3, <2>1, Chain
  <2> QED
    BY <2>2 DEF Leads
<1>5. \A j \in 1..m : g[j] = Stepped(p, q, i, j, above, g[j - 1])
  <2> SUFFICES ASSUME NEW j \in 1..m PROVE g[j] = Stepped(p, q, i, j, above, g[j - 1])
    OBVIOUS
  <2>1. j - 1 \in 0..m
    OBVIOUS
  <2>2. g[j - 1] \in V
    BY <1>4, <2>1
  <2> QED
    BY <1>1, <1>4, <2>2
<1> QED
  BY <1>4, <1>5 DEF V, IsRow

LEMMA RowFilled ==
  ASSUME NEW p \in Seq(Int), NEW q \in Seq(Int), NEW i \in 1..Len(p),
         NEW above \in [0..Len(q) -> Nat]
  PROVE  IsRow(RowBelow(p, q, i, above), p, q, i, above)
<1> DEFINE m == Len(q)
           Filled(c) == c = [j \in 0..m |-> IF j = 0 THEN Infinite
                                            ELSE Stepped(p, q, i, j, above, c[j - 1])]
<1>1. m \in Nat /\ Infinite \in Nat
  BY DEF Infinite
<1>2. \A j \in 1..m, v \in Nat : Stepped(p, q, i, j, above, v) \in Nat
  BY SteppedTyped
<1>3. Steps(p, q, i, above)
  BY <1>2 DEF Steps
<1>4. PICK g : IsRow(g, p, q, i, above)
  BY <1>1, <1>3, SomeRow
<1>5. /\ g \in [0..m -> Nat] /\ g[0] = Infinite
      /\ \A j \in 1..m : g[j] = Stepped(p, q, i, j, above, g[j - 1])
  BY <1>4 DEF IsRow
<1>7. Filled(g)
  <2> DEFINE c == [j \in 0..m |-> IF j = 0 THEN Infinite ELSE Stepped(p, q, i, j, above, g[j - 1])]
  <2>1. ASSUME NEW j \in 0..m PROVE g[j] = c[j]
    <3>1. CASE j = 0
      BY <1>1, <1>5, <3>1
    <3>2. CASE j # 0
      <4>1. j \in 1..m
        BY <1>1, <3>2
      <4> QED
        BY <1>5, <3>2, <4>1
    <3> QED
      BY <3>1, <3>2
  <2>2. DOMAIN g = 0..m /\ DOMAIN c = 0..m /\ g = [j \in 0..m |-> g[j]] /\ c = [j \in 0..m |-> c[j]]
    BY <1>5
  <2> HIDE DEF c
  <2>3. g = c
    BY <2>1, <2>2
  <2> QED
    BY <2>3 DEF c
<1> DEFINE cost == CHOOSE c : Filled(c)
<1>8. RowBelow(p, q, i, above) = cost
  BY Zenon DEF RowBelow
<1>9. Filled(cost)
  BY <1>7
<1> HIDE DEF cost
<1>10. /\ DOMAIN cost = 0..m /\ cost[0] = Infinite
       /\ \A j \in 1..m : cost[j] = Stepped(p, q, i, j, above, cost[j - 1])
  <2>1. \A j \in 0..m : cost[j] = IF j = 0 THEN Infinite ELSE Stepped(p, q, i, j, above, cost[j - 1])
    BY <1>9, Zenon
  <2>2. DOMAIN cost = 0..m
    BY <1>9, Zenon
  <2>3. 0 \in 0..m /\ \A j \in 1..m : j \in 0..m /\ j # 0
    BY <1>1
  <2> QED
    BY <2>1, <2>2, <2>3
<1>11. \A j \in 0..m : cost[j] \in Nat
  <2> DEFINE Bad == {j \in 0..m : cost[j] \notin Nat}
  <2> SUFFICES ASSUME Bad # {} PROVE FALSE
    OBVIOUS
  <2>1. Bad \subseteq Nat
    OBVIOUS
  <2>2. PICK j \in Bad : \A k \in Bad : j <= k
    <3> HIDE DEF Bad
    <3> QED
      BY <2>1, LeastNumber
  <2>3. j \in 1..m /\ j - 1 \in 0..m /\ j - 1 \notin Bad
    BY <1>1, <1>10, <2>2
  <2>4. cost[j - 1] \in Nat
    BY <2>3
  <2> QED
    BY <1>2, <1>10, <2>2, <2>3, <2>4
<1>12. cost = [j \in 0..m |-> cost[j]]
  BY <1>9
<1>13. cost \in [0..m -> Nat]
  BY <1>11, <1>12
<1> QED
  BY <1>8, <1>10, <1>13 DEF IsRow

LEMMA CostFilled ==
  ASSUME NEW p \in Seq(Int), NEW q \in Seq(Int), p # <<>>, q # <<>>
  PROVE  \E f : IsCost(f, p, q) /\ DtwCost(p, q) = f[Len(p)][Len(q)]
<1> DEFINE n == Len(p)
           V == [0..Len(q) -> Nat]
           first == [j \in 0..Len(q) |-> IF j = 0 THEN 0 ELSE Infinite]
           H == [i \in 1..n |-> [v \in V |-> RowBelow(p, q, i, v)]]
           Filled(c) == c = [i \in 0..n |-> IF i = 0 THEN first ELSE RowBelow(p, q, i, c[i - 1])]
<1>1. n \in Nat /\ Infinite \in Nat
  BY DEF Infinite
<1>2. first \in V
  BY <1>1
<1>3. \A i \in 1..n, v \in V : RowBelow(p, q, i, v) \in V /\ IsRow(RowBelow(p, q, i, v), p, q, i, v)
  <2> SUFFICES ASSUME NEW i \in 1..n, NEW v \in V
               PROVE  RowBelow(p, q, i, v) \in V /\ IsRow(RowBelow(p, q, i, v), p, q, i, v)
    OBVIOUS
  <2>1. IsRow(RowBelow(p, q, i, v), p, q, i, v)
    BY RowFilled
  <2> QED
    BY <2>1 DEF IsRow
<1> HIDE DEF V, first
<1>4. StaysIn(V, H, n) /\ \A i \in 1..n, v \in V : H[i][v] = RowBelow(p, q, i, v)
  BY <1>3 DEF StaysIn
<1> HIDE DEF H
<1>5. PICK g \in [0..n -> V] : g[0] = first /\ \A i \in 1..n : g[i] = H[i][g[i - 1]]
  <2>1. Leads(V, first, H, n)
    BY <1>1, <1>2, <1>4, Chain
  <2> QED
    BY <2>1 DEF Leads
<1>6. \A i \in 1..n : g[i] = RowBelow(p, q, i, g[i - 1])
  <2> SUFFICES ASSUME NEW i \in 1..n PROVE g[i] = RowBelow(p, q, i, g[i - 1])
    OBVIOUS
  <2>1. i - 1 \in 0..n
    OBVIOUS
  <2>2. g[i - 1] \in V
    BY <1>5, <2>1
  <2> QED
    BY <1>4, <1>5, <2>2
<1>7. Filled(g)
  <2> DEFINE c == [i \in 0..n |-> IF i = 0 THEN first ELSE RowBelow(p, q, i, g[i - 1])]
  <2>1. ASSUME NEW i \in 0..n PROVE g[i] = c[i]
    <3>1. CASE i = 0
      BY <1>5, <3>1
    <3>2. CASE i # 0
      <4>1. i \in 1..n
        BY <1>1, <3>2
      <4> QED
        BY <1>6, <3>2, <4>1
    <3> QED
      BY <3>1, <3>2
  <2>2. DOMAIN g = 0..n /\ DOMAIN c = 0..n /\ g = [i \in 0..n |-> g[i]] /\ c = [i \in 0..n |-> c[i]]
    BY <1>5
  <2> HIDE DEF c
  <2>3. g = c
    BY <2>1, <2>2
  <2> QED
    BY <2>3 DEF c
<1> DEFINE cost == CHOOSE c : Filled(c)
<1>8. DtwCost(p, q) = cost[n][Len(q)]
  BY Zenon DEF DtwCost, first
<1>9. Filled(cost)
  BY <1>7
<1> HIDE DEF cost
<1>10. /\ cost = [i \in 0..n |-> cost[i]] /\ cost[0] = first
       /\ \A i \in 1..n : cost[i] = RowBelow(p, q, i, cost[i - 1])
  <2>1. \A i \in 0..n : cost[i] = IF i = 0 THEN first ELSE RowBelow(p, q, i, cost[i - 1])
    BY <1>9, Zenon
  <2>2. cost = [i \in 0..n |-> cost[i]]
    BY <1>9, SMT
  <2>3. 0 \in 0..n /\ \A i \in 1..n : i \in 0..n /\ i # 0
    BY <1>1
  <2> QED
    BY <2>1, <2>2, <2>3
<1>11. \A i \in 0..n : cost[i] \in V
  <2> DEFINE Bad == {i \in 0..n : cost[i] \notin V}
  <2> SUFFICES ASSUME Bad # {} PROVE FALSE
    OBVIOUS
  <2>1. Bad \subseteq Nat
    OBVIOUS
  <2>2. PICK i \in Bad : \A k \in Bad : i <= k
    <3> HIDE DEF Bad
    <3> QED
      BY <2>1, LeastNumber
  <2>3. i \in 1..n /\ i - 1 \in 0..n /\ i - 1 \notin Bad
    BY <1>1, <1>2, <1>10, <2>2
  <2>4. cost[i - 1] \in V
    BY <2>3
  <2> QED
    BY <1>3, <1>10, <2>2, <2>3, <2>4
<1>12. cost \in [0..n -> V]
  BY <1>10, <1>11
<1>13. \A i \in 1..n : IsRow(cost[i], p, q, i, cost[i - 1])
  <2> SUFFICES ASSUME NEW i \in 1..n PROVE IsRow(cost[i], p, q, i, cost[i - 1])
    OBVIOUS
  <2>1. cost[i - 1] \in V
    BY <1>11
  <2> QED
    BY <1>3, <1>10, <2>1
<1> QED
  BY <1>8, <1>10, <1>12, <1>13 DEF IsCost, V, first
(* The cost is the same from either side.                                  *)
LEMMA CostTurned ==
  ASSUME NEW p \in Seq(Int), NEW q \in Seq(Int), NEW f, NEW g, IsCost(f, p, q), IsCost(g, q, p)
  PROVE  \A i \in 0..Len(p), j \in 0..Len(q) : f[i][j] = g[j][i]
<1> DEFINE n == Len(p)
           m == Len(q)
           Same(d) == \A i \in 0..n, j \in 0..m : i + j = d => f[i][j] = g[j][i]
           Bad == {d \in 0..(n + m) : ~ Same(d)}
<1>1. /\ n \in Nat /\ m \in Nat
      /\ f \in [0..n -> [0..m -> Nat]] /\ g \in [0..m -> [0..n -> Nat]]
      /\ f[0] = [j \in 0..m |-> IF j = 0 THEN 0 ELSE Infinite]
      /\ g[0] = [i \in 0..n |-> IF i = 0 THEN 0 ELSE Infinite]
  BY DEF IsCost
<1>2. \A i \in 1..n : f[i][0] = Infinite
                      /\ \A j \in 1..m : f[i][j] = Stepped(p, q, i, j, f[i - 1], f[i][j - 1])
  BY DEF IsCost, IsRow
<1>3. \A j \in 1..m : g[j][0] = Infinite
                      /\ \A i \in 1..n : g[j][i] = Stepped(q, p, j, i, g[j - 1], g[j][i - 1])
  BY DEF IsCost, IsRow
<1> HIDE DEF Same
<1>4. ASSUME NEW d \in 0..(n + m), \A e \in 0..(n + m) : e < d => Same(e) PROVE Same(d)
  <2> SUFFICES ASSUME NEW i \in 0..n, NEW j \in 0..m, i + j = d PROVE f[i][j] = g[j][i]
    BY DEF Same
  <2>1. CASE i = 0
    <3>1. f[0][j] = IF j = 0 THEN 0 ELSE Infinite
      BY <1>1
    <3>2. j # 0 => j \in 1..m
      BY <1>1
    <3>3. g[0][0] = 0
      BY <1>1
    <3> QED
      BY <1>3, <2>1, <3>1, <3>2, <3>3
  <2>2. CASE i # 0 /\ j = 0
    <3>1. i \in 1..n
      BY <1>1, <2>2
    <3>2. g[0][i] = Infinite
      BY <1>1, <2>2
    <3> QED
      BY <1>2, <2>2, <3>1, <3>2
  <2>3. CASE i # 0 /\ j # 0
    <3>1. i \in 1..n /\ j \in 1..m /\ i - 1 \in 0..n /\ j - 1 \in 0..m
      BY <1>1, <2>3
    <3>2. f[i - 1][j] = g[j][i - 1]
      <4>1. (i - 1) + j \in 0..(n + m) /\ (i - 1) + j < d
        BY <1>1, <3>1
      <4>2. Same((i - 1) + j)
        BY <1>4, <4>1
      <4> QED
        BY <3>1, <4>2 DEF Same
    <3>3. f[i][j - 1] = g[j - 1][i]
      <4>1. i + (j - 1) \in 0..(n + m) /\ i + (j - 1) < d
        BY <1>1, <3>1
      <4>2. Same(i + (j - 1))
        BY <1>4, <4>1
      <4> QED
        BY <3>1, <4>2 DEF Same
    <3>4. f[i - 1][j - 1] = g[j - 1][i - 1]
      <4>1. (i - 1) + (j - 1) \in 0..(n + m) /\ (i - 1) + (j - 1) < d
        BY <1>1, <3>1
      <4>2. Same((i - 1) + (j - 1))
        BY <1>4, <4>1
      <4> QED
        BY <3>1, <4>2 DEF Same
    <3>5. f[i][j] = Stepped(p, q, i, j, f[i - 1], f[i][j - 1])
          /\ g[j][i] = Stepped(q, p, j, i, g[j - 1], g[j][i - 1])
      BY <1>2, <1>3, <3>1
    <3>6. {f[i - 1][j], f[i][j - 1], f[i - 1][j - 1]} = {g[j - 1][i], g[j][i - 1], g[j - 1][i - 1]}
      BY <3>2, <3>3, <3>4
    <3>7. Apart(p[i], q[j]) = Apart(q[j], p[i])
      <4>1. p[i] \in Int /\ q[j] \in Int
        BY <3>1
      <4> QED
        BY <4>1, ApartTyped
    <3>8. BandOf(p, q) \in Nat /\ BandOf(p, q) = BandOf(q, p)
      BY BandTyped
    <3>9. InBand(i, j, BandOf(p, q)) <=> InBand(j, i, BandOf(q, p))
      BY <1>1, <3>1, <3>8 DEF InBand
    <3>10. Stepped(p, q, i, j, f[i - 1], f[i][j - 1]) = Stepped(q, p, j, i, g[j - 1], g[j][i - 1])
      <4>1. CASE InBand(i, j, BandOf(p, q))
        BY <3>6, <3>7, <3>9, <4>1, Zenon DEF Stepped
      <4>2. CASE ~ InBand(i, j, BandOf(p, q))
        BY <3>9, <4>2, Zenon DEF Stepped
      <4> QED
        BY <4>1, <4>2
    <3> QED
      BY <3>5, <3>10
  <2> QED
    BY <2>1, <2>2, <2>3
<1>5. ASSUME Bad # {} PROVE FALSE
  <2>1. Bad \subseteq Nat
    BY <1>1
  <2>2. PICK d \in Bad : \A e \in Bad : d <= e
    <3> HIDE DEF Bad
    <3> QED
      BY <1>5, <2>1, LeastNumber
  <2>3. \A e \in 0..(n + m) : e < d => Same(e)
    BY <1>1, <2>2
  <2> QED
    BY <1>4, <2>2, <2>3
<1>6. \A d \in 0..(n + m) : Same(d)
  BY <1>5
<1> QED
  <2> SUFFICES ASSUME NEW i \in 0..n, NEW j \in 0..m PROVE f[i][j] = g[j][i]
    OBVIOUS
  <2>1. i + j \in 0..(n + m)
    BY <1>1
  <2> QED
    BY <1>6, <2>1 DEF Same

(* ... and a path costs nothing against itself.                            *)
LEMMA CostOfItself ==
  ASSUME NEW p \in Seq(Int), NEW f, IsCost(f, p, p)
  PROVE  \A i \in 0..Len(p) : f[i][i] = 0
<1> DEFINE n == Len(p)
           Bad == {i \in 0..n : f[i][i] # 0}
<1>1. n \in Nat /\ f \in [0..n -> [0..n -> Nat]] /\ f[0][0] = 0 /\ BandOf(p, p) \in Nat
      /\ Infinite \in Nat
  BY BandTyped DEF IsCost, Infinite
<1>2. ASSUME NEW i \in 1..n, f[i - 1][i - 1] = 0 PROVE f[i][i] = 0
  <2>1. f[i][i] = Stepped(p, p, i, i, f[i - 1], f[i][i - 1])
    BY DEF IsCost, IsRow
  <2>2. InBand(i, i, BandOf(p, p))
    BY <1>1 DEF InBand
  <2>3. Apart(p[i], p[i]) = 0
    <3>1. p[i] \in Int
      OBVIOUS
    <3> QED
      BY <3>1, ApartTyped
  <2>4. f[i - 1][i] \in Nat /\ f[i][i - 1] \in Nat /\ f[i - 1][i - 1] \in Nat
    <3>1. i \in 0..n /\ i - 1 \in 0..n
      BY <1>1
    <3>2. f[i] \in [0..n -> Nat] /\ f[i - 1] \in [0..n -> Nat]
      BY <1>1, <3>1
    <3> QED
      BY <3>1, <3>2
  <2> DEFINE least == Min({f[i - 1][i], f[i][i - 1], f[i - 1][i - 1]})
  <2>5. /\ least \in {f[i - 1][i], f[i][i - 1], f[i - 1][i - 1]}
        /\ \A z \in {f[i - 1][i], f[i][i - 1], f[i - 1][i - 1]} : least <= z
    BY <2>4, LeastOfThree, Zenon
  <2> HIDE DEF least
  <2>6. least \in Nat /\ least <= f[i - 1][i - 1]
    BY <2>4, <2>5
  <2>7. least = 0
    BY <1>2, <2>6
  <2>8. Min({Infinite, 0}) = 0
    BY <1>1, LeastOf
  <2>9. Stepped(p, p, i, i, f[i - 1], f[i][i - 1]) = Min({Infinite, Apart(p[i], p[i]) + least})
    BY <2>2, Zenon DEF Stepped, least
  <2>10. Apart(p[i], p[i]) + least = 0
    BY <2>3, <2>7
  <2> QED
    BY <2>1, <2>8, <2>9, <2>10
<1>3. ASSUME Bad # {} PROVE FALSE
  <2>1. Bad \subseteq Nat
    OBVIOUS
  <2>2. PICK i \in Bad : \A k \in Bad : i <= k
    <3> HIDE DEF Bad
    <3> QED
      BY <1>3, <2>1, LeastNumber
  <2>3. i \in 1..n /\ i - 1 \in 0..n /\ i - 1 \notin Bad
    BY <1>1, <2>2
  <2> QED
    BY <1>2, <2>2, <2>3
<1> QED
  BY <1>3

(* compute_distance keeps one distance for both of a pair, whoever asked
   first: it is the same from either side, nothing from a path to itself,
   and a whole number, so that typhoons can be ranked by it.               *)
THEOREM DistanceOfPair ==
  ASSUME NEW p \in Seq(Int), NEW q \in Seq(Int)
  PROVE  /\ DtwCost(p, q) = DtwCost(q, p) /\ DtwDistance(p, q) = DtwDistance(q, p)
         /\ p # <<>> => DtwCost(p, p) = 0
         /\ DtwCost(p, q) \in Nat /\ DtwDistance(p, q) \in Nat
<1>1. DtwCost(p, q) = DtwCost(q, p) /\ DtwCost(p, q) \in Nat
  <2>1. CASE p = <<>> \/ q = <<>>
    <3>1. DtwCost(p, q) = Infinite /\ DtwCost(q, p) = Infinite
      BY <2>1, Zenon DEF DtwCost
    <3> QED
      BY <3>1 DEF Infinite
  <2>2. CASE p # <<>> /\ q # <<>>
    <3>1. PICK f : IsCost(f, p, q) /\ DtwCost(p, q) = f[Len(p)][Len(q)]
      BY <2>2, CostFilled
    <3>2. PICK g : IsCost(g, q, p) /\ DtwCost(q, p) = g[Len(q)][Len(p)]
      BY <2>2, CostFilled
    <3>3. Len(p) \in 0..Len(p) /\ Len(q) \in 0..Len(q)
      OBVIOUS
    <3>4. f[Len(p)][Len(q)] = g[Len(q)][Len(p)]
      BY <3>1, <3>2, <3>3, CostTurned
    <3>5. f[Len(p)][Len(q)] \in Nat
      BY <3>1, <3>3 DEF IsCost
    <3> QED
      BY <3>1, <3>2, <3>4, <3>5
  <2> QED
    BY <2>1, <2>2
<1>2. p # <<>> => DtwCost(p, p) = 0
  <2> SUFFICES ASSUME p # <<>> PROVE DtwCost(p, p) = 0
    OBVIOUS
  <2>1. PICK f : IsCost(f, p, p) /\ DtwCost(p, p) = f[Len(p)][Len(p)]
    BY CostFilled
  <2>2. Len(p) \in 0..Len(p)
    OBVIOUS
  <2> QED
    BY <2>1, <2>2, CostOfItself
<1>3. DtwDistance(p, q) = DtwDistance(q, p)
  <2>1. Len(p) + Len(q) = Len(q) + Len(p)
    OBVIOUS
  <2> QED
    BY <1>1, <2>1 DEF DtwDistance
<1>4. DtwDistance(p, q) \in Nat
  <2>1. CASE DtwCost(p, q) = Infinite
    BY <2>1 DEF DtwDistance, Infinite
  <2>2. CASE DtwCost(p, q) # Infinite
    <3>1. p # <<>> /\ q # <<>>
      BY <2>2, Zenon DEF DtwCost
    <3> DEFINE points == Len(p) + Len(q)
               whole == DtwCost(p, q) * PathParts
    <3>2. points \in Nat \ {0}
      BY <3>1
    <3>3. whole \in Nat
      BY <1>1 DEF PathParts
    <3>4. DtwDistance(p, q) = whole \div points
      BY <2>2 DEF DtwDistance
    <3> HIDE DEF points, whole
    <3>5. whole \div points \in Nat
      BY <3>2, <3>3
    <3> QED
      BY <3>4, <3>5
  <2> QED
    BY <2>1, <2>2
<1> QED
  BY <1>1, <1>2, <1>3, <1>4

-----------------------------------------------------------------------------
(* Rankings and what is made of them: analogs of the record, each once.    *)

Measures(distance, D) == DOMAIN distance = D /\ \A t \in D : distance[t] \in Int
IsList(list, D) == list \in Seq(D) /\ IsInjective(list)

LEMMA SomeTyphoons ==
  ASSUME NEW D \in SUBSET Typhoons
  PROVE  /\ IsFiniteSet(D) /\ D \subseteq Int /\ Cardinality(D) \in Nat
         /\ Count \in Nat /\ Query \notin Typhoons
<1>1. Typhoons = 1..Count /\ Count \in Nat
  BY MatchingAssumption DEF Count
<1>2. IsFiniteSet(Typhoons)
  BY <1>1, FS_Interval
<1>3. IsFiniteSet(D)
  BY <1>2, FS_Subset
<1>4. Query \notin Typhoons
  BY <1>1 DEF Query
<1> QED
  BY <1>1, <1>3, <1>4, FS_CardinalityType

(* Distances can be sorted by: the ranking has everything measured, each
   once, what is closer first.                                             *)
LEMMA NearestInOrder ==
  ASSUME NEW D \in SUBSET Typhoons, NEW distance, Measures(distance, D)
  PROVE  /\ Nearest(distance) \in [1..Cardinality(D) -> D]
         /\ \A i, j \in DOMAIN Nearest(distance) :
              i < j => Closer(distance, Nearest(distance)[i], Nearest(distance)[j])
<1> DEFINE N == Cardinality(D)
           R == {q \in D \X D : q[1] = q[2] \/ Closer(distance, q[1], q[2])}
<1>1. \A t \in D : distance[t] \in Int /\ t \in Int
  BY SomeTyphoons DEF Measures
<1>2. \A t, u \in D : t = u \/ Closer(distance, t, u) \/ Closer(distance, u, t)
  BY <1>1 DEF Closer
<1>3. \A t, u, v \in D : Closer(distance, t, u) /\ Closer(distance, u, v) => Closer(distance, t, v)
  BY <1>1 DEF Closer
<1>4. \A t, u \in D : <<t, u>> \in R <=> (t = u \/ Closer(distance, t, u))
  OBVIOUS
<1> HIDE DEF R
<1>5. /\ \A t, u \in D : <<t, u>> \in R \/ <<u, t>> \in R
      /\ \A t, u, v \in D : <<t, u>> \in R /\ <<u, v>> \in R => <<t, v>> \in R
  BY <1>2, <1>3, <1>4
<1>6. N \in Nat /\ ExistsBijection(1..N, D)
  BY SomeTyphoons, FS_CardinalityType
<1>7. PICK f \in [1..N -> D] : Distinct(f, N) /\ \A t \in D : \E i \in 1..N : f[i] = t
  BY <1>6 DEF ExistsBijection, Bijection, Injection, Surjection, IsInjective, Distinct
<1>8. PICK g \in [1..N -> D] : Sorting(g, f, N, R)
  BY <1>5, <1>6, <1>7, Sortable
<1>9. \A i, j \in 1..N : i < j => Closer(distance, g[i], g[j])
  <2> SUFFICES ASSUME NEW i \in 1..N, NEW j \in 1..N, i < j PROVE Closer(distance, g[i], g[j])
    OBVIOUS
  <2>1. <<g[i], g[j]>> \in R /\ g[i] # g[j]
    BY <1>6, <1>8 DEF Sorting, Arranged, Distinct
  <2> QED
    BY <1>4, <2>1
<1>10. \A t \in D : ~ Closer(distance, t, t)
  BY <1>1 DEF Closer
<1>11. \A t \in D : \E k \in 1..N : g[k] = t
  BY <1>7, <1>8 DEF Sorting
<1> DEFINE before(t) == {u \in D : Closer(distance, u, t)}
<1> HIDE DEF N
<1>12. ASSUME NEW k \in 1..N PROVE Cardinality(before(g[k])) = k - 1
  <2> DEFINE h == [l \in 1..(k - 1) |-> g[l]]
  <2>1. \A l \in 1..(k - 1) : l \in 1..N /\ l < k
    BY <1>6
  <2>2. \A l \in 1..(k - 1) : g[l] \in before(g[k])
    BY <1>8, <1>9, <2>1
  <2>3. ASSUME NEW u \in before(g[k]) PROVE \E l \in 1..(k - 1) : g[l] = u
    <3>1. PICK l \in 1..N : g[l] = u
      BY <1>11
    <3>2. ~ (k < l) /\ k # l
      BY <1>3, <1>8, <1>9, <1>10, <2>3, <3>1
    <3> QED
      BY <1>6, <3>1, <3>2
  <2>4. \A l, m \in 1..(k - 1) : g[l] = g[m] => l = m
    BY <1>8, <2>1 DEF Sorting, Distinct
  <2> HIDE DEF before
  <2>5. h \in Bijection(1..(k - 1), before(g[k]))
    BY <2>2, <2>3, <2>4 DEF Bijection, Injection, Surjection, IsInjective
  <2> QED
    BY <1>6, <2>5, FS_CountingElements DEF ExistsBijection
<1>13. ASSUME NEW k \in 1..N PROVE (CHOOSE t \in D : Cardinality(before(t)) = k - 1) = g[k]
  <2>1. \A t \in D : Cardinality(before(t)) = k - 1 => t = g[k]
    <3> SUFFICES ASSUME NEW t \in D, Cardinality(before(t)) = k - 1 PROVE t = g[k]
      OBVIOUS
    <3>1. PICK l \in 1..N : g[l] = t
      BY <1>11
    <3>2. l - 1 = k - 1
      BY <1>12, <3>1
    <3> QED
      BY <1>6, <3>1, <3>2
  <2> HIDE DEF before
  <2> QED
    BY <1>8, <1>12, <2>1
<1>14. DOMAIN distance = D
  BY DEF Measures
<1>15. Nearest(distance) = [k \in 1..N |-> g[k]]
  BY <1>13, <1>14 DEF Nearest, N
<1> QED
  BY <1>8, <1>9, <1>15 DEF N

LEMMA RankingFair ==
  ASSUME NEW D \in SUBSET Typhoons, NEW distance, Measures(distance, D)
  PROVE  IsList(Nearest(distance), D)
<1>1. /\ Nearest(distance) \in [1..Cardinality(D) -> D] /\ Cardinality(D) \in Nat
      /\ \A i, j \in 1..Cardinality(D) :
           i < j => Closer(distance, Nearest(distance)[i], Nearest(distance)[j])
  BY NearestInOrder, SomeTyphoons
<1> DEFINE list == Nearest(distance)
           N == Cardinality(D)
<1> HIDE DEF list
<1>2. list \in [1..N -> D] /\ N \in Nat /\ \A i, j \in 1..N : i # j => list[i] # list[j]
  <2>1. \A t \in D : ~ Closer(distance, t, t)
    BY SomeTyphoons DEF Closer, Measures
  <2>2. /\ list \in [1..N -> D] /\ N \in Nat
        /\ \A i, j \in 1..N : i < j => Closer(distance, list[i], list[j])
    BY <1>1 DEF list
  <2> HIDE DEF N
  <2>3. ASSUME NEW i \in 1..N, NEW j \in 1..N, i < j PROVE list[i] # list[j]
    BY <2>1, <2>2, <2>3
  <2> QED
    BY <2>2, <2>3
<1> HIDE DEF N
<1>3. list \in Seq(D)
  BY <1>2
<1>4. IsInjective(list)
  BY <1>2 DEF IsInjective
<1> QED
  BY <1>3, <1>4 DEF IsList, list

LEMMA PoolFair ==
  ASSUME NEW D, NEW list, IsList(list, D), NEW size \in Nat
  PROVE  /\ IsList(Pool(list, size), D) /\ Len(Pool(list, size)) <= size
         /\ Range(Pool(list, size)) \subseteq D
<1> DEFINE n == Min({size, Len(list)})
           pool == SubSeq(list, 1, n)
<1>1. list \in Seq(D) /\ Len(list) \in Nat /\ IsInjective(list) /\ DOMAIN list = 1..Len(list)
  BY DEF IsList
<1>2. n \in Nat /\ n <= size /\ n <= Len(list)
  <2>1. n = IF size <= Len(list) THEN size ELSE Len(list)
    BY <1>1, LeastOf
  <2> HIDE DEF n
  <2>2. Len(list) \in Nat /\ size \in Nat
    BY <1>1
  <2> DEFINE k == Len(list)
  <2> HIDE DEF k
  <2>3. k \in Nat /\ size \in Nat /\ n = IF size <= k THEN size ELSE k
    BY <2>1, <2>2 DEF k
  <2>4. n \in Nat /\ n <= size /\ n <= k
    BY <2>3
  <2> QED
    BY <2>4 DEF k
<1> HIDE DEF n
<1>3. pool \in Seq(D) /\ Len(pool) = n /\ \A i \in 1..n : pool[i] = list[i]
  BY <1>1, <1>2
<1> HIDE DEF pool
<1>4. IsInjective(pool)
  <2> SUFFICES ASSUME NEW i \in 1..n, NEW j \in 1..n, pool[i] = pool[j] PROVE i = j
    BY <1>3 DEF IsInjective
  <2>1. i \in DOMAIN list /\ j \in DOMAIN list /\ list[i] = list[j]
    BY <1>1, <1>2, <1>3
  <2> QED
    BY <1>1, <2>1 DEF IsInjective
<1>5. Range(pool) \subseteq D
  BY <1>3 DEF Range
<1> QED
  BY <1>2, <1>3, <1>4, <1>5 DEF IsList, Pool, pool, n

Known(catalogue) == \A t \in Typhoons : IsTrack(catalogue[t])
IsRain(rain) == rain = NoRain \/ rain \in Int
RainKnown(table) == DOMAIN table = {} \/ (DOMAIN table = Typhoons /\ \A t \in Typhoons : IsRain(table[t]))

LEMMA RankingsFair ==
  ASSUME NEW D \in SUBSET Typhoons, NEW catalogue, NEW track, Known(catalogue), IsTrack(track)
  PROVE  /\ IsList(ByCoast(catalogue, D, track), D)
         /\ IsList(ByFeatures(catalogue, D, track), D)
         /\ IsList(ByPath(catalogue, D, track), D)
         /\ \A class : IsList(ByRule(catalogue, D, class), D)
<1>1. IsList(ByCoast(catalogue, D, track), D)
  <2> DEFINE C == {t \in D : catalogue[t].coast # Far /\ track.coast # Far}
             distance == [t \in C |-> Gap(catalogue[t].coast, track.coast)]
  <2>1. \A t \in C : catalogue[t].coast \in Int /\ track.coast \in Int
    BY DEF Known, IsTrack
  <2>2. \A t \in C : Gap(catalogue[t].coast, track.coast) \in Int
    BY <2>1 DEF Gap
  <2>3. C \in SUBSET Typhoons
    OBVIOUS
  <2>4. Measures(distance, C)
    BY <2>2 DEF Measures
  <2>5. ByCoast(catalogue, D, track) = Nearest(distance)
    BY Zenon DEF ByCoast
  <2>6. C \subseteq D
    OBVIOUS
  <2> HIDE DEF distance, C
  <2>7. IsList(Nearest(distance), C)
    BY <2>3, <2>4, RankingFair
  <2> QED
    BY <2>5, <2>6, <2>7 DEF IsList
<1>2. IsList(ByFeatures(catalogue, D, track), D)
  <2> DEFINE distance == [t \in D |-> Gap(catalogue[t].features, track.features)]
  <2>1. \A t \in D : catalogue[t].features \in Int /\ track.features \in Int
    BY DEF Known, IsTrack
  <2>2. \A t \in D : Gap(catalogue[t].features, track.features) \in Int
    BY <2>1 DEF Gap
  <2>3. Measures(distance, D)
    BY <2>2 DEF Measures
  <2>4. ByFeatures(catalogue, D, track) = Nearest(distance)
    BY Zenon DEF ByFeatures
  <2> HIDE DEF distance
  <2> QED
    BY <2>3, <2>4, RankingFair
<1>3. IsList(ByPath(catalogue, D, track), D)
  <2> DEFINE distance == [t \in D |-> DtwDistance(catalogue[t].path, track.path)]
  <2>1. \A t \in D : catalogue[t].path \in Seq(Int) /\ track.path \in Seq(Int)
    BY DEF Known, IsTrack
  <2>2. \A t \in D : DtwDistance(catalogue[t].path, track.path) \in Int
    <3> SUFFICES ASSUME NEW t \in D PROVE DtwDistance(catalogue[t].path, track.path) \in Int
      OBVIOUS
    <3>1. DtwDistance(catalogue[t].path, track.path) \in Nat
      BY <2>1, DistanceOfPair
    <3> QED
      BY <3>1
  <2>3. Measures(distance, D)
    BY <2>2 DEF Measures
  <2>4. ByPath(catalogue, D, track) = Nearest(distance)
    BY Zenon DEF ByPath
  <2> HIDE DEF distance
  <2> QED
    BY <2>3, <2>4, RankingFair
<1>4. ASSUME NEW class PROVE IsList(ByRule(catalogue, D, class), D)
  <2> DEFINE distance == [t \in D |-> IF catalogue[t].class = class THEN 0 ELSE 1]
  <2>1. Measures(distance, D)
    BY DEF Measures
  <2>2. ByRule(catalogue, D, class) = Nearest(distance)
    BY Zenon DEF ByRule
  <2> HIDE DEF distance
  <2> QED
    BY <2>1, <2>2, RankingFair
<1> QED
  BY <1>1, <1>2, <1>3, <1>4

LEMMA RainFair ==
  ASSUME NEW table, NEW rain, RainKnown(table), IsRain(rain)
  PROVE  IsList(ByRain(table, rain), Typhoons)
<1>1. CASE rain = NoRain \/ DOMAIN table = {}
  <2>1. ByRain(table, rain) = <<>>
    BY <1>1 DEF ByRain
  <2>2. <<>> \in Seq(Typhoons) /\ IsInjective(<<>>)
    BY DEF IsInjective
  <2> QED
    BY <2>1, <2>2 DEF IsList
<1>2. CASE rain # NoRain /\ DOMAIN table # {}
  <2> DEFINE distance == [t \in Typhoons |-> IF table[t] = NoRain THEN Infinite ELSE Gap(table[t], rain)]
  <2>1. rain \in Int /\ \A t \in Typhoons : table[t] = NoRain \/ table[t] \in Int
    BY <1>2 DEF RainKnown, IsRain
  <2>2. \A t \in Typhoons : (IF table[t] = NoRain THEN Infinite ELSE Gap(table[t], rain)) \in Int
    BY <2>1 DEF Infinite, Gap
  <2>3. Measures(distance, Typhoons)
    BY <2>2 DEF Measures
  <2>4. ByRain(table, rain) = Nearest(distance)
    BY <1>2, Zenon DEF ByRain
  <2> HIDE DEF distance
  <2> QED
    BY <2>3, <2>4, RankingFair
<1> QED
  BY <1>1, <1>2

(* An answer: analogs of the record, each once, as many as asked for at
   most, and not the typhoon that was asked about.                         *)
FairAnswer(best, asked) ==
  IsInjective(best) /\ Len(best) <= Analogs /\ Range(best) \subseteq Typhoons \ {asked}

LEMMA BestFair ==
  ASSUME NEW signals, NEW asked, NEW candidates \in SUBSET (Typhoons \ {asked}),
         NEW best \in BestOf(signals, candidates)
  PROVE  FairAnswer(best, asked)
<1> DEFINE n == Min({Analogs, Cardinality(candidates)})
<1>1. Cardinality(candidates) \in Nat /\ Analogs \in Nat
  <2>1. candidates \in SUBSET Typhoons
    OBVIOUS
  <2> QED
    BY <2>1, SomeTyphoons, MatchingAssumption
<1>2. n \in Nat /\ n <= Analogs
  <2> DEFINE c == Cardinality(candidates)
  <2>1. c \in Nat /\ Analogs \in Nat
    BY <1>1
  <2> HIDE DEF c
  <2>2. Min({Analogs, c}) = IF Analogs <= c THEN Analogs ELSE c
    BY <2>1, LeastOf
  <2> QED
    BY <2>1, <2>2 DEF c
<1>3. best \in [1..n -> candidates] /\ IsInjective(best)
  BY Zenon DEF BestOf
<1> HIDE DEF n
<1>4. Len(best) = n
  BY <1>2, <1>3
<1> QED
  BY <1>2, <1>3, <1>4 DEF FairAnswer, Range

LEMMA SimilarFair ==
  ASSUME NEW method \in Fused \cup {"coastline", "knn_optimized"}, NEW catalogue, NEW settings,
         NEW asked, NEW track, NEW rain, Known(catalogue), IsTrack(track),
         RainKnown(settings.table), IsRain(rain),
         NEW best \in Similar(method, catalogue, settings, asked, track, rain)
  PROVE  FairAnswer(best, asked)
<1> DEFINE others == Typhoons \ {asked}
           size == Min({Cardinality(others), Analogs * PoolFactor})
           coast == ByCoast(catalogue, others, track)
           features == ByFeatures(catalogue, others, track)
           path == ByPath(catalogue, others, track)
           rule(class) == ByRule(catalogue, others, class)
           rained(which) == RainedBy(which, settings, rain)
<1>1. others \in SUBSET Typhoons /\ Analogs \in Nat
  BY MatchingAssumption
<1>2. size \in Nat
  <2> DEFINE k == Analogs * PoolFactor
             c == Cardinality(others)
  <2>1. k \in Nat /\ c \in Nat
    BY <1>1, SomeTyphoons, MatchingAssumption
  <2> HIDE DEF k, c
  <2>2. Min({c, k}) \in Nat
    BY <2>1, LeastOf
  <2> QED
    BY <2>2 DEF k, c
<1> HIDE DEF others, size
<1>3. /\ IsList(coast, others) /\ IsList(features, others) /\ IsList(path, others)
      /\ \A class : IsList(rule(class), others)
  BY <1>1, RankingsFair
<1>4. \A which : IsList(rained(which), Typhoons)
  <2> SUFFICES ASSUME NEW which PROVE IsList(rained(which), Typhoons)
    OBVIOUS
  <2>1. IsList(ByRain(settings.table, rain), Typhoons)
    BY RainFair
  <2>2. <<>> \in Seq(Typhoons) /\ IsInjective(<<>>)
    BY DEF IsInjective
  <2>3. rained(which) \in {ByRain(settings.table, rain), <<>>}
    BY DEF RainedBy
  <2> HIDE DEF rained
  <2> QED
    BY <2>1, <2>2, <2>3 DEF IsList
<1> HIDE DEF coast, features, path, rule, rained
<1>5. \A n \in Nat :
        /\ Range(Pool(coast, n)) \subseteq others /\ Range(Pool(features, n)) \subseteq others
        /\ Range(Pool(path, n)) \subseteq others
        /\ \A class : Range(Pool(rule(class), n)) \subseteq others
        /\ \A which : Range(Pool(rained(which), n)) \subseteq Typhoons
  BY <1>3, <1>4, PoolFair
<1>6. CASE method = "coastline_rrf"
  <2> DEFINE fusion == CoastSignals(catalogue, settings, asked, track, rain)
  <2>1. fusion.candidates = (Range(Pool(coast, size)) \cup Range(Pool(features, size))
                               \cup Range(Pool(rained("coastline_rrf"), size))) \ {asked}
    BY Zenon DEF CoastSignals, coast, features, rained, others, size
  <2>2. Similar(method, catalogue, settings, asked, track, rain)
          = BestOf(fusion.signals, fusion.candidates)
    BY <1>6, Zenon DEF Similar, Fusion, Fused
  <2> HIDE DEF fusion
  <2>3. fusion.candidates \in SUBSET (Typhoons \ {asked})
    BY <1>2, <1>5, <2>1 DEF others
  <2> QED
    BY <2>2, <2>3, BestFair
<1>7. CASE method = "combined_rainfall"
  <2> DEFINE fusion == CombinedSignals(catalogue, settings, asked, track, rain)
             class == IF asked = Query THEN catalogue[Pool(features, size)[1]].class ELSE track.class
  <2>1. fusion.candidates
          = (Range(Pool(features, size)) \cup Range(Pool(path, size))
               \cup Range(Pool(rained("combined_rainfall"), size))
               \cup {t \in Range(Pool(rule(class), size)) :
                       asked = Query \/ catalogue[t].class = class}) \ {asked}
    BY Zenon DEF CombinedSignals, features, path, rule, rained, others, size
  <2>2. Similar(method, catalogue, settings, asked, track, rain)
          = BestOf(fusion.signals, fusion.candidates)
    BY <1>7, Zenon DEF Similar, Fusion, Fused
  <2> HIDE DEF fusion, class
  <2>3. fusion.candidates \in SUBSET (Typhoons \ {asked})
    BY <1>2, <1>5, <2>1 DEF others
  <2> QED
    BY <2>2, <2>3, BestFair
<1>8. CASE method = "coastline"
  <2>1. best = Pool(coast, Analogs)
    BY <1>8 DEF Similar, Fused, coast, others
  <2>2. IsList(best, others) /\ Len(best) <= Analogs /\ Range(best) \subseteq others
    BY <1>1, <1>3, <2>1, PoolFair
  <2> QED
    BY <2>2 DEF IsList, FairAnswer, others
<1>9. CASE method = "knn_optimized"
  <2>1. best = Pool(features, Analogs)
    BY <1>9 DEF Similar, Fused, features, others
  <2>2. IsList(best, others) /\ Len(best) <= Analogs /\ Range(best) \subseteq others
    BY <1>1, <1>3, <2>1, PoolFair
  <2> QED
    BY <2>2 DEF IsList, FairAnswer, others
<1> QED
  BY <1>6, <1>7, <1>8, <1>9 DEF Fused

(* Who wins the vote is the category of an analog, or none when no analog
   has one.                                                                *)
LEMMA WinnerVoted ==
  ASSUME NEW catalogue, NEW best, NEW category \in Winners(catalogue, best)
  PROVE  LET categories == {catalogue[u].category : u \in Range(best)}
         IN /\ category \in categories \cup {NoCategory}
            /\ category = NoCategory => categories \subseteq {NoCategory}
<1> DEFINE categories == {catalogue[u].category : u \in Range(best)}
           voted == categories \ {NoCategory}
<1>1. category \in (IF voted = {} THEN {NoCategory}
                    ELSE {d \in voted : \A c \in voted : ~ Outvotes(catalogue, best, c, d)})
  BY Zenon DEF Winners
<1> HIDE DEF categories
<1>2. CASE voted = {}
  <2>1. category = NoCategory /\ categories \subseteq {NoCategory}
    BY <1>1, <1>2
  <2> QED
    BY <2>1 DEF categories
<1>3. CASE voted # {}
  <2>1. category \in categories /\ category # NoCategory
    BY <1>1, <1>3
  <2> QED
    BY <2>1 DEF categories
<1> QED
  BY <1>2, <1>3

-----------------------------------------------------------------------------
(* Analogs: the engines that runs share.  An engine nobody has set is as it *)
(* was fitted; one that a single run has set since it began is, as far as   *)
(* that run has come, as it asked.                                          *)

RunFields == {"ask", "step", "read", "found", "predicted", "rain", "taken", "with", "by"}
EngineFields == {"read", "setters", "use", "weight", "region", "table"}
Setting == {"use", "region", "taking", "configured"}
Sharing == Setting \cup {"engine", "ranking"}
Rains == {NoRain} \cup Int

TableGood(table) == table = <<>> \/ table \in [Typhoons -> Rains]

EngineGood(key) ==
  LET engine == engines[key]
  IN /\ DOMAIN engine = EngineFields /\ engine.read \in TyphoonRecords
     /\ engine.region \in Regions /\ TableGood(engine.table)
     /\ key = KeyOf(key[1], engine.read)
     /\ engine.setters = {} => engine = FittedEngine(key[1], engine.read)

(* The engine is set as r asked, as far as r has come.                     *)
SetBy(r) ==
  LET run == analogRun[r]
      ask == run.ask
      engine == EngineOf(r)
  IN /\ engine.use = ask.use
     /\ run.step # "use" => engine.region = ask.region
     /\ run.step \notin {"use", "region"} => engine.weight = IF ask.use THEN ask.weight ELSE 0
     /\ run.step = "taking" => \A t \in DOMAIN run.taken :
          run.taken[t] = engine.read.typhoons[t].rain[ask.region]
     /\ run.step \in {"configured", "ranking"} /\ ask.use =>
          engine.table = RainTable(engine.read, ask.region)

(* What is ranked by is of the engine, if nobody else sets it meanwhile.   *)
RankedBy(r) ==
  LET run == analogRun[r]
      engine == EngineOf(r)
  IN /\ run.rain # NoRain => engine.table \in [Typhoons -> Rains]
     /\ run.ask.kind = "backtest" => About(r) \in Typhoons
     /\ engine.setters \in {{}, {r}} =>
          /\ run.rain = RainOf(run.ask.method, engine, About(r), RainAsked(run.ask))
          /\ \A t \in DOMAIN run.taken : run.taken[t] = engine.table[t]

(* What a run has scored is what the engine answers, unless it was set.    *)
ScoredBy(r, engine) ==
  engine.setters = {} =>
    \A t \in DOMAIN analogRun[r].found :
      analogRun[r].found[t] \in
        LeaveOneOut(analogRun[r].ask.method, engine.read.typhoons, engine, t)

SetsFirst(r) ==
  \/ analogRun[r].step \in Setting
  \/ /\ analogRun[r].step = "ranking"
     /\ analogRun[r].ask.kind = "predict" /\ analogRun[r].ask.method \in Fused

WithEngine(r) ==
  /\ SetsFirst(r) => EngineOf(r).setters # {} /\ (EngineOf(r).setters = {r} => SetBy(r))
  /\ analogRun[r].step = "ranking" => RankedBy(r)
  /\ analogRun[r].ask.kind = "backtest" => ScoredBy(r, EngineOf(r))

TakenGood(r) ==
  LET run == analogRun[r]
  IN /\ run.taken = <<>> \/ run.taken \in [DOMAIN run.taken -> Rains]
     /\ DOMAIN run.taken \subseteq Typhoons
     /\ run.rain \in Rains
     /\ run.step \notin {"taking", "ranking"} => run.taken = <<>>
     /\ run.step = "ranking" /\ run.rain = NoRain => run.taken = <<>>

Answered(r) ==
  /\ analogRun[r].with.shape = analogRun[r].read.shape
  /\ Did("predict", r) => AnswersAsIfAlone(r)
  /\ Did("backtest", r) /\ analogRun[r].by = {} =>
       ScoredBy(r, FittedEngine(analogRun[r].ask.method, analogRun[r].with))

RunGood(r) ==
  LET run == analogRun[r]
  IN /\ DOMAIN run = RunFields /\ run.ask \in Asks
     /\ run.step # "asked" => run.read \in TyphoonRecords
     /\ run.step \in {"asked", "read", "locked"} => run.found = <<>>
     /\ run.step = "locked" => fitting = r
     /\ TakenGood(r)
     /\ run.step \in Sharing => RunKey(r) \in DOMAIN engines /\ WithEngine(r)
     /\ run.step = "done" => Answered(r)

AnalogInv ==
  /\ storedRecord \in TyphoonRecords
  /\ DOMAIN analogRun = AnalogRuns
  /\ \A key \in DOMAIN engines : EngineGood(key)
  /\ \A r \in AnalogRuns : RunGood(r)

LEMMA RainTables ==
  ASSUME NEW data \in TyphoonRecords, NEW region \in Regions
  PROVE  /\ RainTable(data, region) \in [Typhoons -> Rains] /\ Known(data.typhoons)
         /\ \A t \in Typhoons : data.typhoons[t].rain[region] \in Rains
BY AnalogAssumption DEF Rains, RainTable, Known

LEMMA TablesKnown ==
  ASSUME NEW table, TableGood(table)
  PROVE  RainKnown(table)
BY DEF TableGood, RainKnown, Rains, IsRain

LEMMA TyphoonsThere == Typhoons # {} /\ Typhoons \subseteq Nat /\ Query \notin Typhoons
BY MatchingAssumption DEF Query

LEMMA FirstOf ==
  ASSUME NEW S \in SUBSET Typhoons, S # {}
  PROVE  Min(S) \in S
<1>1. S \subseteq Nat
  BY TyphoonsThere
<1>2. \E m \in S : \A k \in S : m <= k
  BY <1>1, LeastNumber
<1> QED
  BY <1>2 DEF Min

LEMMA InitAnalogInv == AnalogInit => AnalogInv
<1> SUFFICES ASSUME AnalogInit PROVE AnalogInv
  OBVIOUS
<1>1. PICK ask \in [AnalogRuns -> Asks] :
        analogRun = [r \in AnalogRuns |->
          [ask |-> ask[r], step |-> "asked", read |-> NoRecord, found |-> <<>>,
           predicted |-> <<>>, rain |-> NoRain, taken |-> <<>>, with |-> NoRecord, by |-> {}]]
  BY DEF AnalogInit
<1>2. ASSUME NEW r \in AnalogRuns PROVE RunGood(r)
  BY <1>1, <1>2 DEF RunGood, RunFields, TakenGood, Rains, Sharing, Setting
<1>3. DOMAIN engines = {}
  BY DEF AnalogInit
<1> QED
  BY <1>1, <1>2, <1>3 DEF AnalogInv, AnalogInit

(* What is said of a run and its engine rests on the two alone.            *)
LEMMA EngineSame ==
  ASSUME NEW q, WithEngine(q), analogRun'[q] = analogRun[q], EngineOf(q)' = EngineOf(q)
  PROVE  WithEngine(q)'
<1>1. About(q)' = About(q)
  BY DEF About, Unscored, Sample
<1> QED
  BY <1>1 DEF WithEngine, SetsFirst, SetBy, RankedBy, ScoredBy

LEMMA RunSame ==
  ASSUME NEW q, RunGood(q), analogRun'[q] = analogRun[q],
         analogRun[q].step = "locked" => fitting' = fitting,
         analogRun[q].step \in Sharing => RunKey(q)' \in DOMAIN engines' /\ WithEngine(q)'
  PROVE  RunGood(q)'
BY DEF RunGood, TakenGood, Answered, AnswersAsIfAlone, Did, ScoredBy

(* A run that does nothing, while the engines stay as they are.            *)
LEMMA RunRests ==
  ASSUME AnalogInv, NEW q \in AnalogRuns, analogRun'[q] = analogRun[q], engines' = engines,
         analogRun[q].step = "locked" => fitting' = fitting
  PROVE  RunGood(q)'
<1>1. RunKey(q)' = RunKey(q) /\ EngineOf(q)' = EngineOf(q)
  BY DEF RunKey, EngineOf
<1> QED
  BY <1>1, RunSame, EngineSame DEF AnalogInv, RunGood

(* A new key, and an engine under it, disturb no run that has one.         *)
LEMMA RunKeeps ==
  ASSUME AnalogInv, NEW q \in AnalogRuns, analogRun'[q] = analogRun[q],
         DOMAIN engines \subseteq DOMAIN engines',
         \A key \in DOMAIN engines : engines'[key] = engines[key],
         analogRun[q].step = "locked" => fitting' = fitting
  PROVE  RunGood(q)'
<1>1. RunKey(q)' = RunKey(q) /\ RunGood(q)
  BY DEF RunKey, AnalogInv
<1>2. analogRun[q].step \in Sharing => RunKey(q) \in DOMAIN engines'
                                         /\ EngineOf(q)' = EngineOf(q) /\ WithEngine(q)
  BY <1>1 DEF EngineOf, RunGood
<1> QED
  BY <1>1, <1>2, RunSame, EngineSame

LEMMA EnginesKept ==
  ASSUME AnalogInv, engines' = engines
  PROVE  \A key \in DOMAIN engines' : EngineGood(key)'
BY DEF AnalogInv, EngineGood

LEMMA ReadingRecord ==
  ASSUME AnalogInv, NEW r \in AnalogRuns, ReadCatalogue(r)
  PROVE  AnalogInv'
<1>1. analogRun' = [analogRun EXCEPT ![r].step = "read", ![r].read = storedRecord]
      /\ engines' = engines /\ fitting' = fitting /\ storedRecord' = storedRecord
      /\ analogRun[r].step = "asked" /\ DOMAIN analogRun = AnalogRuns /\ RunGood(r)
  BY DEF ReadCatalogue, AnalogInv
<1>2. RunGood(r)'
  BY <1>1 DEF RunGood, RunFields, AnalogInv, TakenGood, Sharing, Setting
<1>3. \A q \in AnalogRuns : q # r => RunGood(q)'
  BY <1>1, RunRests
<1> QED
  BY <1>1, <1>2, <1>3, EnginesKept DEF AnalogInv

LEMMA TakingEngine ==
  ASSUME AnalogInv, NEW r \in AnalogRuns, TakeEngine(r)
  PROVE  AnalogInv'
<1>1. analogRun' = [analogRun EXCEPT ![r].step = "engine"]
      /\ engines' = engines /\ fitting' = fitting /\ storedRecord' = storedRecord
      /\ analogRun[r].step = "read" /\ DOMAIN analogRun = AnalogRuns /\ RunGood(r)
      /\ RunKey(r) \in DOMAIN engines
  BY DEF TakeEngine, AnalogInv, Step
<1>2. RunGood(r)'
  BY <1>1 DEF RunGood, RunFields, RunKey, WithEngine, SetsFirst, ScoredBy, TakenGood, Setting
<1>3. \A q \in AnalogRuns : q # r => RunGood(q)'
  BY <1>1, RunRests
<1> QED
  BY <1>1, <1>2, <1>3, EnginesKept DEF AnalogInv

LEMMA LockingEngines ==
  ASSUME AnalogInv, NEW r \in AnalogRuns, LockEngines(r)
  PROVE  AnalogInv'
<1>1. analogRun' = [analogRun EXCEPT ![r].step = "locked"]
      /\ engines' = engines /\ fitting = Nobody /\ fitting' = r /\ storedRecord' = storedRecord
      /\ analogRun[r].step = "read" /\ DOMAIN analogRun = AnalogRuns /\ RunGood(r)
  BY DEF LockEngines, AnalogInv, Step
<1>2. RunGood(r)'
  BY <1>1 DEF RunGood, RunFields, TakenGood, Sharing, Setting
<1>3. \A q \in AnalogRuns : analogRun[q].step # "locked"
  BY <1>1, AnalogAssumption DEF AnalogInv, RunGood
<1>4. \A q \in AnalogRuns : q # r => RunGood(q)'
  BY <1>1, <1>3, RunRests
<1> QED
  BY <1>1, <1>2, <1>4, EnginesKept DEF AnalogInv

LEMMA FittingEngine ==
  ASSUME AnalogInv, NEW r \in AnalogRuns, FitEngine(r)
  PROVE  AnalogInv'
<1> DEFINE made == FittedEngine(analogRun[r].ask.method, analogRun[r].read)
<1>1. analogRun' = [analogRun EXCEPT ![r].step = "engine"]
      /\ fitting' = Nobody /\ storedRecord' = storedRecord
      /\ analogRun[r].step = "locked" /\ DOMAIN analogRun = AnalogRuns /\ RunGood(r)
      /\ engines' = [key \in DOMAIN engines \cup {RunKey(r)} |->
                       IF key \in DOMAIN engines THEN engines[key] ELSE made]
  BY DEF FitEngine, AnalogInv, Step
<1>2. fitting = r /\ analogRun[r].ask \in Asks /\ analogRun[r].read \in TyphoonRecords
  BY <1>1 DEF RunGood
<1>3. RunKey(r) \in DOMAIN engines' /\ RunKey(r)' = RunKey(r)
  BY <1>1, <1>2 DEF RunKey, RunGood, RunFields
<1>4. RunGood(r)'
  BY <1>1, <1>2, <1>3 DEF RunGood, RunFields, WithEngine, SetsFirst, ScoredBy, TakenGood, Setting
<1>5. \A q \in AnalogRuns : q # r => analogRun[q].step # "locked"
  BY <1>2 DEF AnalogInv, RunGood
<1>6. \A q \in AnalogRuns : q # r => RunGood(q)'
  BY <1>1, <1>5, RunKeeps
<1>7. ASSUME NEW key \in DOMAIN engines' PROVE EngineGood(key)'
  <2>1. CASE key \in DOMAIN engines
    BY <1>1, <2>1 DEF EngineGood, AnalogInv
  <2>2. CASE key \notin DOMAIN engines
    <3>1. key = RunKey(r) /\ engines'[key] = made
      BY <1>1, <2>2
    <3>2. /\ DOMAIN made = EngineFields /\ made.read = analogRun[r].read
          /\ made.region = DefaultRegion /\ DefaultRegion \in Regions
          /\ made.table \in {<<>>, RainTable(analogRun[r].read, DefaultRegion)}
      BY MatchingAssumption DEF FittedEngine, EngineFields
    <3>3. key = KeyOf(key[1], analogRun[r].read) /\ key[1] = analogRun[r].ask.method
      BY <3>1 DEF RunKey, KeyOf
    <3> HIDE DEF made
    <3>4. made = FittedEngine(key[1], made.read)
      BY <3>2, <3>3 DEF made
    <3>5. TableGood(made.table)
      BY <1>2, <3>2, RainTables DEF TableGood
    <3> QED
      BY <1>2, <3>1, <3>2, <3>3, <3>4, <3>5 DEF EngineGood
  <2> QED
    BY <2>1, <2>2
<1> QED
  BY <1>1, <1>4, <1>6, <1>7 DEF AnalogInv

(* A run assigns to the engine it shares: what others hold of it as theirs
   is no longer said, and the others' engines stay.                        *)
Assigned(r, made) ==
  /\ RunKey(r) \in DOMAIN engines /\ engines' = [engines EXCEPT ![RunKey(r)] = made]
  /\ fitting' = fitting /\ storedRecord' = storedRecord
  /\ DOMAIN made = EngineFields /\ made.read = EngineOf(r).read /\ made.region \in Regions
  /\ r \in made.setters
  /\ made.table = EngineOf(r).table \/ made.table \in [Typhoons -> Rains]
  /\ DOMAIN analogRun' = AnalogRuns
  /\ \A q \in AnalogRuns : q # r => analogRun'[q] = analogRun[q]

LEMMA OthersSet ==
  ASSUME AnalogInv, NEW r \in AnalogRuns, NEW made, Assigned(r, made),
         NEW q \in AnalogRuns, q # r
  PROVE  RunGood(q)'
<1>1. RunGood(q) /\ RunKey(q)' = RunKey(q) /\ analogRun'[q] = analogRun[q]
  BY DEF AnalogInv, RunKey, Assigned
<1>2. CASE RunKey(q) # RunKey(r)
  <2>1. analogRun[q].step \in Sharing => EngineOf(q)' = EngineOf(q) /\ RunKey(q) \in DOMAIN engines'
                                           /\ WithEngine(q)
    BY <1>1, <1>2 DEF RunGood, EngineOf, Assigned
  <2> QED
    BY <1>1, <2>1, RunSame, EngineSame DEF Assigned
<1>3. CASE RunKey(q) = RunKey(r)
  <2>1. /\ EngineOf(q)' = made /\ EngineOf(q) = EngineOf(r) /\ RunKey(q) \in DOMAIN engines'
        /\ made.read = EngineOf(q).read
    BY <1>1, <1>3 DEF EngineOf, Assigned
  <2>2. About(q)' = About(q)
    BY <1>1, <2>1 DEF About, Unscored, Sample
  <2>3. made.setters # {} /\ made.setters \notin {{}, {q}}
    BY DEF Assigned
  <2>4. ASSUME analogRun[q].step \in Sharing PROVE WithEngine(q)'
    <3>1. WithEngine(q)
      BY <1>1, <2>4 DEF RunGood
    <3>2. (analogRun[q].step = "ranking" => RankedBy(q))'
      BY <1>1, <2>1, <2>2, <2>3, <3>1 DEF WithEngine, RankedBy, Assigned
    <3>3. ScoredBy(q, EngineOf(q))'
      BY <2>1, <2>3 DEF ScoredBy
    <3> QED
      BY <2>1, <2>3, <3>2, <3>3 DEF WithEngine
  <2> QED
    BY <1>1, <2>1, <2>4, RunSame DEF Assigned
<1> QED
  BY <1>2, <1>3

LEMMA Assigning ==
  ASSUME AnalogInv, NEW r \in AnalogRuns, NEW made, Assigned(r, made), RunGood(r)'
  PROVE  AnalogInv'
<1>1. \A q \in AnalogRuns : RunGood(q)'
  BY OthersSet
<1>2. ASSUME NEW key \in DOMAIN engines' PROVE EngineGood(key)'
  <2>1. EngineGood(key) /\ EngineGood(RunKey(r)) /\ key \in DOMAIN engines
    BY <1>2 DEF AnalogInv, Assigned
  <2>2. CASE key # RunKey(r)
    BY <2>1, <2>2 DEF EngineGood, Assigned
  <2>3. CASE key = RunKey(r)
    <3>1. engines'[key] = made /\ TableGood(made.table) /\ made.setters # {}
      BY <2>1, <2>3 DEF EngineGood, Assigned, TableGood, EngineOf
    <3> QED
      BY <2>1, <2>3, <3>1 DEF EngineGood, Assigned, EngineOf
  <2> QED
    BY <2>2, <2>3
<1> QED
  BY <1>1, <1>2 DEF AnalogInv, Assigned

(* A run that comes a step further in setting its engine.                  *)
LEMMA ComingFurther ==
  ASSUME AnalogInv, NEW r \in AnalogRuns, NEW made, Assigned(r, made),
         analogRun[r].step \in Sharing, NEW to \in Setting,
         \/ analogRun'[r] = [analogRun[r] EXCEPT !.step = to, !.taken = <<>>]
         \/ analogRun'[r] = [analogRun[r] EXCEPT !.step = to] /\ analogRun[r].taken = <<>>,
         made.setters = {r} => SetBy(r)'
  PROVE  AnalogInv'
<1>1. RunGood(r) /\ DOMAIN analogRun = AnalogRuns
  BY DEF AnalogInv
<1>2. /\ DOMAIN analogRun'[r] = RunFields /\ analogRun'[r].ask = analogRun[r].ask
      /\ analogRun'[r].step = to /\ analogRun'[r].read = analogRun[r].read
      /\ analogRun'[r].rain = analogRun[r].rain /\ analogRun'[r].taken = <<>>
  BY <1>1 DEF RunGood, RunFields
<1>3. RunKey(r)' = RunKey(r) /\ RunKey(r) \in DOMAIN engines' /\ EngineOf(r)' = made
  BY <1>2 DEF RunKey, EngineOf, Assigned
<1>4. TakenGood(r)'
  BY <1>1, <1>2 DEF RunGood, TakenGood
<1>5. analogRun[r].read \in TyphoonRecords
  BY <1>1 DEF RunGood, Sharing, Setting
<1>6. WithEngine(r)'
  BY <1>2, <1>3 DEF WithEngine, Assigned, Setting, ScoredBy
<1>7. RunGood(r)'
  BY <1>1, <1>2, <1>3, <1>4, <1>5, <1>6 DEF RunGood, Setting
<1> QED
  BY <1>7, Assigning

(* A run of an engine, what it asks and what it has of the engine.         *)
Holding(r) ==
  /\ RunKey(r) \in DOMAIN engines /\ EngineGood(RunKey(r)) /\ WithEngine(r) /\ TakenGood(r)
  /\ DOMAIN analogRun = AnalogRuns /\ DOMAIN analogRun[r] = RunFields
  /\ analogRun[r].ask \in Asks /\ analogRun[r].read \in TyphoonRecords
  /\ EngineOf(r) = engines[RunKey(r)] /\ DOMAIN EngineOf(r) = EngineFields
  /\ EngineOf(r).read \in TyphoonRecords /\ EngineOf(r).region \in Regions

LEMMA Holds ==
  ASSUME AnalogInv, NEW r \in AnalogRuns, analogRun[r].step \in Sharing
  PROVE  Holding(r)
<1>1. RunGood(r) /\ EngineOf(r) = engines[RunKey(r)]
  BY DEF AnalogInv, EngineOf
<1>2. RunKey(r) \in DOMAIN engines /\ EngineGood(RunKey(r))
  BY <1>1 DEF RunGood, AnalogInv
<1> QED
  BY <1>1, <1>2 DEF Holding, RunGood, AnalogInv, EngineGood, Sharing, Setting

LEMMA SettingUse ==
  ASSUME AnalogInv, NEW r \in AnalogRuns, SetUse(r)
  PROVE  AnalogInv'
<1> DEFINE made == [EngineOf(r) EXCEPT !.use = analogRun[r].ask.use, !.setters = {r}]
<1>1. analogRun[r].step = "engine" /\ analogRun[r].ask.kind = "predict"
      /\ analogRun' = [analogRun EXCEPT ![r].step = "use"] /\ Assign(r, made)
  BY DEF SetUse, Step
<1>2. Holding(r) /\ analogRun[r].taken = <<>>
  BY <1>1, Holds DEF Sharing, Holding, TakenGood
<1>3. /\ DOMAIN made = EngineFields /\ made.read = EngineOf(r).read
      /\ made.region = EngineOf(r).region /\ made.table = EngineOf(r).table
      /\ made.use = analogRun[r].ask.use /\ made.setters = {r}
  BY <1>2 DEF Holding, EngineFields
<1> HIDE DEF made
<1>4. Assigned(r, made)
  BY <1>1, <1>2, <1>3 DEF Assigned, Assign, Holding
<1>5. RunKey(r)' = RunKey(r) /\ EngineOf(r)' = made
  BY <1>1, <1>2, <1>4 DEF RunKey, EngineOf, Assigned, Holding, RunFields
<1>6. SetBy(r)'
  BY <1>1, <1>2, <1>3, <1>5 DEF SetBy, Holding, RunFields
<1>7. analogRun'[r] = [analogRun[r] EXCEPT !.step = "use"]
  BY <1>1, <1>2 DEF Holding
<1> QED
  BY <1>1, <1>2, <1>4, <1>6, <1>7, ComingFurther DEF Setting, Sharing

LEMMA SettingRegion ==
  ASSUME AnalogInv, NEW r \in AnalogRuns, SetRegion(r)
  PROVE  AnalogInv'
<1> DEFINE made == [EngineOf(r) EXCEPT !.region = analogRun[r].ask.region, !.setters = @ \cup {r}]
<1>1. analogRun[r].step = "use" /\ analogRun' = [analogRun EXCEPT ![r].step = "region"]
      /\ Assign(r, made)
  BY DEF SetRegion, Step
<1>2. Holding(r) /\ analogRun[r].taken = <<>>
  BY <1>1, Holds DEF Sharing, Setting, Holding, TakenGood
<1>3. /\ DOMAIN made = EngineFields /\ made.read = EngineOf(r).read
      /\ made.region = analogRun[r].ask.region /\ made.table = EngineOf(r).table
      /\ made.use = EngineOf(r).use /\ made.setters = EngineOf(r).setters \cup {r}
  BY <1>2 DEF Holding, EngineFields
<1> HIDE DEF made
<1>4. Assigned(r, made)
  BY <1>1, <1>2, <1>3, AnalogAssumption DEF Assigned, Assign, Holding
<1>5. RunKey(r)' = RunKey(r) /\ EngineOf(r)' = made
  BY <1>1, <1>2, <1>4 DEF RunKey, EngineOf, Assigned, Holding, RunFields
<1>6. made.setters = {r} => SetBy(r)
  BY <1>1, <1>2, <1>3 DEF Holding, WithEngine, SetsFirst, Setting
<1>7. made.setters = {r} => SetBy(r)'
  BY <1>1, <1>2, <1>3, <1>5, <1>6 DEF SetBy, Holding, RunFields
<1>8. analogRun'[r] = [analogRun[r] EXCEPT !.step = "region"]
  BY <1>1, <1>2 DEF Holding
<1>9. analogRun[r].step \in Sharing /\ "region" \in Setting
  BY <1>1 DEF Setting, Sharing
<1> QED
  BY <1>2, <1>4, <1>7, <1>8, <1>9, ComingFurther

LEMMA SettingWeight ==
  ASSUME AnalogInv, NEW r \in AnalogRuns, SetWeight(r)
  PROVE  AnalogInv'
<1> DEFINE ask == analogRun[r].ask
           to == IF ask.use THEN "taking" ELSE "configured"
           made == [EngineOf(r) EXCEPT !.weight = IF ask.use THEN ask.weight ELSE 0,
                                       !.setters = @ \cup {r}]
<1>1. analogRun[r].step = "region" /\ analogRun' = [analogRun EXCEPT ![r].step = to]
      /\ Assign(r, made)
  BY DEF SetWeight, Step
<1>2. Holding(r) /\ analogRun[r].taken = <<>>
  BY <1>1, Holds DEF Sharing, Setting, Holding, TakenGood
<1>3. /\ DOMAIN made = EngineFields /\ made.read = EngineOf(r).read
      /\ made.region = EngineOf(r).region /\ made.table = EngineOf(r).table
      /\ made.use = EngineOf(r).use /\ made.setters = EngineOf(r).setters \cup {r}
      /\ made.weight = IF ask.use THEN ask.weight ELSE 0
  BY <1>2 DEF Holding, EngineFields
<1> HIDE DEF made
<1>4. Assigned(r, made)
  BY <1>1, <1>2, <1>3 DEF Assigned, Assign, Holding
<1>5. RunKey(r)' = RunKey(r) /\ EngineOf(r)' = made
  BY <1>1, <1>2, <1>4 DEF RunKey, EngineOf, Assigned, Holding, RunFields
<1>6. made.setters = {r} => SetBy(r)
  BY <1>1, <1>2, <1>3 DEF Holding, WithEngine, SetsFirst, Setting
<1>7. made.setters = {r} => SetBy(r)'
  <2>1. /\ analogRun'[r].step = to /\ analogRun'[r].ask = ask /\ analogRun'[r].taken = <<>>
        /\ ask.use \in BOOLEAN
    BY <1>1, <1>2, AnalogAssumption DEF Holding, RunFields
  <2>2. to = "taking" \/ (to = "configured" /\ ~ ask.use)
    BY <2>1
  <2> HIDE DEF to
  <2> QED
    BY <1>1, <1>3, <1>5, <1>6, <2>1, <2>2 DEF SetBy
<1>8. analogRun'[r] = [analogRun[r] EXCEPT !.step = to] /\ to \in Setting
  BY <1>1, <1>2 DEF Holding, Setting
<1>9. analogRun[r].step \in Sharing
  BY <1>1 DEF Setting, Sharing
<1> HIDE DEF to
<1> QED
  BY <1>2, <1>4, <1>7, <1>8, <1>9, ComingFurther

LEMMA TakingRain ==
  ASSUME AnalogInv, NEW r \in AnalogRuns, TakeRain(r)
  PROVE  AnalogInv'
<1> DEFINE t == Min(Untaken(r))
           rain == EngineOf(r).read.typhoons[t].rain[EngineOf(r).region]
           more == Noted(analogRun[r].taken, t, rain)
<1>1. /\ analogRun[r].step = "taking" /\ Untaken(r) # {}
      /\ analogRun' = [analogRun EXCEPT ![r].taken = more]
      /\ engines' = engines /\ fitting' = fitting /\ storedRecord' = storedRecord
  BY DEF TakeRain
<1>2. Holding(r)
  BY <1>1, Holds DEF Sharing, Setting
<1>3. t \in Untaken(r) /\ t \in Typhoons
  <2>1. Untaken(r) \in SUBSET Typhoons
    BY DEF Untaken
  <2> QED
    BY <1>1, <2>1, FirstOf
<1> HIDE DEF t
<1>4. rain \in Rains
  BY <1>2, <1>3, RainTables DEF Holding
<1>5. more = Noted(analogRun[r].taken, t, rain)
  OBVIOUS
<1> HIDE DEF more
<1>6. /\ more \in [DOMAIN more -> Rains] /\ DOMAIN more \subseteq Typhoons
      /\ DOMAIN more = DOMAIN analogRun[r].taken \cup {t} /\ more[t] = rain
      /\ \A u \in DOMAIN analogRun[r].taken : u # t => more[u] = analogRun[r].taken[u]
  <2> DEFINE kept == analogRun[r].taken
  <2>1. (kept = <<>> \/ kept \in [DOMAIN kept -> Rains]) /\ DOMAIN kept \subseteq Typhoons
    BY <1>2 DEF Holding, TakenGood
  <2> HIDE DEF kept, rain
  <2>2. more = Noted(kept, t, rain)
    BY <1>5 DEF kept
  <2>3. /\ more \in [DOMAIN more -> Rains] /\ DOMAIN more \subseteq Typhoons
        /\ DOMAIN more = DOMAIN kept \cup {t} /\ more[t] = rain
        /\ \A u \in DOMAIN kept : u # t => more[u] = kept[u]
    BY <1>3, <1>4, <2>1, <2>2 DEF Noted
  <2> QED
    BY <2>3 DEF kept
<1>7. /\ DOMAIN analogRun'[r] = RunFields /\ analogRun'[r].ask = analogRun[r].ask
      /\ analogRun'[r].step = "taking" /\ analogRun'[r].read = analogRun[r].read
      /\ analogRun'[r].found = analogRun[r].found
      /\ analogRun'[r].rain = analogRun[r].rain /\ analogRun'[r].taken = more
  BY <1>1, <1>2 DEF Holding, RunFields
<1>8. RunKey(r)' = RunKey(r) /\ EngineOf(r)' = EngineOf(r)
  BY <1>1, <1>7 DEF RunKey, EngineOf
<1>9. RunGood(r)'
  <2>1. TakenGood(r)'
    BY <1>2, <1>6, <1>7 DEF Holding, TakenGood
  <2>2. EngineOf(r).setters = {r} => SetBy(r)'
    <3>1. EngineOf(r).setters = {r} => SetBy(r)
      BY <1>1, <1>2 DEF Holding, WithEngine, SetsFirst, Setting
    <3>2. EngineOf(r).setters = {r} => EngineOf(r).region = analogRun[r].ask.region
      BY <1>1, <3>1 DEF SetBy
    <3> QED
      BY <1>1, <1>6, <1>7, <1>8, <3>1, <3>2 DEF SetBy
  <2>3. WithEngine(r)'
    BY <1>1, <1>2, <1>7, <1>8, <2>2 DEF Holding, WithEngine, SetsFirst, Setting, ScoredBy
  <2> QED
    BY <1>1, <1>2, <1>7, <1>8, <2>1, <2>3 DEF Holding, RunGood
<1>10. \A q \in AnalogRuns : q # r => RunGood(q)'
  BY <1>1, RunRests
<1> QED
  BY <1>1, <1>2, <1>9, <1>10, EnginesKept DEF AnalogInv, Holding

LEMMA PuttingRain ==
  ASSUME AnalogInv, NEW r \in AnalogRuns, PutRain(r)
  PROVE  AnalogInv'
<1> DEFINE ask == analogRun[r].ask
           taken == analogRun[r].taken
           made == [EngineOf(r) EXCEPT !.table = RetakenTable(EngineOf(r), taken),
                                       !.setters = @ \cup {r}]
<1>1. /\ analogRun[r].step = "taking" /\ Untaken(r) = {} /\ Assign(r, made)
      /\ analogRun' = [analogRun EXCEPT ![r].step = "configured", ![r].taken = <<>>]
  BY DEF PutRain
<1>2. Holding(r)
  BY <1>1, Holds DEF Sharing, Setting
<1>3. DOMAIN taken = Typhoons /\ taken \in [Typhoons -> Rains]
  BY <1>1, <1>2, TyphoonsThere DEF Untaken, Holding, TakenGood
<1>4. /\ DOMAIN made = EngineFields /\ made.read = EngineOf(r).read
      /\ made.region = EngineOf(r).region /\ made.table = taken
      /\ made.use = EngineOf(r).use /\ made.setters = EngineOf(r).setters \cup {r}
      /\ made.weight = EngineOf(r).weight
  BY <1>2 DEF Holding, EngineFields, RetakenTable
<1> HIDE DEF made
<1>5. Assigned(r, made)
  BY <1>1, <1>2, <1>3, <1>4 DEF Assigned, Assign, Holding
<1>6. /\ analogRun'[r] = [analogRun[r] EXCEPT !.step = "configured", !.taken = <<>>]
      /\ analogRun'[r].ask = ask /\ analogRun'[r].step = "configured"
  BY <1>1, <1>2 DEF Holding, RunFields
<1>7. RunKey(r)' = RunKey(r) /\ EngineOf(r)' = made
  BY <1>1, <1>2, <1>5 DEF RunKey, EngineOf, Assigned, Holding, RunFields
<1>8. made.setters = {r} => SetBy(r)
  BY <1>1, <1>2, <1>4 DEF Holding, WithEngine, SetsFirst, Setting
<1>9. ASSUME SetBy(r) PROVE made.table = RainTable(made.read, ask.region)
  <2>1. \A t \in Typhoons : taken[t] = made.read.typhoons[t].rain[ask.region]
    BY <1>1, <1>3, <1>4, <1>9 DEF SetBy
  <2> QED
    BY <1>3, <1>4, <2>1 DEF RainTable
<1>10. made.setters = {r} => SetBy(r)'
  BY <1>1, <1>4, <1>6, <1>7, <1>8, <1>9 DEF SetBy
<1>11. analogRun[r].step \in Sharing /\ "configured" \in Setting
  BY <1>1 DEF Setting, Sharing
<1> QED
  BY <1>5, <1>6, <1>10, <1>11, ComingFurther

LEMMA AskingEngine ==
  ASSUME AnalogInv, NEW r \in AnalogRuns, StartRanking(r)
  PROVE  AnalogInv'
<1> DEFINE run == analogRun[r]
           ask == run.ask
           engine == EngineOf(r)
           rain == RainOf(ask.method, engine, About(r), RainAsked(ask))
<1>1. /\ ReadyToAsk(r) /\ engines' = engines /\ fitting' = fitting /\ storedRecord' = storedRecord
      /\ run.step \in {"engine", "configured"}
  BY DEF StartRanking, ReadyToAsk
<1>2. Holding(r) /\ run.taken = <<>>
  BY <1>1, Holds DEF Sharing, Setting, Holding, TakenGood
<1>3. \A q \in AnalogRuns : q # r => RunGood(q)'
  <2>1. \A q \in AnalogRuns : q # r => analogRun'[q] = analogRun[q]
    BY <1>2 DEF StartRanking, Holding
  <2> QED
    BY <1>1, <2>1, RunRests
<1>4. RunGood(r)'
  <2>1. CASE analogRun' = [analogRun EXCEPT ![r].step = "failed"]
    <3>1. /\ DOMAIN analogRun'[r] = RunFields /\ analogRun'[r].ask = ask
          /\ analogRun'[r].step = "failed" /\ analogRun'[r].read = run.read
          /\ analogRun'[r].taken = run.taken /\ analogRun'[r].rain = run.rain
      BY <1>2, <2>1 DEF Holding, RunFields
    <3> QED
      BY <1>2, <3>1 DEF RunGood, Holding, TakenGood, Sharing, Setting
  <2>2. CASE analogRun' = [analogRun EXCEPT ![r].step = "ranking", ![r].rain = rain]
    <3>1. /\ DOMAIN analogRun'[r] = RunFields /\ analogRun'[r].ask = ask
          /\ analogRun'[r].step = "ranking" /\ analogRun'[r].read = run.read
          /\ analogRun'[r].taken = run.taken /\ analogRun'[r].rain = rain
          /\ analogRun'[r].found = run.found
      BY <1>2, <2>2 DEF Holding, RunFields
    <3>2. RunKey(r)' = RunKey(r) /\ EngineOf(r)' = engine
      BY <1>1, <3>1 DEF RunKey, EngineOf
    <3>3. About(r)' = About(r)
      BY <3>1, <3>2 DEF About, Unscored, Sample
    <3>4. /\ TableGood(engine.table) /\ ask.method \in Fused \cup {"coastline", "knn_optimized"}
          /\ RainAsked(ask) \in Rains
      BY <1>2, AnalogAssumption DEF Holding, EngineGood, RainAsked, Rains
    <3>5. ask.kind = "backtest" => About(r) \in Typhoons
      <4> SUFFICES ASSUME ask.kind = "backtest" PROVE About(r) \in Typhoons
        OBVIOUS
      <4>1. About(r) = Min(Unscored(r)) /\ Unscored(r) # {}
        BY <1>1 DEF About, ReadyToAsk
      <4>2. Unscored(r) \in SUBSET Typhoons
        BY <1>2, AnalogAssumption DEF Unscored, Sample, Holding
      <4>3. Min(Unscored(r)) \in Unscored(r)
        BY <4>1, <4>2, FirstOf
      <4> QED
        BY <4>1, <4>2, <4>3
    <3>6. ask.kind # "backtest" => About(r) = Query
      BY <1>2, AnalogAssumption DEF Holding, About
    <3>7. rain \in Rains /\ (rain # NoRain => engine.table \in [Typhoons -> Rains])
      <4>1. CASE engine.table = <<>>
        BY <4>1 DEF RainOf, Rains
      <4>2. CASE engine.table \in [Typhoons -> Rains]
        <5>1. rain \in {NoRain, RainAsked(ask), engine.table[About(r)]}
              /\ (rain = engine.table[About(r)] => rain = NoRain \/ rain = RainAsked(ask) \/ About(r) # Query)
          BY Zenon DEF RainOf
        <5> HIDE DEF rain
        <5>2. About(r) # Query => About(r) \in Typhoons
          BY <3>5, <3>6
        <5> QED
          BY <3>4, <4>2, <5>1, <5>2 DEF Rains
      <4> QED
        BY <3>4, <4>1, <4>2 DEF TableGood
    <3> HIDE DEF rain
    <3>8. TakenGood(r)'
      BY <1>2, <3>1, <3>7 DEF TakenGood
    <3>9. RankedBy(r)'
      BY <1>2, <3>1, <3>2, <3>3, <3>5, <3>7 DEF RankedBy, rain
    <3>10. (SetsFirst(r) => EngineOf(r).setters # {} /\ (EngineOf(r).setters = {r} => SetBy(r)))'
      <4> SUFFICES ASSUME SetsFirst(r)'
                   PROVE  engine.setters # {} /\ (engine.setters = {r} => SetBy(r)')
        BY <3>2
      <4>1. ask.kind = "predict" /\ ask.method \in Fused
        BY <3>1 DEF SetsFirst, Setting
      <4>2. run.step = "configured"
        BY <1>1, <4>1 DEF ReadyToAsk
      <4>3. engine.setters # {} /\ (engine.setters = {r} => SetBy(r))
        BY <1>2, <4>2 DEF Holding, WithEngine, SetsFirst, Setting
      <4> QED
        BY <3>1, <3>2, <4>2, <4>3 DEF SetBy
    <3>11. WithEngine(r)'
      BY <1>2, <3>1, <3>2, <3>9, <3>10 DEF WithEngine, ScoredBy, Holding
    <3> QED
      BY <1>1, <1>2, <3>1, <3>2, <3>8, <3>11 DEF RunGood, Holding
  <2> QED
    BY <2>1, <2>2 DEF StartRanking
<1>5. DOMAIN analogRun' = AnalogRuns
  BY <1>2 DEF StartRanking, Holding
<1> QED
  BY <1>1, <1>3, <1>4, <1>5, EnginesKept DEF AnalogInv

LEMMA RankingRain ==
  ASSUME AnalogInv, NEW r \in AnalogRuns, RankRain(r)
  PROVE  AnalogInv'
<1> DEFINE t == Min(Untaken(r))
           rain == EngineOf(r).table[t]
           more == Noted(analogRun[r].taken, t, rain)
<1>1. /\ analogRun[r].step = "ranking" /\ Untaken(r) # {} /\ analogRun[r].rain # NoRain
      /\ analogRun' = [analogRun EXCEPT ![r].taken = more]
      /\ engines' = engines /\ fitting' = fitting /\ storedRecord' = storedRecord
  BY DEF RankRain
<1>2. Holding(r) /\ RankedBy(r)
  BY <1>1, Holds DEF Sharing, Holding, WithEngine
<1>3. t \in Untaken(r) /\ t \in Typhoons
  <2>1. Untaken(r) \in SUBSET Typhoons
    BY DEF Untaken
  <2> QED
    BY <1>1, <2>1, FirstOf
<1> HIDE DEF t
<1>4. rain \in Rains
  BY <1>1, <1>2, <1>3 DEF RankedBy
<1>5. more = Noted(analogRun[r].taken, t, rain)
  OBVIOUS
<1> HIDE DEF more
<1>6. /\ more \in [DOMAIN more -> Rains] /\ DOMAIN more \subseteq Typhoons
      /\ DOMAIN more = DOMAIN analogRun[r].taken \cup {t} /\ more[t] = rain
      /\ \A u \in DOMAIN analogRun[r].taken : u # t => more[u] = analogRun[r].taken[u]
  <2> DEFINE kept == analogRun[r].taken
  <2>1. (kept = <<>> \/ kept \in [DOMAIN kept -> Rains]) /\ DOMAIN kept \subseteq Typhoons
    BY <1>2 DEF Holding, TakenGood
  <2> HIDE DEF kept, rain
  <2>2. more = Noted(kept, t, rain)
    BY <1>5 DEF kept
  <2>3. /\ more \in [DOMAIN more -> Rains] /\ DOMAIN more \subseteq Typhoons
        /\ DOMAIN more = DOMAIN kept \cup {t} /\ more[t] = rain
        /\ \A u \in DOMAIN kept : u # t => more[u] = kept[u]
    BY <1>3, <1>4, <2>1, <2>2 DEF Noted
  <2> QED
    BY <2>3 DEF kept
<1>7. /\ DOMAIN analogRun'[r] = RunFields /\ analogRun'[r].ask = analogRun[r].ask
      /\ analogRun'[r].step = "ranking" /\ analogRun'[r].read = analogRun[r].read
      /\ analogRun'[r].found = analogRun[r].found
      /\ analogRun'[r].rain = analogRun[r].rain /\ analogRun'[r].taken = more
  BY <1>1, <1>2 DEF Holding, RunFields
<1>8. RunKey(r)' = RunKey(r) /\ EngineOf(r)' = EngineOf(r)
  BY <1>1, <1>7 DEF RunKey, EngineOf
<1>9. RunGood(r)'
  <2>1. TakenGood(r)'
    BY <1>1, <1>2, <1>6, <1>7 DEF Holding, TakenGood
  <2>2. About(r)' = About(r)
    BY <1>7, <1>8 DEF About, Unscored, Sample
  <2>3. RankedBy(r)'
    BY <1>2, <1>6, <1>7, <1>8, <2>2 DEF RankedBy
  <2>4. EngineOf(r).setters = {r} /\ SetBy(r) => SetBy(r)'
    BY <1>1, <1>7, <1>8 DEF SetBy
  <2>5. WithEngine(r)'
    BY <1>1, <1>2, <1>7, <1>8, <2>3, <2>4 DEF Holding, WithEngine, SetsFirst, Setting, ScoredBy
  <2> QED
    BY <1>1, <1>2, <1>7, <1>8, <2>1, <2>5 DEF Holding, RunGood
<1>10. \A q \in AnalogRuns : q # r => RunGood(q)'
  BY <1>1, RunRests
<1> QED
  BY <1>1, <1>2, <1>9, <1>10, EnginesKept DEF AnalogInv, Holding

(* What two similarities are set to matters to them as far as they rank by
   rain, and with what weight.                                             *)
RainAlike(method, a, rain, b, other) ==
  method \in Fused =>
    /\ RainedBy(method, a, rain) = RainedBy(method, b, other)
    /\ RainedBy(method, a, rain) # <<>> => a.weight = b.weight

LEMMA SimilarAlike ==
  ASSUME NEW method \in Fused \cup {"coastline", "knn_optimized"},
         NEW typhoons, NEW asked, NEW track, NEW a, NEW rain, NEW b, NEW other,
         RainAlike(method, a, rain, b, other)
  PROVE  Similar(method, typhoons, a, asked, track, rain)
           = Similar(method, typhoons, b, asked, track, other)
<1>1. CASE method = "coastline_rrf"
  <2>1. RainedBy("coastline_rrf", a, rain) = RainedBy("coastline_rrf", b, other)
        /\ (RainedBy("coastline_rrf", a, rain) # <<>> => a.weight = b.weight)
    BY <1>1 DEF RainAlike, Fused
  <2>2. CASE RainedBy("coastline_rrf", a, rain) = <<>>
    <3>1. RainedBy("coastline_rrf", b, other) = <<>>
      BY <2>1, <2>2
    <3>2. CoastSignals(typhoons, a, asked, track, rain) = CoastSignals(typhoons, b, asked, track, other)
      BY <2>2, <3>1, Zenon DEF CoastSignals
    <3> QED
      BY <1>1, <3>2, Zenon DEF Similar, Fusion
  <2>3. CASE RainedBy("coastline_rrf", a, rain) # <<>>
    <3>1. a.weight = b.weight
      BY <2>1, <2>3
    <3>2. CoastSignals(typhoons, a, asked, track, rain) = CoastSignals(typhoons, b, asked, track, other)
      BY <2>1, <3>1, Zenon DEF CoastSignals
    <3> QED
      BY <1>1, <3>2, Zenon DEF Similar, Fusion
  <2> QED
    BY <2>2, <2>3
<1>2. CASE method = "combined_rainfall"
  <2>1. RainedBy("combined_rainfall", a, rain) = RainedBy("combined_rainfall", b, other)
        /\ (RainedBy("combined_rainfall", a, rain) # <<>> => a.weight = b.weight)
    BY <1>2 DEF RainAlike, Fused
  <2>2. (IF RainedBy("combined_rainfall", a, rain) = <<>> THEN 0 ELSE a.weight)
          = (IF RainedBy("combined_rainfall", b, other) = <<>> THEN 0 ELSE b.weight)
    BY <2>1
  <2>3. CombinedSignals(typhoons, a, asked, track, rain)
          = CombinedSignals(typhoons, b, asked, track, other)
    BY <2>1, <2>2, Zenon DEF CombinedSignals
  <2> QED
    BY <1>2, <2>3, Zenon DEF Similar, Fusion
<1>3. CASE method \notin Fused
  BY <1>3 DEF Similar
<1> QED
  BY <1>1, <1>2, <1>3 DEF Fused

(* A run whose engine nobody else sets is answered as the engine stands.   *)
OwnRain(engine, t, asked) ==
  IF t = Query THEN asked ELSE IF t \in DOMAIN engine.table THEN engine.table[t] ELSE NoRain

LEMMA AnsweredByEngine ==
  ASSUME AnalogInv, NEW r \in AnalogRuns, Ranked(r), EngineOf(r).setters \in {{}, {r}},
         About(r) \in Typhoons \cup {Query}
  PROVE  AnalogsFound(r, About(r))
           = Similar(analogRun[r].ask.method, EngineOf(r).read.typhoons, SettingsOf(EngineOf(r)),
                     About(r), TrackOf(r, About(r)),
                     OwnRain(EngineOf(r), About(r), RainAsked(analogRun[r].ask)))
<1> DEFINE run == analogRun[r]
           method == run.ask.method
           engine == EngineOf(r)
           used == [use |-> TRUE, weight |-> engine.weight, table |-> run.taken]
           t == About(r)
           own == OwnRain(engine, t, RainAsked(run.ask))
           set == SettingsOf(engine)
<1>1. /\ run.step = "ranking" /\ (run.rain = NoRain \/ Untaken(r) = {})
      /\ Holding(r) /\ RankedBy(r)
  BY Holds DEF Ranked, Sharing, Holding, WithEngine
<1>2. /\ run.rain = RainOf(method, engine, t, RainAsked(run.ask))
      /\ \A u \in DOMAIN run.taken : run.taken[u] = engine.table[u]
      /\ run.rain # NoRain => engine.table \in [Typhoons -> Rains]
  BY <1>1 DEF RankedBy
<1>3. /\ TableGood(engine.table) /\ method \in Fused \cup {"coastline", "knn_optimized"}
  BY <1>1, AnalogAssumption DEF Holding, EngineGood
<1>4. run.rain # NoRain => run.taken = engine.table
  <2> SUFFICES ASSUME run.rain # NoRain PROVE run.taken = engine.table
    OBVIOUS
  <2>1. DOMAIN run.taken = Typhoons
    BY <1>1 DEF Untaken, Holding, TakenGood
  <2>2. run.taken = <<>> \/ run.taken \in [DOMAIN run.taken -> Rains]
    BY <1>1 DEF Holding, TakenGood
  <2>3. run.taken \in [Typhoons -> Rains]
    BY <2>1, <2>2, TyphoonsThere
  <2> QED
    BY <1>2, <2>1, <2>3
<1>5. run.rain = NoRain => run.taken = <<>>
  BY <1>1 DEF Holding, TakenGood
<1>6. /\ used.use = TRUE /\ used.weight = engine.weight /\ used.table = run.taken
      /\ set.use = engine.use /\ set.weight = engine.weight /\ set.table = engine.table
  BY DEF SettingsOf
<1>7. AnalogsFound(r, t)
        = Similar(method, engine.read.typhoons, used, t, TrackOf(r, t), run.rain)
  BY DEF AnalogsFound
<1> HIDE DEF used, set
<1>8. ByRain(<<>>, own) = <<>> /\ ByRain(run.taken, NoRain) = <<>>
      /\ \A table : ByRain(table, NoRain) = <<>>
  BY DEF ByRain
<1> DEFINE counts == IF method = "coastline_rrf" THEN engine.weight > 0 ELSE engine.use
<1>9. /\ RainedBy(method, used, run.rain) = IF method = "coastline_rrf" /\ ~ (engine.weight > 0)
                                             THEN <<>> ELSE ByRain(run.taken, run.rain)
      /\ RainedBy(method, set, own) = IF counts THEN ByRain(engine.table, own) ELSE <<>>
  BY <1>6 DEF RainedBy
<1>10. run.rain = IF ~ counts \/ engine.table = <<>> THEN NoRain
                  ELSE IF t = Query THEN RainAsked(run.ask) ELSE engine.table[t]
  BY <1>2, Zenon DEF RainOf
<1>11. RainedBy(method, used, run.rain) = RainedBy(method, set, own)
  <2>1. CASE ~ counts
    <3>1. run.rain = NoRain
      BY <1>10, <2>1
    <3> QED
      BY <1>8, <1>9, <2>1, <3>1
  <2>2. CASE counts /\ engine.table = <<>>
    <3>1. run.rain = NoRain
      BY <1>10, <2>2
    <3> HIDE DEF own
    <3> QED
      BY <1>8, <1>9, <2>2, <3>1
  <2>3. CASE counts /\ engine.table # <<>>
    <3>1. engine.table \in [Typhoons -> Rains]
      BY <1>3, <2>3 DEF TableGood
    <3>2. run.rain = own
      BY <1>10, <2>3, <3>1 DEF OwnRain
    <3> HIDE DEF own
    <3>3. CASE run.rain = NoRain
      BY <1>8, <1>9, <2>3, <3>2, <3>3
    <3>4. CASE run.rain # NoRain
      BY <1>4, <1>9, <2>3, <3>2, <3>4
    <3> QED
      BY <3>3, <3>4
  <2> QED
    BY <2>1, <2>2, <2>3
<1>12. RainAlike(method, used, run.rain, set, own)
  BY <1>6, <1>11 DEF RainAlike
<1> HIDE DEF own, t, method, engine
<1>13. \A typhoons, track : Similar(method, typhoons, used, t, track, run.rain)
                              = Similar(method, typhoons, set, t, track, own)
  BY <1>3, <1>12, SimilarAlike
<1> QED
  BY <1>7, <1>13 DEF own, t, method, engine, set

LEMMA Predicting ==
  ASSUME AnalogInv, NEW r \in AnalogRuns, Predict(r)
  PROVE  AnalogInv'
<1> DEFINE run == analogRun[r]
           ask == run.ask
           engine == EngineOf(r)
           settings == [use |-> ask.use, weight |-> IF ask.use THEN ask.weight ELSE 0,
                        table |-> IF ask.use THEN RainTable(run.read, ask.region) ELSE <<>>]
<1>1. /\ ask.kind = "predict" /\ Ranked(r) /\ run.step = "ranking"
      /\ engines' = engines /\ fitting' = fitting /\ storedRecord' = storedRecord
  BY DEF Predict, Ranked
<1>2. Holding(r) /\ About(r) = Query
  BY <1>1, Holds DEF Sharing, About
<1>3. PICK best \in AnalogsFound(r, Query) : \E category :
        analogRun' = [analogRun EXCEPT ![r] =
          [@ EXCEPT !.step = "done", !.found = Noted(<<>>, Query, best),
                    !.predicted = Noted(<<>>, Query, category),
                    !.rain = NoRain, !.taken = <<>>, !.with = engine.read, !.by = engine.setters]]
  BY DEF Predict
<1>4. /\ DOMAIN analogRun'[r] = RunFields /\ analogRun'[r].ask = ask
      /\ analogRun'[r].step = "done" /\ analogRun'[r].read = run.read
      /\ analogRun'[r].found = Noted(<<>>, Query, best)
      /\ analogRun'[r].rain = NoRain /\ analogRun'[r].taken = <<>>
      /\ analogRun'[r].with = engine.read /\ analogRun'[r].by = engine.setters
      /\ DOMAIN analogRun' = AnalogRuns /\ \A q \in AnalogRuns : q # r => analogRun'[q] = analogRun[q]
  BY <1>2, <1>3 DEF Holding, RunFields
<1>5. analogRun'[r].found[Query] = best
  BY <1>4 DEF Noted
<1>6. engine.read.shape = run.read.shape
  BY <1>2 DEF Holding, EngineGood, RunKey, KeyOf
<1>7. ASSUME engine.read = run.read, ask.method \in Fused => engine.setters = {r}
      PROVE  best \in Similar(ask.method, run.read.typhoons, settings, Query, ask.track,
                              RainAsked(ask))
  <2>1. CASE ask.method \notin Fused
    <3>1. \A a, b, rain, other : RainAlike(ask.method, a, rain, b, other)
      BY <2>1 DEF RainAlike
    <3>2. TrackOf(r, Query) = ask.track
      BY DEF TrackOf
    <3> HIDE DEF settings
    <3>3. AnalogsFound(r, Query)
            = Similar(ask.method, run.read.typhoons, settings, Query, ask.track, RainAsked(ask))
      <4>1. ask.method \in Fused \cup {"coastline", "knn_optimized"}
        BY <1>2, AnalogAssumption DEF Holding
      <4>2. \A a, rain : Similar(ask.method, run.read.typhoons, a, Query, ask.track, rain)
              = Similar(ask.method, run.read.typhoons, settings, Query, ask.track, RainAsked(ask))
        BY <3>1, <4>1, SimilarAlike
      <4> QED
        BY <1>7, <3>2, <4>2 DEF AnalogsFound
    <3> QED
      BY <1>3, <3>3
  <2>2. CASE ask.method \in Fused
    <3> DEFINE set == SettingsOf(engine)
               own == OwnRain(engine, Query, RainAsked(ask))
    <3>1. SetBy(r) /\ engine.setters = {r}
      BY <1>1, <1>2, <1>7, <2>2 DEF Holding, WithEngine, SetsFirst
    <3>2. /\ set.use = ask.use /\ set.weight = (IF ask.use THEN ask.weight ELSE 0)
          /\ settings.use = ask.use /\ settings.weight = (IF ask.use THEN ask.weight ELSE 0)
          /\ ask.use => set.table = settings.table
      BY <1>1, <1>7, <3>1 DEF SetBy, SettingsOf
    <3>3. own = RainAsked(ask) /\ TrackOf(r, Query) = ask.track
      BY DEF OwnRain, TrackOf
    <3>4. AnalogsFound(r, Query)
            = Similar(ask.method, engine.read.typhoons, set, Query, ask.track, own)
      BY <1>1, <1>2, <3>1, <3>3, AnsweredByEngine
    <3> HIDE DEF set, settings, own
    <3>5. RainAlike(ask.method, set, own, settings, RainAsked(ask))
      <4>1. ask.use \in BOOLEAN
        BY <1>2, AnalogAssumption DEF Holding
      <4>2. CASE ask.use
        BY <3>2, <3>3, <4>2 DEF RainAlike, RainedBy
      <4>3. CASE ~ ask.use
        BY <3>2, <4>3 DEF RainAlike, RainedBy
      <4> QED
        BY <4>1, <4>2, <4>3
    <3>6. ask.method \in Fused \cup {"coastline", "knn_optimized"}
      BY <2>2
    <3>7. Similar(ask.method, engine.read.typhoons, set, Query, ask.track, own)
            = Similar(ask.method, engine.read.typhoons, settings, Query, ask.track, RainAsked(ask))
      BY <3>5, <3>6, SimilarAlike
    <3> QED
      BY <1>3, <1>7, <3>4, <3>7
  <2> QED
    BY <2>1, <2>2
<1>8. Answered(r)'
  BY <1>1, <1>4, <1>5, <1>6, <1>7 DEF Answered, AnswersAsIfAlone, Did, RainAsked
<1>9. TakenGood(r)'
  BY <1>4 DEF TakenGood, Rains
<1>10. RunGood(r)'
  BY <1>2, <1>4, <1>8, <1>9 DEF RunGood, Holding, Sharing, Setting
<1>11. \A q \in AnalogRuns : q # r => RunGood(q)'
  BY <1>1, <1>4, RunRests
<1> QED
  BY <1>1, <1>4, <1>10, <1>11, EnginesKept DEF AnalogInv

LEMMA ScoringTyphoon ==
  ASSUME AnalogInv, NEW r \in AnalogRuns, ScoreTyphoon(r)
  PROVE  AnalogInv'
<1> DEFINE run == analogRun[r]
           engine == EngineOf(r)
           t == Min(Unscored(r))
<1>1. /\ run.ask.kind = "backtest" /\ Ranked(r) /\ run.step = "ranking"
      /\ engines' = engines /\ fitting' = fitting /\ storedRecord' = storedRecord
  BY DEF ScoreTyphoon, Ranked
<1>2. Holding(r) /\ t = About(r)
  BY <1>1, Holds DEF Sharing, About
<1>3. t \in Typhoons
  BY <1>1, <1>2 DEF Holding, WithEngine, RankedBy
<1>4. PICK best \in AnalogsFound(r, t) : \E category :
        analogRun' = [analogRun EXCEPT
          ![r].step = "engine", ![r].found = Noted(@, t, best),
          ![r].predicted = Noted(@, t, category), ![r].rain = NoRain, ![r].taken = <<>>]
  BY DEF ScoreTyphoon
<1> HIDE DEF t
<1>5. /\ DOMAIN analogRun'[r] = RunFields /\ analogRun'[r].ask = run.ask
      /\ analogRun'[r].step = "engine" /\ analogRun'[r].read = run.read
      /\ analogRun'[r].found = Noted(run.found, t, best)
      /\ analogRun'[r].rain = NoRain /\ analogRun'[r].taken = <<>>
      /\ DOMAIN analogRun' = AnalogRuns /\ \A q \in AnalogRuns : q # r => analogRun'[q] = analogRun[q]
  BY <1>2, <1>4 DEF Holding, RunFields
<1>6. RunKey(r)' = RunKey(r) /\ EngineOf(r)' = engine
  BY <1>1, <1>5 DEF RunKey, EngineOf
<1>7. engine.setters = {} =>
        best \in LeaveOneOut(run.ask.method, engine.read.typhoons, engine, t)
  <2> SUFFICES ASSUME engine.setters = {}
               PROVE  best \in LeaveOneOut(run.ask.method, engine.read.typhoons, engine, t)
    OBVIOUS
  <2> DEFINE own == IF t \in DOMAIN engine.table THEN engine.table[t] ELSE NoRain
  <2>1. t # Query
    BY <1>3, TyphoonsThere
  <2>2. TrackOf(r, t) = engine.read.typhoons[t] /\ OwnRain(engine, t, RainAsked(run.ask)) = own
    BY <2>1 DEF TrackOf, OwnRain
  <2> HIDE DEF own
  <2>3. AnalogsFound(r, t) = Similar(run.ask.method, engine.read.typhoons, SettingsOf(engine), t,
                                     engine.read.typhoons[t], own)
    BY <1>1, <1>2, <1>3, <2>2, AnsweredByEngine
  <2> QED
    BY <1>4, <2>3 DEF LeaveOneOut, own
<1>8. ScoredBy(r, engine)'
  BY <1>1, <1>2, <1>5, <1>6, <1>7 DEF Holding, WithEngine, ScoredBy, Noted
<1>9. TakenGood(r)'
  BY <1>5 DEF TakenGood, Rains
<1>10. RunGood(r)'
  BY <1>1, <1>2, <1>5, <1>6, <1>8, <1>9 DEF RunGood, Holding, WithEngine, SetsFirst, Setting
<1>11. \A q \in AnalogRuns : q # r => RunGood(q)'
  BY <1>1, <1>5, RunRests
<1> QED
  BY <1>1, <1>5, <1>10, <1>11, EnginesKept DEF AnalogInv

LEMMA EndingBacktest ==
  ASSUME AnalogInv, NEW r \in AnalogRuns, EndBacktest(r)
  PROVE  AnalogInv'
<1> DEFINE run == analogRun[r]
           engine == EngineOf(r)
<1>1. /\ run.ask.kind = "backtest" /\ run.step = "engine"
      /\ engines' = engines /\ fitting' = fitting /\ storedRecord' = storedRecord
      /\ analogRun' = [analogRun EXCEPT ![r].step = "done", ![r].with = engine.read,
                                        ![r].by = engine.setters]
  BY DEF EndBacktest
<1>2. Holding(r) /\ run.taken = <<>>
  BY <1>1, Holds DEF Sharing, Holding, TakenGood
<1>3. /\ DOMAIN analogRun'[r] = RunFields /\ analogRun'[r].ask = run.ask
      /\ analogRun'[r].step = "done" /\ analogRun'[r].read = run.read
      /\ analogRun'[r].found = run.found
      /\ analogRun'[r].rain = run.rain /\ analogRun'[r].taken = <<>>
      /\ analogRun'[r].with = engine.read /\ analogRun'[r].by = engine.setters
      /\ DOMAIN analogRun' = AnalogRuns /\ \A q \in AnalogRuns : q # r => analogRun'[q] = analogRun[q]
  BY <1>1, <1>2 DEF Holding, RunFields
<1>4. /\ engine.read.shape = run.read.shape
      /\ engine.setters = {} => engine = FittedEngine(run.ask.method, engine.read)
  BY <1>2 DEF Holding, EngineGood, RunKey, KeyOf
<1>5. engine.setters = {} =>
        \A t \in DOMAIN run.found :
          run.found[t] \in LeaveOneOut(run.ask.method, engine.read.typhoons, engine, t)
  BY <1>1, <1>2 DEF Holding, WithEngine, ScoredBy
<1> DEFINE fresh == FittedEngine(run.ask.method, engine.read)
<1>6. Answered(r)'
  <2>1. FittedEngine(analogRun'[r].ask.method, analogRun'[r].with) = fresh
        /\ fresh.read = engine.read
    BY <1>3 DEF FittedEngine
  <2> HIDE DEF fresh
  <2>2. engine.setters = {} => engine = fresh
    BY <1>4 DEF fresh
  <2>3. analogRun'[r].by = {} =>
          ScoredBy(r, FittedEngine(analogRun[r].ask.method, analogRun[r].with))'
    BY <1>3, <1>5, <2>1, <2>2 DEF ScoredBy
  <2> QED
    BY <1>1, <1>3, <1>4, <2>3 DEF Answered, Did
<1>7. TakenGood(r)'
  BY <1>2, <1>3 DEF Holding, TakenGood
<1>8. RunGood(r)'
  BY <1>2, <1>3, <1>6, <1>7 DEF RunGood, Holding, Sharing, Setting
<1>9. \A q \in AnalogRuns : q # r => RunGood(q)'
  BY <1>1, <1>3, RunRests
<1> QED
  BY <1>1, <1>3, <1>8, <1>9, EnginesKept DEF AnalogInv

LEMMA NextAnalogInv == AnalogInv /\ [AnalogNext]_analogVars => AnalogInv'
<1> SUFFICES ASSUME AnalogInv, [AnalogNext]_analogVars PROVE AnalogInv'
  OBVIOUS
<1>1. CASE UNCHANGED analogVars
  <2>1. \A q \in AnalogRuns : RunGood(q)'
    BY <1>1, RunRests DEF analogVars
  <2> QED
    BY <1>1, <2>1, EnginesKept DEF analogVars, AnalogInv
<1>2. ASSUME NEW data \in TyphoonRecords, EditRecord(data) PROVE AnalogInv'
  <2>1. \A q \in AnalogRuns : RunGood(q)'
    BY <1>2, RunRests DEF EditRecord
  <2> QED
    BY <1>2, <2>1, EnginesKept DEF EditRecord, AnalogInv
<1>3. ASSUME NEW r \in AnalogRuns,
             \/ ReadCatalogue(r) \/ TakeEngine(r) \/ LockEngines(r) \/ FitEngine(r)
             \/ SetUse(r) \/ SetRegion(r) \/ SetWeight(r) \/ TakeRain(r) \/ PutRain(r)
             \/ StartRanking(r) \/ RankRain(r) \/ Predict(r) \/ ScoreTyphoon(r) \/ EndBacktest(r)
      PROVE  AnalogInv'
  <2>1. CASE ReadCatalogue(r) \/ TakeEngine(r) \/ LockEngines(r) \/ FitEngine(r)
    BY <2>1, ReadingRecord, TakingEngine, LockingEngines, FittingEngine
  <2>2. CASE SetUse(r) \/ SetRegion(r) \/ SetWeight(r) \/ TakeRain(r) \/ PutRain(r)
    BY <2>2, SettingUse, SettingRegion, SettingWeight, TakingRain, PuttingRain
  <2>3. CASE StartRanking(r) \/ RankRain(r) \/ Predict(r) \/ ScoreTyphoon(r) \/ EndBacktest(r)
    BY <2>3, AskingEngine, RankingRain, Predicting, ScoringTyphoon, EndingBacktest
  <2> QED
    BY <1>3, <2>1, <2>2, <2>3
<1> QED
  BY <1>1, <1>2, <1>3 DEF AnalogNext


(* What a run has been given so far: fair answers, and winners of a vote of
   analogs.                                                                *)
Voted(typhoons, best, category) ==
  LET categories == {typhoons[u].category : u \in Range(best)}
  IN /\ category \in categories \cup {NoCategory}
     /\ category = NoCategory => categories \subseteq {NoCategory}

FairRun(r) ==
  LET run == analogRun[r]
  IN /\ DOMAIN run.found = DOMAIN run.predicted
     /\ \A t \in DOMAIN run.found :
          /\ RunKey(r) \in DOMAIN engines
          /\ FairAnswer(run.found[t], t)
          /\ Voted(EngineOf(r).read.typhoons, run.found[t], run.predicted[t])

FairInv == AnalogInv /\ \A r \in AnalogRuns : FairRun(r)

LEMMA FairKept ==
  ASSUME NEW q \in AnalogRuns, FairRun(q), DOMAIN engines \subseteq DOMAIN engines',
         \A key \in DOMAIN engines : engines'[key].read = engines[key].read,
         analogRun'[q].found = analogRun[q].found,
         analogRun'[q].predicted = analogRun[q].predicted,
         RunKey(q)' = RunKey(q) \/ DOMAIN analogRun[q].found = {}
  PROVE  FairRun(q)'
BY DEF FairRun, EngineOf

(* An answer of an engine is a fair one.                                   *)
LEMMA AnswerFair ==
  ASSUME AnalogInv, NEW r \in AnalogRuns, Ranked(r),
         NEW t \in Typhoons \cup {Query}, NEW best \in AnalogsFound(r, t)
  PROVE  FairAnswer(best, t)
<1> DEFINE run == analogRun[r]
           typhoons == EngineOf(r).read.typhoons
           used == [use |-> TRUE, weight |-> EngineOf(r).weight, table |-> run.taken]
<1>1. /\ run.step = "ranking" /\ (run.rain = NoRain \/ Untaken(r) = {}) /\ Holding(r)
      /\ TakenGood(r)
  BY Holds DEF Ranked, Sharing, Holding
<1>2. Known(typhoons)
  BY <1>1, RainTables, MatchingAssumption DEF Holding
<1>3. TableGood(run.taken)
  <2>1. CASE run.rain = NoRain
    BY <1>1, <2>1 DEF TakenGood, TableGood
  <2>2. CASE run.rain # NoRain
    <3>1. DOMAIN run.taken = Typhoons
      BY <1>1, <2>2 DEF Untaken, TakenGood
    <3>2. run.taken = <<>> \/ run.taken \in [DOMAIN run.taken -> Rains]
      BY <1>1 DEF TakenGood
    <3> QED
      BY <3>1, <3>2 DEF TableGood
  <2> QED
    BY <2>1, <2>2
<1>4. RainKnown(used.table)
  BY <1>3, TablesKnown
<1>5. run.ask.method \in Fused \cup {"coastline", "knn_optimized"}
  BY <1>1, AnalogAssumption DEF Holding
<1>6. IsTrack(TrackOf(r, t))
  <2>1. CASE t = Query
    BY <1>1, <2>1, AnalogAssumption DEF TrackOf, Holding
  <2>2. CASE t # Query
    BY <1>2, <2>2 DEF TrackOf, Known
  <2> QED
    BY <2>1, <2>2
<1>7. IsRain(run.rain)
  BY <1>1 DEF TakenGood, Rains, IsRain
<1>8. best \in Similar(run.ask.method, typhoons, used, t, TrackOf(r, t), run.rain)
  BY DEF AnalogsFound
<1> HIDE DEF run, typhoons, used
<1> QED
  BY <1>2, <1>4, <1>5, <1>6, <1>7, <1>8, SimilarFair

LEMMA PredictedFair ==
  ASSUME FairInv, NEW r \in AnalogRuns, Predict(r)
  PROVE  FairRun(r)'
<1> DEFINE run == analogRun[r]
           engine == EngineOf(r)
<1>1. /\ Ranked(r) /\ run.step = "ranking" /\ AnalogInv /\ engines' = engines
  BY DEF Predict, Ranked, FairInv
<1>2. Holding(r)
  BY <1>1, Holds DEF Sharing
<1>3. PICK best \in AnalogsFound(r, Query) :
        \E category \in Winners(engine.read.typhoons, best) :
          analogRun' = [analogRun EXCEPT ![r] =
            [@ EXCEPT !.step = "done", !.found = Noted(<<>>, Query, best),
                      !.predicted = Noted(<<>>, Query, category),
                      !.rain = NoRain, !.taken = <<>>,
                      !.with = engine.read, !.by = engine.setters]]
  BY DEF Predict
<1>4. PICK category \in Winners(engine.read.typhoons, best) :
        analogRun' = [analogRun EXCEPT ![r] =
          [@ EXCEPT !.step = "done", !.found = Noted(<<>>, Query, best),
                    !.predicted = Noted(<<>>, Query, category),
                    !.rain = NoRain, !.taken = <<>>,
                    !.with = engine.read, !.by = engine.setters]]
  BY <1>3
<1>5. /\ analogRun'[r].found = Noted(<<>>, Query, best) /\ analogRun'[r].ask = run.ask
      /\ analogRun'[r].predicted = Noted(<<>>, Query, category)
      /\ analogRun'[r].read = run.read
  BY <1>2, <1>4 DEF Holding, RunFields
<1>6. /\ DOMAIN Noted(<<>>, Query, best) = {Query} /\ Noted(<<>>, Query, best)[Query] = best
      /\ DOMAIN Noted(<<>>, Query, category) = {Query}
      /\ Noted(<<>>, Query, category)[Query] = category
  BY DEF Noted
<1>7. RunKey(r)' = RunKey(r) /\ EngineOf(r)' = engine
  BY <1>1, <1>5 DEF RunKey, EngineOf
<1>8. FairAnswer(best, Query)
  BY <1>1, <1>3, AnswerFair
<1>9. Voted(engine.read.typhoons, best, category)
  BY <1>4, WinnerVoted DEF Voted
<1>10. RunKey(r) \in DOMAIN engines
  BY <1>2 DEF Holding
<1> QED
  BY <1>1, <1>5, <1>6, <1>7, <1>8, <1>9, <1>10 DEF FairRun

LEMMA ScoredFair ==
  ASSUME FairInv, NEW r \in AnalogRuns, ScoreTyphoon(r)
  PROVE  FairRun(r)'
<1> DEFINE run == analogRun[r]
           engine == EngineOf(r)
           t == Min(Unscored(r))
<1>1. /\ Ranked(r) /\ run.step = "ranking" /\ AnalogInv /\ engines' = engines /\ FairRun(r)
      /\ run.ask.kind = "backtest"
  BY DEF ScoreTyphoon, Ranked, FairInv
<1>2. Holding(r)
  BY <1>1, Holds DEF Sharing
<1>3. t \in Typhoons
  <2>1. t = About(r)
    BY <1>1 DEF About
  <2> QED
    BY <1>1, <1>2, <2>1 DEF Holding, WithEngine, RankedBy
<1>4. PICK best \in AnalogsFound(r, t) :
        \E category \in Winners(engine.read.typhoons, best) :
          analogRun' = [analogRun EXCEPT
            ![r].step = "engine", ![r].found = Noted(@, t, best),
            ![r].predicted = Noted(@, t, category), ![r].rain = NoRain, ![r].taken = <<>>]
  BY DEF ScoreTyphoon
<1>5. PICK category \in Winners(engine.read.typhoons, best) :
        analogRun' = [analogRun EXCEPT
          ![r].step = "engine", ![r].found = Noted(@, t, best),
          ![r].predicted = Noted(@, t, category), ![r].rain = NoRain, ![r].taken = <<>>]
  BY <1>4
<1> HIDE DEF t
<1>6. /\ analogRun'[r].found = Noted(run.found, t, best) /\ analogRun'[r].ask = run.ask
      /\ analogRun'[r].predicted = Noted(run.predicted, t, category)
      /\ analogRun'[r].read = run.read
  BY <1>2, <1>5 DEF Holding, RunFields
<1>7. RunKey(r)' = RunKey(r) /\ EngineOf(r)' = engine
  BY <1>1, <1>6 DEF RunKey, EngineOf
<1>8. FairAnswer(best, t)
  BY <1>1, <1>3, <1>4, AnswerFair
<1>9. Voted(engine.read.typhoons, best, category)
  BY <1>5, WinnerVoted DEF Voted
<1>10. RunKey(r) \in DOMAIN engines
  BY <1>2 DEF Holding
<1> QED
  BY <1>1, <1>6, <1>7, <1>8, <1>9, <1>10 DEF FairRun, Noted

LEMMA NextFair == FairInv /\ [AnalogNext]_analogVars => FairInv'
<1> SUFFICES ASSUME FairInv, [AnalogNext]_analogVars PROVE FairInv'
  OBVIOUS
<1>1. AnalogInv'
  BY NextAnalogInv DEF FairInv
<1>2. DOMAIN analogRun = AnalogRuns /\ \A q \in AnalogRuns : FairRun(q) /\ RunGood(q)
  BY DEF FairInv, AnalogInv
<1>3. CASE UNCHANGED analogVars
  <2> SUFFICES ASSUME NEW q \in AnalogRuns PROVE FairRun(q)'
    BY <1>1 DEF FairInv
  <2> QED
    BY <1>2, <1>3, FairKept DEF analogVars, RunKey
<1>4. ASSUME NEW data \in TyphoonRecords, EditRecord(data) PROVE FairInv'
  <2> SUFFICES ASSUME NEW q \in AnalogRuns PROVE FairRun(q)'
    BY <1>1 DEF FairInv
  <2> QED
    BY <1>2, <1>4, FairKept DEF EditRecord, RunKey
<1>5. ASSUME NEW r \in AnalogRuns,
             \/ ReadCatalogue(r) \/ TakeEngine(r) \/ LockEngines(r) \/ FitEngine(r)
             \/ SetUse(r) \/ SetRegion(r) \/ SetWeight(r) \/ TakeRain(r) \/ PutRain(r)
             \/ StartRanking(r) \/ RankRain(r) \/ EndBacktest(r)
      PROVE  FairInv'
  <2>1. /\ DOMAIN engines \subseteq DOMAIN engines'
        /\ \A key \in DOMAIN engines : engines'[key].read = engines[key].read
    <3>1. CASE UNCHANGED engines
      BY <3>1
    <3>2. CASE FitEngine(r)
      BY <3>2 DEF FitEngine
    <3>3. CASE SetUse(r) \/ SetRegion(r) \/ SetWeight(r) \/ PutRain(r)
      <4>1. analogRun[r].step \in Sharing
        BY <3>3 DEF SetUse, SetRegion, SetWeight, PutRain, Step, Sharing, Setting
      <4>2. DOMAIN EngineOf(r) = EngineFields /\ EngineOf(r) = engines[RunKey(r)]
            /\ RunKey(r) \in DOMAIN engines
        BY <4>1, Holds DEF FairInv, Holding
      <4>3. CASE SetUse(r)
        BY <4>2, <4>3 DEF SetUse, Assign, EngineFields
      <4>4. CASE SetRegion(r)
        BY <4>2, <4>4 DEF SetRegion, Assign, EngineFields
      <4>5. CASE SetWeight(r)
        BY <4>2, <4>5 DEF SetWeight, Assign, EngineFields
      <4>6. CASE PutRain(r)
        BY <4>2, <4>6 DEF PutRain, Assign, EngineFields
      <4> QED
        BY <3>3, <4>3, <4>4, <4>5, <4>6
    <3> QED
      BY <1>5, <3>1, <3>2, <3>3 DEF ReadCatalogue, TakeEngine, LockEngines, TakeRain, StartRanking,
                                    RankRain, EndBacktest
  <2> SUFFICES ASSUME NEW q \in AnalogRuns PROVE FairRun(q)'
    BY <1>1 DEF FairInv
  <2>2. /\ analogRun'[q].found = analogRun[q].found
        /\ analogRun'[q].predicted = analogRun[q].predicted
        /\ RunKey(q)' = RunKey(q) \/ DOMAIN analogRun[q].found = {}
    <3>1. CASE q # r
      <4>1. analogRun'[q] = analogRun[q]
        BY <1>2, <1>5, <3>1 DEF ReadCatalogue, TakeEngine, LockEngines, FitEngine, SetUse,
             SetRegion, SetWeight, TakeRain, PutRain, StartRanking, RankRain, EndBacktest, Step
      <4> QED
        BY <4>1 DEF RunKey
    <3>2. CASE q = r /\ ReadCatalogue(r)
      BY <1>2, <3>2 DEF ReadCatalogue, RunGood, RunFields
    <3>3. CASE q = r /\ ~ ReadCatalogue(r)
      <4>1. DOMAIN analogRun[r] = RunFields /\ DOMAIN analogRun = AnalogRuns
        BY <1>2 DEF RunGood
      <4>2. CASE \E step : analogRun' = [analogRun EXCEPT ![r].step = step]
        BY <3>3, <4>1, <4>2 DEF RunKey, RunFields
      <4>3. CASE TakeRain(r) \/ RankRain(r)
        <5>1. \E more : analogRun' = [analogRun EXCEPT ![r].taken = more]
          BY <4>3 DEF TakeRain, RankRain
        <5> QED
          BY <3>3, <4>1, <5>1 DEF RunKey, RunFields
      <4>4. CASE PutRain(r)
        BY <3>3, <4>1, <4>4 DEF PutRain, RunKey, RunFields
      <4>5. CASE StartRanking(r)
        <5>1. \/ analogRun' = [analogRun EXCEPT ![r].step = "failed"]
              \/ \E rain : analogRun' = [analogRun EXCEPT ![r].step = "ranking", ![r].rain = rain]
          BY <4>5 DEF StartRanking
        <5> QED
          BY <3>3, <4>1, <5>1 DEF RunKey, RunFields
      <4>6. CASE EndBacktest(r)
        BY <3>3, <4>1, <4>6 DEF EndBacktest, RunKey, RunFields
      <4>7. TakeEngine(r) \/ LockEngines(r) \/ FitEngine(r) \/ SetUse(r) \/ SetRegion(r) \/ SetWeight(r)
              => \E step : analogRun' = [analogRun EXCEPT ![r].step = step]
        BY DEF TakeEngine, LockEngines, FitEngine, SetUse, SetRegion, SetWeight, Step
      <4> QED
        BY <1>5, <3>3, <4>2, <4>3, <4>4, <4>5, <4>6, <4>7
    <3> QED
      BY <3>1, <3>2, <3>3
  <2> QED
    BY <1>2, <2>1, <2>2, FairKept
<1>6. ASSUME NEW r \in AnalogRuns, Predict(r) \/ ScoreTyphoon(r) PROVE FairInv'
  <2>1. FairRun(r)'
    BY <1>6, PredictedFair, ScoredFair
  <2>2. ASSUME NEW q \in AnalogRuns, q # r PROVE FairRun(q)'
    <3>1. analogRun'[q] = analogRun[q] /\ engines' = engines
      BY <1>2, <1>6, <2>2 DEF Predict, ScoreTyphoon
    <3> QED
      BY <1>2, <3>1, FairKept DEF RunKey
  <2> QED
    BY <1>1, <2>1, <2>2 DEF FairInv
<1> QED
  BY <1>3, <1>4, <1>5, <1>6 DEF AnalogNext

LEMMA InitFair == AnalogInit => FairInv
<1> SUFFICES ASSUME AnalogInit PROVE \A r \in AnalogRuns : FairRun(r)
  BY InitAnalogInv DEF FairInv
<1>1. \A r \in AnalogRuns : analogRun[r].found = <<>> /\ analogRun[r].predicted = <<>>
  BY DEF AnalogInit
<1> QED
  BY <1>1 DEF FairRun

(* Whatever runs ask, and whoever sets or fits an engine meanwhile, the
   engines and what was found with them stay as described.                 *)
THEOREM AnalogInvariance == AnalogSpec => []FairInv
BY InitFair, NextFair, PTL DEF AnalogSpec

(* However runs interleave, an engine is found under the key of the record
   it was fitted on, and whoever fits holds the lock alone.                *)
THEOREM OneEngineEachHolds == AnalogSpec => []OneEngineEach
<1>1. FairInv => OneEngineEach
  BY DEF FairInv, AnalogInv, EngineGood, RunGood, OneEngineEach
<1> QED
  BY <1>1, AnalogInvariance, PTL

(* A prediction from an engine to which no other assigned anything after it
   began to set it, fitted on the record that was handed over, is the one an
   engine of its own makes, whatever earlier predictions left behind.      *)
THEOREM AnswersAsIfAloneHolds ==
  AnalogSpec => [](\A r \in AnalogRuns : AnswersAsIfAlone(r))
<1>1. FairInv => \A r \in AnalogRuns : AnswersAsIfAlone(r)
  <2> SUFFICES ASSUME FairInv, NEW r \in AnalogRuns PROVE AnswersAsIfAlone(r)
    OBVIOUS
  <2>1. analogRun[r].step = "done" => Answered(r)
    BY DEF FairInv, AnalogInv, RunGood
  <2>2. CASE Did("predict", r)
    BY <2>1, <2>2 DEF Answered, Did
  <2>3. CASE ~ Did("predict", r)
    BY <2>1, <2>3 DEF Answered, AnswersAsIfAlone, Did
  <2> QED
    BY <2>2, <2>3
<1> QED
  BY <1>1, AnalogInvariance, PTL

(* A backtest of an engine nobody has set is of the method as it is built,
   and no typhoon is given itself as an answer.                            *)
THEOREM ScoresTheMethodHolds ==
  AnalogSpec => [](\A r \in AnalogRuns : ScoresTheMethod(r))
<1>1. FairInv => \A r \in AnalogRuns : ScoresTheMethod(r)
  <2> SUFFICES ASSUME FairInv, NEW r \in AnalogRuns PROVE ScoresTheMethod(r)
    OBVIOUS
  <2> DEFINE run == analogRun[r]
             made == FittedEngine(run.ask.method, run.with)
  <2>1. \A t \in DOMAIN run.found : t \notin Range(run.found[t])
    BY DEF FairInv, FairRun, FairAnswer
  <2>2. Did("backtest", r) /\ run.by = {} => ScoredBy(r, made)
    BY DEF FairInv, AnalogInv, RunGood, Answered, Did
  <2>3. made.setters = {} /\ made.read = run.with
    BY DEF FittedEngine
  <2> HIDE DEF made
  <2>4. Did("backtest", r) /\ run.by = {} =>
          \A t \in DOMAIN run.found :
            run.found[t] \in LeaveOneOut(run.ask.method, run.with.typhoons, made, t)
    BY <2>2, <2>3 DEF ScoredBy
  <2> QED
    BY <2>1, <2>4 DEF ScoresTheMethod, made
<1> QED
  BY <1>1, AnalogInvariance, PTL

(* Analogs are of the record, each once, no more than asked for; the
   category that wins is that of one of them, or none when none has any.   *)
THEOREM AnalogsOfRecordHolds ==
  AnalogSpec => [](\A r \in AnalogRuns : AnalogsOfRecord(r))
<1>1. FairInv => \A r \in AnalogRuns : AnalogsOfRecord(r)
  <2> SUFFICES ASSUME FairInv, NEW r \in AnalogRuns, NEW t \in DOMAIN analogRun[r].found
               PROVE  LET best == analogRun[r].found[t]
                          categories == {EngineOf(r).read.typhoons[u].category : u \in Range(best)}
                      IN /\ IsInjective(best) /\ Len(best) <= Analogs /\ Range(best) \subseteq Typhoons
                         /\ analogRun[r].predicted[t] \in categories \cup {NoCategory}
                         /\ analogRun[r].predicted[t] = NoCategory => categories \subseteq {NoCategory}
    BY DEF AnalogsOfRecord
  <2>1. /\ FairAnswer(analogRun[r].found[t], t)
        /\ Voted(EngineOf(r).read.typhoons, analogRun[r].found[t], analogRun[r].predicted[t])
    BY DEF FairInv, FairRun
  <2> QED
    BY <2>1, Zenon DEF FairAnswer, Voted
<1> QED
  BY <1>1, AnalogInvariance, PTL
=============================================================================
