---------------------------- MODULE VersionStore ----------------------------
(***************************************************************************)
(* One versioned thing (a dataset or a model): its row with the working    *)
(* definition and the current version, the immutable versions appended to  *)
(* it, and the objects the versions' bytes are stored in.                  *)
(*                                                                         *)
(* Each session publishes (publish_version, _materialise), edits (update)  *)
(* or deletes.  The bytes are stored before any row is written and removed *)
(* before the rows are; the unique (holder, version) constraint is what    *)
(* makes concurrent publishers safe.                                       *)
(***************************************************************************)
EXTENDS Integers, FiniteSets, FiniteSetsExt

CONSTANTS Publishers,    \* sessions: requests and workers
          Contents,      \* working definitions
          NoPublisher,
          MaxPublished   \* bound: publishes begun

ASSUME VersionConstants == NoPublisher \notin Publishers /\ MaxPublished \in Nat \ {0}

VARIABLES
  holder,      \* the committed row: alive, definition, current version's id
  versions,    \* committed versions
  objects,     \* ids whose bytes are in the object store
  versionPc,   \* where each session is
  entity,      \* the entity it read
  inserted,    \* the version it has inserted or is about to
  written,     \* the columns its UPDATE will write
  holderLock,  \* the session whose open transaction has written the row
  published,   \* ids handed out so far
  deleting,    \* a delete was begun at some time
  overlap      \* two sessions were at work at once at some time

versionVars == <<holder, versions, objects, versionPc, entity, inserted,
                 written, holderLock, published, deleting, overlap>>

Nothing == 0
VersionId == 0..MaxPublished
Holder == [alive: BOOLEAN, definition: Contents, current: VersionId]
Version == [id: VersionId, number: Nat, snapshot: Contents]
SomeContent == CHOOSE d \in Contents : TRUE
NoEntity == [alive |-> FALSE, definition |-> SomeContent, current |-> Nothing]
NoVersion == [id |-> Nothing, number |-> 0, snapshot |-> SomeContent]

VersionTypeOK ==
  /\ holder \in Holder
  /\ versions \subseteq Version
  /\ objects \subseteq VersionId
  /\ versionPc \in [Publishers -> {"idle", "publish", "stored", "inserted", "edit",
                                   "update", "flushed", "remove", "removed"}]
  /\ entity \in [Publishers -> Holder]
  /\ inserted \in [Publishers -> Version]
  /\ written \in [Publishers -> SUBSET {"definition", "current"}]
  /\ holderLock \in Publishers \cup {NoPublisher}
  /\ published \in VersionId
  /\ deleting \in BOOLEAN /\ overlap \in BOOLEAN

-----------------------------------------------------------------------------
(* Helpers.                                                                *)

Numbers == {v.number : v \in versions}
LatestNumber == Max({0} \cup Numbers)
LatestVersion == CHOOSE v \in versions : v.number = LatestNumber
AtWork == {s \in Publishers : versionPc[s] # "idle"}
At(s, pc) == versionPc[s] = pc
Goto(s, pc) == versionPc' = [versionPc EXCEPT ![s] = pc]
Leave(s) ==
  /\ Goto(s, "idle")
  /\ entity' = [entity EXCEPT ![s] = NoEntity]
  /\ inserted' = [inserted EXCEPT ![s] = NoVersion]
  /\ written' = [written EXCEPT ![s] = {}]
RowFree(s) == holderLock \in {NoPublisher, s}

\* Versions other sessions have inserted and not committed.
InFlight(s) == {inserted[t] : t \in {t \in Publishers \ {s} :
                  inserted[t].id # Nothing
                  /\ versionPc[t] \in {"inserted", "update", "flushed"}}}

ChangedColumns(old, row) ==
  {c \in {"definition", "current"} : old[c] # row[c]}

Apply(row, columns, new) ==
  [row EXCEPT !.definition = IF "definition" \in columns THEN new.definition ELSE @,
              !.current = IF "current" \in columns THEN new.current ELSE @]

VersionInit ==
  /\ holder \in [alive: {TRUE}, definition: Contents, current: {1}]
  /\ versions = {[id |-> 1, number |-> 1, snapshot |-> holder.definition]}
  /\ objects = {1}
  /\ versionPc = [s \in Publishers |-> "idle"]
  /\ entity = [s \in Publishers |-> NoEntity]
  /\ inserted = [s \in Publishers |-> NoVersion]
  /\ written = [s \in Publishers |-> {}]
  /\ holderLock = NoPublisher
  /\ published = 1
  /\ deleting = FALSE /\ overlap = FALSE

-----------------------------------------------------------------------------
\* Any of the operations begins by reading the row; an edit changes what it read.
ReadHolder(s, pc, definition) ==
  /\ At(s, "idle") /\ holder.alive
  /\ Goto(s, pc)
  /\ entity' = [entity EXCEPT ![s] = [holder EXCEPT !.definition = definition]]
  /\ overlap' = (overlap \/ AtWork # {})
  /\ UNCHANGED <<holder, versions, inserted, written, holderLock>>

BeginPublish(s) ==
  /\ published < MaxPublished
  /\ ReadHolder(s, "publish", holder.definition)
  /\ UNCHANGED <<objects, published, deleting>>

BeginEdit(s) ==
  /\ \E d \in Contents \ {holder.definition} : ReadHolder(s, "edit", d)
  /\ UNCHANGED <<objects, published, deleting>>

\* A delete removes the objects of the versions it lists before any row.
BeginDelete(s) ==
  /\ ReadHolder(s, "remove", holder.definition)
  /\ objects' = objects \ {v.id : v \in versions}
  /\ deleting' = TRUE
  /\ UNCHANGED published

\* Mutated: the row points at the version before it is there.
StoreAndPoint(s) ==
  /\ At(s, "publish") /\ published < MaxPublished
  /\ published' = published + 1
  /\ objects' = objects \cup {published'}
  /\ inserted' = [inserted EXCEPT ![s] =
       [id |-> published', number |-> LatestNumber + 1,
        snapshot |-> entity[s].definition]]
  /\ holder' = [holder EXCEPT !.current = published']
  /\ Goto(s, "stored")
  /\ UNCHANGED <<versions, entity, written, holderLock, deleting, overlap>>

\* The next number is read, and the bytes stored under an id of their own.
StoreObject(s) ==
  /\ At(s, "publish") /\ published < MaxPublished
  /\ published' = published + 1
  /\ objects' = objects \cup {published'}
  /\ inserted' = [inserted EXCEPT ![s] =
       [id |-> published', number |-> LatestNumber + 1,
        snapshot |-> entity[s].definition]]
  /\ Goto(s, "stored")
  /\ UNCHANGED <<holder, versions, entity, written, holderLock, deleting, overlap>>

\* The INSERT waits for another one with its number and for a DELETE of the
\* row; a number taken or a row gone fails it, and the object stays behind.
\* Mutated: without the unique constraint.
NumberFreeUnchecked(s) == TRUE

NumberFree(s) == inserted[s].number \notin Numbers

InsertVersion(s) ==
  /\ At(s, "stored")
  /\ \A v \in InFlight(s) : v.number # inserted[s].number
  /\ \A t \in Publishers : ~ At(t, "removed")
  /\ IF NumberFree(s) /\ holder.alive
     THEN Goto(s, "inserted") /\ UNCHANGED <<entity, inserted, written>>
     ELSE Leave(s)
  /\ UNCHANGED <<holder, versions, objects, holderLock, published, deleting, overlap>>

\* `update` reads the row again and will write the columns that differ from
\* the entity, which now points at the new version.  An edit of a row that is
\* gone does nothing.
Reloaded(s) == IF At(s, "inserted")
               THEN [entity[s] EXCEPT !.current = inserted[s].id] ELSE entity[s]

RereadHolder(s) ==
  /\ versionPc[s] \in {"inserted", "edit"}
  /\ IF holder.alive
     THEN /\ entity' = [entity EXCEPT ![s] = Reloaded(s)]
          /\ written' = [written EXCEPT ![s] = ChangedColumns(Reloaded(s), holder)]
          /\ Goto(s, "update")
          /\ UNCHANGED inserted
     ELSE Leave(s)
  /\ UNCHANGED <<holder, versions, objects, holderLock, published, deleting, overlap>>

\* The UPDATE, or the DELETE, waits for the row's lock; a DELETE also for the
\* versions inserted under the row.
FlushUpdate(s) ==
  /\ At(s, "update") /\ RowFree(s)
  /\ holderLock' = s
  /\ Goto(s, "flushed")
  /\ UNCHANGED <<holder, versions, objects, entity, inserted, written,
                 published, deleting, overlap>>

FlushDelete(s) ==
  /\ At(s, "remove") /\ RowFree(s) /\ InFlight(s) = {}
  /\ holderLock' = s
  /\ Goto(s, "removed")
  /\ UNCHANGED <<holder, versions, objects, entity, inserted, written,
                 published, deleting, overlap>>

CommitChange(s) ==
  /\ At(s, "flushed") \/ At(s, "removed")
  /\ IF At(s, "flushed")
     THEN /\ holder' = Apply(holder, written[s], entity[s])
          /\ versions' = versions \cup ({inserted[s]} \ {NoVersion})
     ELSE /\ holder' = [holder EXCEPT !.alive = FALSE]
          /\ versions' = {}
  /\ holderLock' = NoPublisher
  /\ Leave(s)
  /\ UNCHANGED <<objects, published, deleting, overlap>>

\* The process dies or a later step of the same transaction fails.
AbandonChange(s) ==
  /\ versionPc[s] # "idle"
  /\ holderLock' = IF holderLock = s THEN NoPublisher ELSE holderLock
  /\ Leave(s)
  /\ UNCHANGED <<holder, versions, objects, published, deleting, overlap>>

VersionNext ==
  \E s \in Publishers :
    \/ BeginPublish(s) \/ BeginEdit(s) \/ BeginDelete(s)
    \/ StoreObject(s) \/ InsertVersion(s) \/ RereadHolder(s)
    \/ FlushUpdate(s) \/ FlushDelete(s) \/ CommitChange(s) \/ AbandonChange(s)

VersionSpec == VersionInit /\ [][VersionNext]_versionVars

-----------------------------------------------------------------------------
(* Properties.                                                             *)

\* Versions are numbered 1..n without a gap or a repeat, however publishers
\* interleave: the number is read long before the row is inserted
\* (next_version_number, uq_dataset_version, uq_model_version).  The newest is
\* the current one, unless sessions overlapped.
NumbersRunOn ==
  /\ Numbers = 1..Cardinality(versions)
  /\ \A v, w \in versions : v.number = w.number => v = w
  /\ holder.alive /\ ~ overlap => holder.current = LatestVersion.id

\* The current version is one that exists, and every version on record can be
\* read back, except while a delete that may still fail has removed the bytes
\* already (_materialise, delete).
VersionsReadable ==
  /\ holder.alive => \E v \in versions : v.id = holder.current
  /\ deleting \/ \A v \in versions : v.id \in objects
=============================================================================
