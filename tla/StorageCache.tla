----------------------------- MODULE StorageCache ---------------------------
(***************************************************************************)
(* One object of the S3 store (shared/s3_storage.py) and the copies that   *)
(* processes keep of it on disk.  A copy is named by the ETag of what it   *)
(* is a copy of; rewriting or deleting the object clears the copies in the *)
(* writer's own directory.  Processes may have a directory each or share   *)
(* one (the storage volume of docker-compose.yml); the lock is each        *)
(* process's own.                                                          *)
(***************************************************************************)
EXTENDS Integers, FiniteSets, Functions

CONSTANTS Contents,      \* what the object may hold; an ETag stands for each
          Gone,          \* there is no object, no copy
          CacheThreads,
          ProcessOf,     \* the process of each thread
          MaxCalls       \* calls of the store

ASSUME StorageAssumption == /\ Gone \notin Contents /\ Gone \notin CacheThreads
                            /\ DOMAIN ProcessOf = CacheThreads
                            /\ MaxCalls \in Nat

VARIABLES blob,          \* the object
          copies,        \* the copies in each directory, by name
          partials,      \* downloads that have not their name yet
          cacheDir,      \* the directory of each process
          cacheLock,     \* who holds the lock of each process
          reader,        \* what each thread is doing
          calls,
          overtaken      \* the object changed between a look and its download

storageVars == <<blob, copies, partials, cacheDir, cacheLock, reader, calls, overtaken>>

Processes == Range(ProcessOf)
CacheDirs == Processes
NoCopies == [name \in Contents |-> Gone]
Idle == [step |-> "idle", etag |-> Gone, got |-> Gone, held |-> {}, cleared |-> FALSE]

StorageInit ==
  /\ blob \in Contents
  /\ copies = [d \in CacheDirs |-> NoCopies]
  /\ partials = [d \in CacheDirs |-> NoCopies]
  /\ cacheDir \in [Processes -> CacheDirs]
  /\ cacheLock = [p \in Processes |-> Gone]
  /\ reader = [t \in CacheThreads |-> Idle]
  /\ calls = 0 /\ overtaken = FALSE

DirOf(t) == cacheDir[ProcessOf[t]]
At(t, step) == reader[t].step = step

\* Mutated: a copy is named by the object alone.
NamedByKey(etag) == CHOOSE name \in Contents : TRUE

\* _cache_path
CacheName(etag) == etag

Unlock(t) == cacheLock' = [cacheLock EXCEPT ![ProcessOf[t]] = Gone]

\* local_path, under the lock: the object is looked at, and a copy of what it
\* holds is used if there is one.
Look(t) ==
  /\ At(t, "idle") /\ calls < MaxCalls
  /\ cacheLock[ProcessOf[t]] = Gone
  /\ calls' = calls + 1
  /\ LET found == blob # Gone /\ copies[DirOf(t)][CacheName(blob)] # Gone
     IN /\ reader' = [reader EXCEPT ![t] =
             [Idle EXCEPT !.step = IF blob = Gone THEN "refused"
                                   ELSE IF found THEN "has" ELSE "looked",
                          !.etag = blob, !.held = {blob}]]
        /\ IF blob = Gone \/ found THEN UNCHANGED cacheLock
           ELSE cacheLock' = [cacheLock EXCEPT ![ProcessOf[t]] = t]
  /\ UNCHANGED <<blob, copies, partials, cacheDir, overtaken>>

\* What it holds by now is downloaded ...
Download(t) ==
  /\ At(t, "looked")
  /\ IF blob = Gone
     THEN /\ reader' = [reader EXCEPT ![t].step = "refused"] /\ Unlock(t) /\ UNCHANGED partials
     ELSE /\ reader' = [reader EXCEPT ![t].step = "downloaded"] /\ UNCHANGED cacheLock
          /\ partials' = [partials EXCEPT ![DirOf(t)][CacheName(reader[t].etag)] = blob]
  /\ UNCHANGED <<blob, copies, cacheDir, calls, overtaken>>

\* ... and the download renamed, unless it is no longer there.
NameCopy(t) ==
  LET name == CacheName(reader[t].etag)
      there == partials[DirOf(t)][name] # Gone
  IN /\ At(t, "downloaded")
     /\ Unlock(t)
     /\ reader' = [reader EXCEPT ![t].step = IF there THEN "has" ELSE "lost"]
     /\ copies' = IF there THEN [copies EXCEPT ![DirOf(t)][name] = partials[DirOf(t)][name]]
                  ELSE copies
     /\ partials' = [partials EXCEPT ![DirOf(t)][name] = Gone]
     /\ UNCHANGED <<blob, cacheDir, calls, overtaken>>

\* The caller opens the path it was given.
OpenCopy(t) ==
  LET copy == copies[DirOf(t)][CacheName(reader[t].etag)]
  IN /\ At(t, "has")
     /\ reader' = [reader EXCEPT ![t].step = IF copy = Gone THEN "missing" ELSE "read",
                                 ![t].got = copy]
     /\ UNCHANGED <<blob, copies, partials, cacheDir, cacheLock, calls, overtaken>>

\* put_bytes, put_file, delete: the object first, without the lock ...
Rewrite(t, content) ==
  /\ At(t, "idle") /\ calls < MaxCalls
  /\ calls' = calls + 1
  /\ blob' = content
  /\ overtaken' = (overtaken \/ \E u \in CacheThreads : At(u, "looked"))
  /\ reader' = [u \in CacheThreads |->
       IF u = t THEN [reader[t] EXCEPT !.step = "rewrote"]
       ELSE [reader[u] EXCEPT !.held = IF reader[u].step \in {"looked", "downloaded", "has"}
                                       THEN @ \cup {content} ELSE @]]
  /\ UNCHANGED <<copies, partials, cacheDir, cacheLock>>

\* ... then every copy in the writer's directory (_invalidate).
Invalidate(t) ==
  /\ At(t, "rewrote")
  /\ copies' = [copies EXCEPT ![DirOf(t)] = NoCopies]
  /\ partials' = [partials EXCEPT ![DirOf(t)] = NoCopies]
  /\ reader' = [u \in CacheThreads |->
       IF u = t THEN Idle
       ELSE [reader[u] EXCEPT !.cleared =
               @ \/ (DirOf(u) = DirOf(t) /\ reader[u].step \in {"downloaded", "has"})]]
  /\ UNCHANGED <<blob, cacheDir, cacheLock, calls, overtaken>>

\* A call has ended.
Return(t) ==
  /\ reader[t].step \in {"read", "missing", "lost", "refused"}
  /\ reader' = [reader EXCEPT ![t] = Idle]
  /\ UNCHANGED <<blob, copies, partials, cacheDir, cacheLock, calls, overtaken>>

StorageNext ==
  \E t \in CacheThreads :
    \/ Look(t) \/ Download(t) \/ NameCopy(t) \/ OpenCopy(t) \/ Invalidate(t) \/ Return(t)
    \/ \E content \in Contents \cup {Gone} : Rewrite(t, content)

StorageSpec == StorageInit /\ [][StorageNext]_storageVars

-----------------------------------------------------------------------------
StorageTypeOK ==
  /\ blob \in Contents \cup {Gone}
  /\ copies \in [CacheDirs -> [Contents -> Contents \cup {Gone}]]
  /\ partials \in [CacheDirs -> [Contents -> Contents \cup {Gone}]]
  /\ cacheDir \in [Processes -> CacheDirs]
  /\ cacheLock \in [Processes -> CacheThreads \cup {Gone}]
  /\ calls \in 0 .. MaxCalls /\ overtaken \in BOOLEAN
  /\ reader \in [CacheThreads ->
       [step : {"idle", "looked", "downloaded", "has", "read", "missing", "lost", "refused",
                "rewrote"},
        etag : Contents \cup {Gone}, got : Contents \cup {Gone},
        held : SUBSET (Contents \cup {Gone}), cleared : BOOLEAN]]

\* A file read through the cache is what the object held at some moment since
\* it was asked for, whoever rewrote it and wherever their copies are: as long
\* as no rewrite fell between a look and its download, which leaves a copy of
\* one content under the name of another.
ReadsWhatWas ==
  \A t \in CacheThreads : At(t, "read") => reader[t].got \in reader[t].held \/ overtaken

CopiesWellNamed ==
  overtaken \/ \A d \in CacheDirs, name \in Contents : copies[d][name] \in {Gone, name}

\* A reader is left without its file only when somebody cleared the directory
\* meanwhile, or when another process that shares it renamed the same download.
LostForAReason ==
  \A t \in CacheThreads :
    /\ At(t, "missing") => reader[t].cleared
    /\ At(t, "lost") =>
         \/ reader[t].cleared
         \/ \E p \in Processes \ {ProcessOf[t]} : cacheDir[p] = DirOf(t)

\* One thread of a process downloads at a time.
OneDownload ==
  \A t \in CacheThreads :
    reader[t].step \in {"looked", "downloaded"} => cacheLock[ProcessOf[t]] = t

CacheServes == ReadsWhatWas /\ CopiesWellNamed /\ LostForAReason /\ OneDownload
=============================================================================
