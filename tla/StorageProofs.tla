----------------------------- MODULE StorageProofs -----------------------------
(***************************************************************************)
(* What is stored can be read: what the copies of StorageCache guarantee   *)
(* for any number of processes, threads, directories and contents, and     *)
(* what the rows of Catalogue name for any number of them.                 *)
(***************************************************************************)
EXTENDS StorageCache, Catalogue, FiniteSetTheorems, TLAPS

(* A thread has a process, and its process a directory. *)
LEMMA ThreadPlaces ==
  ASSUME NEW t \in CacheThreads
  PROVE  /\ ProcessOf[t] \in Processes
         /\ cacheDir \in [Processes -> CacheDirs] => DirOf(t) \in CacheDirs
  BY StorageAssumption DEF Processes, CacheDirs, DirOf, Range

(* What one thread's record may be. *)
ReaderType ==
  [step : {"idle", "looked", "downloaded", "has", "read", "missing", "lost", "refused",
           "rewrote"},
   etag : Contents \cup {Gone}, got : Contents \cup {Gone},
   held : SUBSET (Contents \cup {Gone}), cleared : BOOLEAN]

(* Who has looked for something, until it is opened, looked for a content the
   object held then. *)
AsksForSomething ==
  \A t \in CacheThreads :
    reader[t].step \in {"looked", "downloaded", "has"} =>
      reader[t].etag \in Contents /\ reader[t].etag \in reader[t].held

CopiesType == [CacheDirs -> [Contents -> Contents \cup {Gone}]]

(* Every variable has its type at the start, and every step keeps it. *)
LEMMA StorageTypeInit == StorageInit => StorageTypeOK
<1> SUFFICES ASSUME StorageInit PROVE StorageTypeOK
  OBVIOUS
<1> USE StorageAssumption DEF StorageInit
<1>1. reader \in [CacheThreads -> ReaderType]
  BY DEF Idle, ReaderType
<1>2. copies \in CopiesType /\ partials \in CopiesType
  BY DEF NoCopies, CopiesType
<1>3. cacheLock \in [Processes -> CacheThreads \cup {Gone}]
  OBVIOUS
<1>4. calls \in 0 .. MaxCalls
  OBVIOUS
<1>5. overtaken \in BOOLEAN /\ blob \in Contents \cup {Gone}
      /\ cacheDir \in [Processes -> CacheDirs]
  OBVIOUS
<1> QED
  BY <1>1, <1>2, <1>3, <1>4, <1>5 DEF StorageTypeOK, ReaderType, CopiesType

LEMMA StorageTypeNext ==
  StorageTypeOK /\ AsksForSomething /\ [StorageNext]_storageVars => StorageTypeOK'
<1> SUFFICES ASSUME StorageTypeOK, AsksForSomething, [StorageNext]_storageVars
             PROVE  StorageTypeOK'
  OBVIOUS
<1> USE StorageAssumption, ThreadPlaces
<1>0. /\ reader \in [CacheThreads -> ReaderType]
      /\ copies \in CopiesType /\ partials \in CopiesType
  BY DEF StorageTypeOK, ReaderType, CopiesType
<1> USE DEF CacheName
<1>1. ASSUME NEW t \in CacheThreads, Look(t) PROVE StorageTypeOK'
  <2>1. reader' \in [CacheThreads -> ReaderType]
    <3>1. PICK step \in {"refused", "has", "looked"} :
            reader' = [reader EXCEPT ![t] =
                        [Idle EXCEPT !.step = step, !.etag = blob, !.held = {blob}]]
      BY <1>1 DEF Look
    <3>2. [Idle EXCEPT !.step = step, !.etag = blob, !.held = {blob}] \in ReaderType
      BY DEF Idle, ReaderType, StorageTypeOK
    <3> QED
      BY <1>0, <3>1, <3>2
  <2>2. cacheLock' \in [Processes -> CacheThreads \cup {Gone}]
    <3>1. cacheLock' = cacheLock \/ cacheLock' = [cacheLock EXCEPT ![ProcessOf[t]] = t]
      BY <1>1 DEF Look
    <3> QED
      BY <3>1 DEF StorageTypeOK
  <2>3. calls' \in 0 .. MaxCalls
    BY <1>1 DEF Look, StorageTypeOK
  <2> QED
    BY <1>1, <2>1, <2>2, <2>3 DEF Look, StorageTypeOK, ReaderType, CopiesType
<1>2. ASSUME NEW t \in CacheThreads, Download(t) PROVE StorageTypeOK'
  <2>1. reader' \in [CacheThreads -> ReaderType]
    BY <1>0, <1>2 DEF Download, ReaderType
  <2>2. cacheLock' \in [Processes -> CacheThreads \cup {Gone}]
    BY <1>2 DEF Download, StorageTypeOK, Unlock
  <2>3. partials' \in CopiesType
    <3>1. \/ partials' = partials
          \/ partials' = [partials EXCEPT ![DirOf(t)] =
                            [partials[DirOf(t)] EXCEPT ![reader[t].etag] = blob]]
      BY <1>2 DEF Download
    <3>2. DirOf(t) \in CacheDirs /\ blob \in Contents \cup {Gone}
      BY DEF StorageTypeOK
    <3> QED
      BY <1>0, <3>1, <3>2 DEF CopiesType
  <2> QED
    BY <1>2, <2>1, <2>2, <2>3 DEF Download, StorageTypeOK, ReaderType, CopiesType
<1>3. ASSUME NEW t \in CacheThreads, NameCopy(t) PROVE StorageTypeOK'
  <2>1. reader' \in [CacheThreads -> ReaderType]
    BY <1>0, <1>3 DEF NameCopy, ReaderType
  <2>2. cacheLock' \in [Processes -> CacheThreads \cup {Gone}]
    BY <1>3 DEF NameCopy, StorageTypeOK, Unlock
  <2>3. partials' \in CopiesType
    <3>1. partials' = [partials EXCEPT ![DirOf(t)] =
                        [partials[DirOf(t)] EXCEPT ![reader[t].etag] = Gone]]
      BY <1>3 DEF NameCopy
    <3>2. DirOf(t) \in CacheDirs
      BY DEF StorageTypeOK
    <3> QED
      BY <1>0, <3>1, <3>2 DEF CopiesType
  <2>4. copies' \in CopiesType
    <3> DEFINE name == reader[t].etag
               downloaded == partials[DirOf(t)][name]
    <3>1. \/ copies' = copies
          \/ copies' = [copies EXCEPT ![DirOf(t)] = [copies[DirOf(t)] EXCEPT ![name] = downloaded]]
      BY <1>3 DEF NameCopy
    <3>2. DirOf(t) \in CacheDirs
      BY DEF StorageTypeOK
    <3>3. name \in Contents
      BY <1>3 DEF AsksForSomething, NameCopy, At
    <3>4. downloaded \in Contents \cup {Gone}
      BY <1>0, <3>2, <3>3 DEF CopiesType
    <3>5. [copies[DirOf(t)] EXCEPT ![name] = downloaded] \in [Contents -> Contents \cup {Gone}]
      BY <1>0, <3>2, <3>4 DEF CopiesType
    <3> QED
      BY <1>0, <3>1, <3>5 DEF CopiesType
  <2> QED
    BY <1>3, <2>1, <2>2, <2>3, <2>4 DEF NameCopy, StorageTypeOK, ReaderType, CopiesType
<1>4. ASSUME NEW t \in CacheThreads, OpenCopy(t) PROVE StorageTypeOK'
  <2>1. reader' \in [CacheThreads -> ReaderType]
    <3> DEFINE copy == copies[DirOf(t)][reader[t].etag]
    <3>1. reader[t].etag \in Contents
      BY <1>4 DEF AsksForSomething, OpenCopy, At
    <3>2. DirOf(t) \in CacheDirs
      BY DEF StorageTypeOK
    <3>3. copy \in Contents \cup {Gone}
      BY <1>0, <3>1, <3>2 DEF CopiesType
    <3>4. reader' = [reader EXCEPT ![t] = [reader[t] EXCEPT
                         !.step = IF copy = Gone THEN "missing" ELSE "read", !.got = copy]]
      BY <1>0, <1>4 DEF OpenCopy
    <3>5. [reader[t] EXCEPT !.step = IF copy = Gone THEN "missing" ELSE "read", !.got = copy]
            \in ReaderType
      <4> HIDE DEF copy
      <4> QED
        BY <1>0, <3>3 DEF ReaderType
    <3> QED
      BY <1>0, <3>4, <3>5
  <2> QED
    BY <1>4, <2>1 DEF OpenCopy, StorageTypeOK, ReaderType, CopiesType
<1>5. ASSUME NEW t \in CacheThreads, NEW content \in Contents \cup {Gone}, Rewrite(t, content)
      PROVE  StorageTypeOK'
  <2>1. reader' \in [CacheThreads -> ReaderType]
    BY <1>0, <1>5 DEF Rewrite, ReaderType
  <2>2. overtaken' \in BOOLEAN
    BY <1>5 DEF Rewrite, StorageTypeOK
  <2>3. calls' \in 0 .. MaxCalls
    BY <1>5 DEF Rewrite, StorageTypeOK
  <2> QED
    BY <1>5, <2>1, <2>2, <2>3 DEF Rewrite, StorageTypeOK, ReaderType, CopiesType
<1>6. ASSUME NEW t \in CacheThreads, Invalidate(t) PROVE StorageTypeOK'
  <2>1. ASSUME NEW u \in CacheThreads PROVE reader'[u] \in ReaderType
    <3>1. CASE u = t
      BY <1>6, <2>1, <3>1 DEF Invalidate, ReaderType, Idle
    <3>2. CASE u # t
      <4>1. PICK swept \in BOOLEAN : reader'[u] = [reader[u] EXCEPT !.cleared = swept]
        BY <1>0, <1>6, <2>1, <3>2 DEF Invalidate, ReaderType
      <4> QED
        BY <1>0, <2>1, <4>1 DEF ReaderType
    <3> QED
      BY <3>1, <3>2
  <2>2. reader' \in [CacheThreads -> ReaderType]
    BY <1>6, <2>1 DEF Invalidate
  <2>3. NoCopies \in [Contents -> Contents \cup {Gone}]
    BY DEF NoCopies
  <2>4. partials' \in CopiesType /\ copies' \in CopiesType
    BY <1>0, <1>6, <2>3 DEF Invalidate, CopiesType
  <2> QED
    BY <1>6, <2>2, <2>4 DEF Invalidate, StorageTypeOK, ReaderType, CopiesType
<1>7. ASSUME NEW t \in CacheThreads, Return(t) PROVE StorageTypeOK'
  <2>1. reader' \in [CacheThreads -> ReaderType]
    BY <1>0, <1>7 DEF Return, ReaderType, Idle
  <2> QED
    BY <1>7, <2>1 DEF Return, StorageTypeOK, ReaderType, CopiesType
<1>8. CASE UNCHANGED storageVars
  BY <1>8 DEF storageVars, StorageTypeOK
<1> QED
  BY <1>1, <1>2, <1>3, <1>4, <1>5, <1>6, <1>7, <1>8 DEF StorageNext

LEMMA AsksNext ==
  StorageTypeOK /\ AsksForSomething /\ [StorageNext]_storageVars => AsksForSomething'
<1> SUFFICES ASSUME StorageTypeOK, AsksForSomething, [StorageNext]_storageVars,
                    NEW u \in CacheThreads,
                    reader'[u].step \in {"looked", "downloaded", "has"}
             PROVE  reader'[u].etag \in Contents /\ reader'[u].etag \in reader'[u].held
  BY DEF AsksForSomething
<1>0. reader \in [CacheThreads -> ReaderType]
  BY DEF StorageTypeOK, ReaderType, CopiesType
<1>1. ASSUME NEW t \in CacheThreads, Look(t), u = t
      PROVE  reader'[u].etag \in Contents /\ reader'[u].etag \in reader'[u].held
  BY <1>0, <1>1 DEF Look, StorageTypeOK, Idle
<1>2. CASE reader'[u].etag = reader[u].etag /\ reader[u].held \subseteq reader'[u].held
           /\ reader[u].step \in {"looked", "downloaded", "has"}
  BY <1>2 DEF AsksForSomething
<1>3. ASSUME NEW t \in CacheThreads,
             Download(t) \/ NameCopy(t) \/ OpenCopy(t) \/ Return(t) \/ (Look(t) /\ u # t)
      PROVE  reader'[u].etag = reader[u].etag /\ reader[u].held \subseteq reader'[u].held
             /\ reader[u].step \in {"looked", "downloaded", "has"}
  BY <1>0, <1>3 DEF Download, NameCopy, OpenCopy, Return, Look, At, Idle, ReaderType
<1>4. ASSUME NEW t \in CacheThreads, Invalidate(t)
      PROVE  reader'[u].etag = reader[u].etag /\ reader[u].held \subseteq reader'[u].held
             /\ reader[u].step \in {"looked", "downloaded", "has"}
  BY <1>0, <1>4 DEF Invalidate, Idle, ReaderType
<1>5. ASSUME NEW t \in CacheThreads, NEW content \in Contents \cup {Gone}, Rewrite(t, content)
      PROVE  reader'[u].etag = reader[u].etag /\ reader[u].held \subseteq reader'[u].held
             /\ reader[u].step \in {"looked", "downloaded", "has"}
  BY <1>0, <1>5 DEF Rewrite, ReaderType
<1>6. CASE UNCHANGED storageVars
  BY <1>6 DEF storageVars, AsksForSomething
<1> QED
  BY <1>1, <1>2, <1>3, <1>4, <1>5, <1>6 DEF StorageNext

(* Type correctness: every variable of the store and its copies keeps its type,
   whatever is read and rewritten (S3ObjectStore). *)
THEOREM StorageTypeCorrect == StorageSpec => []StorageTypeOK
<1>1. StorageInit => AsksForSomething
  BY DEF StorageInit, AsksForSomething, Idle
<1> QED
  BY <1>1, StorageTypeInit, StorageTypeNext, AsksNext, PTL DEF StorageSpec
-----------------------------------------------------------------------------
(* As long as no rewrite fell between a look and its download, copies and
   downloads hold what they are named for, and what is about to be downloaded
   is what was looked at. *)
NamedRight ==
  \/ overtaken
  \/ /\ \A d \in CacheDirs, name \in Contents :
           copies[d][name] \in {Gone, name} /\ partials[d][name] \in {Gone, name}
     /\ \A t \in CacheThreads : At(t, "looked") => reader[t].etag = blob

Shares(t) == \E p \in Processes \ {ProcessOf[t]} : cacheDir[p] = DirOf(t)

(* A copy stays until somebody clears the directory, and so does a download
   that no other process can rename. *)
KeptUntilCleared ==
  \A t \in CacheThreads : ~reader[t].cleared =>
    /\ At(t, "has") => copies[DirOf(t)][reader[t].etag] # Gone
    /\ At(t, "downloaded") => partials[DirOf(t)][reader[t].etag] # Gone \/ Shares(t)

StorageInv ==
  /\ StorageTypeOK /\ AsksForSomething
  /\ OneDownload
  /\ NamedRight /\ ReadsWhatWas
  /\ KeptUntilCleared /\ LostForAReason

(* The lock of a process is with the thread that downloads for it. *)
LEMMA OneDownloadNext ==
  StorageTypeOK /\ OneDownload /\ [StorageNext]_storageVars => OneDownload'
<1> SUFFICES ASSUME StorageTypeOK, OneDownload, [StorageNext]_storageVars,
                    NEW u \in CacheThreads, reader'[u].step \in {"looked", "downloaded"}
             PROVE  cacheLock'[ProcessOf[u]] = u
  BY DEF OneDownload
<1> USE StorageAssumption, ThreadPlaces
<1>0. /\ reader \in [CacheThreads -> ReaderType]
      /\ cacheLock \in [Processes -> CacheThreads \cup {Gone}]
      /\ u # Gone
  BY DEF StorageTypeOK, ReaderType
<1>1. ASSUME NEW t \in CacheThreads, Look(t) PROVE cacheLock'[ProcessOf[u]] = u
  <2>1. CASE u = t
    BY <1>0, <1>1, <2>1 DEF Look, Idle
  <2>2. CASE u # t
    <3>1. reader'[u] = reader[u]
      BY <1>0, <1>1, <2>2 DEF Look
    <3>2. cacheLock[ProcessOf[u]] = u /\ cacheLock[ProcessOf[t]] = Gone
      BY <1>1, <3>1 DEF OneDownload, Look
    <3>3. ProcessOf[u] # ProcessOf[t]
      BY <1>0, <3>2
    <3> QED
      BY <1>0, <1>1, <3>2, <3>3 DEF Look
  <2> QED
    BY <2>1, <2>2
<1>2. ASSUME NEW t \in CacheThreads, Download(t) \/ NameCopy(t) PROVE cacheLock'[ProcessOf[u]] = u
  <2>1. CASE u = t
    <3>1. CASE Download(t)
      <4>1. blob # Gone
        BY <1>0, <2>1, <3>1 DEF Download, ReaderType
      <4> QED
        BY <2>1, <3>1, <4>1 DEF Download, At, OneDownload
    <3>2. ~NameCopy(t)
      BY <1>0, <2>1 DEF NameCopy, ReaderType
    <3> QED
      BY <1>2, <3>1, <3>2
  <2>2. CASE u # t
    <3>1. reader'[u] = reader[u]
      BY <1>0, <1>2, <2>2 DEF Download, NameCopy
    <3>2. cacheLock[ProcessOf[u]] = u /\ cacheLock[ProcessOf[t]] = t
      BY <1>2, <3>1 DEF OneDownload, Download, NameCopy, At
    <3>3. ProcessOf[u] # ProcessOf[t]
      BY <2>2, <3>2
    <3> QED
      BY <1>0, <1>2, <3>2, <3>3 DEF Download, NameCopy, Unlock
  <2> QED
    BY <2>1, <2>2
<1>3. ASSUME NEW t \in CacheThreads, OpenCopy(t) \/ Invalidate(t) \/ Return(t)
      PROVE  cacheLock'[ProcessOf[u]] = u
  <2>1. reader'[u].step = reader[u].step
    BY <1>0, <1>3 DEF OpenCopy, Invalidate, Return, Idle, ReaderType
  <2> QED
    BY <1>3, <2>1 DEF OneDownload, OpenCopy, Invalidate, Return
<1>4. ASSUME NEW t \in CacheThreads, NEW content \in Contents \cup {Gone}, Rewrite(t, content)
      PROVE  cacheLock'[ProcessOf[u]] = u
  <2>1. reader'[u].step = reader[u].step
    BY <1>0, <1>4 DEF Rewrite, ReaderType
  <2> QED
    BY <1>4, <2>1 DEF OneDownload, Rewrite
<1>5. CASE UNCHANGED storageVars
  BY <1>5 DEF storageVars, OneDownload
<1> QED
  BY <1>1, <1>2, <1>3, <1>4, <1>5 DEF StorageNext

(* Only a rewrite between a look and its download parts a name from what it
   names. *)
LEMMA NamedRightNext ==
  StorageTypeOK /\ AsksForSomething /\ NamedRight /\ [StorageNext]_storageVars => NamedRight'
<1> SUFFICES ASSUME StorageTypeOK, AsksForSomething, NamedRight, [StorageNext]_storageVars,
                    ~overtaken'
             PROVE  NamedRight'
  BY DEF NamedRight
<1> USE StorageAssumption, ThreadPlaces DEF CacheName
<1>0. /\ reader \in [CacheThreads -> ReaderType]
      /\ copies \in CopiesType /\ partials \in CopiesType
      /\ ~overtaken
  <2>1. ~overtaken
    BY DEF StorageNext, Look, Download, NameCopy, OpenCopy, Rewrite, Invalidate, Return, storageVars
  <2> QED
    BY <2>1 DEF StorageTypeOK, ReaderType, CopiesType
<1>1. /\ \A d \in CacheDirs, name \in Contents :
           copies[d][name] \in {Gone, name} /\ partials[d][name] \in {Gone, name}
      /\ \A t \in CacheThreads : At(t, "looked") => reader[t].etag = blob
  BY <1>0 DEF NamedRight
<1>2. ASSUME NEW t \in CacheThreads, Look(t) PROVE NamedRight'
  BY <1>0, <1>1, <1>2 DEF Look, NamedRight, At, Idle
<1>3. ASSUME NEW t \in CacheThreads, Download(t) PROVE NamedRight'
  <2>1. reader[t].etag = blob
    BY <1>1, <1>3 DEF Download
  <2>2. ASSUME NEW d \in CacheDirs, NEW name \in Contents
        PROVE  copies'[d][name] \in {Gone, name} /\ partials'[d][name] \in {Gone, name}
    BY <1>0, <1>1, <1>3, <2>1, <2>2 DEF Download, CopiesType
  <2>3. ASSUME NEW u \in CacheThreads, reader'[u].step = "looked"
        PROVE  reader'[u].etag = blob'
    <3>1. blob' = blob /\ reader'[t].step # "looked"
      BY <1>0, <1>3 DEF Download, ReaderType
    <3>2. reader'[u] = reader[u]
      BY <1>0, <1>3, <2>3, <3>1 DEF Download
    <3> QED
      BY <1>1, <2>3, <3>1, <3>2 DEF At
  <2> QED
    BY <2>2, <2>3 DEF NamedRight, At
<1>4. ASSUME NEW t \in CacheThreads, NameCopy(t) PROVE NamedRight'
  <2>1. ASSUME NEW d \in CacheDirs, NEW name \in Contents
        PROVE  copies'[d][name] \in {Gone, name} /\ partials'[d][name] \in {Gone, name}
    BY <1>0, <1>1, <1>4, <2>1 DEF NameCopy, CopiesType
  <2>2. ASSUME NEW u \in CacheThreads, reader'[u].step = "looked"
        PROVE  reader'[u].etag = blob'
    BY <1>0, <1>1, <1>4, <2>2 DEF NameCopy, At
  <2> QED
    BY <2>1, <2>2 DEF NamedRight, At
<1>5. ASSUME NEW t \in CacheThreads, OpenCopy(t) \/ Return(t) PROVE NamedRight'
  <2>1. ASSUME NEW u \in CacheThreads, reader'[u].step = "looked"
        PROVE  reader'[u] = reader[u]
    <3>1. reader'[t].step # "looked"
      <4>1. CASE OpenCopy(t)
        BY <1>0, <4>1 DEF OpenCopy
      <4>2. CASE Return(t)
        BY <1>0, <4>2 DEF Return, Idle
      <4> QED
        BY <1>5, <4>1, <4>2
    <3> QED
      BY <1>0, <1>5, <2>1, <3>1 DEF OpenCopy, Return
  <2> QED
    BY <1>1, <1>5, <2>1 DEF NamedRight, At, OpenCopy, Return
<1>6. ASSUME NEW t \in CacheThreads, NEW content \in Contents \cup {Gone}, Rewrite(t, content)
      PROVE  NamedRight'
  <2>1. ASSUME NEW u \in CacheThreads PROVE reader'[u].step # "looked"
    BY <1>0, <1>6, <2>1 DEF Rewrite, At, ReaderType
  <2> QED
    BY <1>1, <1>6, <2>1 DEF NamedRight, At, Rewrite
<1>7. ASSUME NEW t \in CacheThreads, Invalidate(t) PROVE NamedRight'
  <2>1. ASSUME NEW u \in CacheThreads, reader'[u].step = "looked"
        PROVE  reader'[u].etag = reader[u].etag /\ reader[u].step = "looked"
    BY <1>0, <1>7, <2>1 DEF Invalidate, Idle, ReaderType
  <2>2. ASSUME NEW d \in CacheDirs, NEW name \in Contents
        PROVE  copies'[d][name] \in {Gone, name} /\ partials'[d][name] \in {Gone, name}
    BY <1>0, <1>1, <1>7, <2>2 DEF Invalidate, CopiesType, NoCopies
  <2>3. blob' = blob
    BY <1>7 DEF Invalidate
  <2> QED
    BY <1>1, <2>1, <2>2, <2>3 DEF NamedRight, At
<1>8. CASE UNCHANGED storageVars
  BY <1>1, <1>8 DEF storageVars, NamedRight, At
<1> QED
  BY <1>2, <1>3, <1>4, <1>5, <1>6, <1>7, <1>8 DEF StorageNext


(* A file that was read holds what the object held meanwhile. *)
LEMMA ReadsWhatWasNext ==
  /\ StorageTypeOK /\ AsksForSomething /\ NamedRight /\ ReadsWhatWas
  /\ [StorageNext]_storageVars
  => ReadsWhatWas'
<1> SUFFICES ASSUME StorageTypeOK, AsksForSomething, NamedRight, ReadsWhatWas,
                    [StorageNext]_storageVars, NEW u \in CacheThreads,
                    reader'[u].step = "read", ~overtaken'
             PROVE  reader'[u].got \in reader'[u].held
  BY DEF ReadsWhatWas, At
<1> USE StorageAssumption, ThreadPlaces DEF CacheName
<1>0. /\ reader \in [CacheThreads -> ReaderType]
      /\ ~overtaken
  <2>1. ~overtaken
    BY DEF StorageNext, Look, Download, NameCopy, OpenCopy, Rewrite, Invalidate, Return, storageVars
  <2> QED
    BY <2>1 DEF StorageTypeOK, ReaderType
<1>1. CASE reader[u].step = "read" /\ reader'[u].got = reader[u].got
           /\ reader[u].held \subseteq reader'[u].held
  BY <1>0, <1>1 DEF ReadsWhatWas, At
<1>2. ASSUME NEW t \in CacheThreads, OpenCopy(t), u = t
      PROVE  reader'[u].got \in reader'[u].held
  <2> DEFINE etag == reader[t].etag
             copy == copies[DirOf(t)][etag]
  <2>1. /\ copy # Gone
        /\ reader'[u].got = copy /\ reader'[u].held = reader[u].held
    BY <1>0, <1>2 DEF OpenCopy, ReaderType
  <2>2. etag \in Contents /\ etag \in reader[u].held
    BY <1>2 DEF OpenCopy, At, AsksForSomething
  <2>3. copy \in {Gone, etag}
    <3>1. DirOf(t) \in CacheDirs
      BY DEF StorageTypeOK
    <3> QED
      BY <1>0, <2>2, <3>1 DEF NamedRight
  <2> QED
    BY <2>1, <2>2, <2>3
<1>3. ASSUME NEW t \in CacheThreads, OpenCopy(t), u # t
      PROVE  reader'[u] = reader[u]
  BY <1>0, <1>3 DEF OpenCopy
<1>4. ASSUME NEW t \in CacheThreads, Look(t) \/ Download(t) \/ NameCopy(t) \/ Return(t)
      PROVE  reader'[u] = reader[u]
  <2>1. reader'[t].step # "read"
    <3>1. CASE Look(t)
      BY <1>0, <3>1 DEF Look, Idle
    <3>2. CASE Download(t)
      BY <1>0, <3>2 DEF Download, ReaderType
    <3>3. CASE NameCopy(t)
      BY <1>0, <3>3 DEF NameCopy
    <3>4. CASE Return(t)
      BY <1>0, <3>4 DEF Return, Idle
    <3> QED
      BY <1>4, <3>1, <3>2, <3>3, <3>4
  <2> QED
    BY <1>0, <1>4, <2>1 DEF Look, Download, NameCopy, Return
<1>5. ASSUME NEW t \in CacheThreads, Invalidate(t)
      PROVE  reader[u].step = "read" /\ reader'[u].got = reader[u].got
             /\ reader[u].held \subseteq reader'[u].held
  BY <1>0, <1>5 DEF Invalidate, Idle, ReaderType
<1>6. ASSUME NEW t \in CacheThreads, NEW content \in Contents \cup {Gone}, Rewrite(t, content)
      PROVE  reader[u].step = "read" /\ reader'[u].got = reader[u].got
             /\ reader[u].held \subseteq reader'[u].held
  BY <1>0, <1>6 DEF Rewrite, ReaderType
<1>7. CASE UNCHANGED storageVars
  BY <1>1, <1>7 DEF storageVars
<1> QED
  BY <1>1, <1>2, <1>3, <1>4, <1>5, <1>6, <1>7 DEF StorageNext

(* Directories stay where they are. *)
LEMMA PlacesKept ==
  ASSUME [StorageNext]_storageVars, NEW t \in CacheThreads
  PROVE  DirOf(t)' = DirOf(t) /\ (Shares(t)' <=> Shares(t))
<1>1. cacheDir' = cacheDir
  BY DEF StorageNext, Look, Download, NameCopy, OpenCopy, Rewrite, Invalidate, Return, storageVars
<1> QED
  BY <1>1 DEF DirOf, Shares

(* Nothing but a cleared directory, or a process that shares it, takes a copy
   or a download from a thread. *)
LEMMA KeptUntilClearedNext ==
  /\ StorageTypeOK /\ AsksForSomething /\ OneDownload /\ KeptUntilCleared
  /\ [StorageNext]_storageVars
  => KeptUntilCleared'
<1> SUFFICES ASSUME StorageTypeOK, AsksForSomething, OneDownload, KeptUntilCleared,
                    [StorageNext]_storageVars, NEW u \in CacheThreads, ~reader'[u].cleared
             PROVE  /\ reader'[u].step = "has" => copies'[DirOf(u)][reader'[u].etag] # Gone
                    /\ reader'[u].step = "downloaded" =>
                         partials'[DirOf(u)][reader'[u].etag] # Gone \/ Shares(u)
  BY PlacesKept DEF KeptUntilCleared, At
<1> USE StorageAssumption, ThreadPlaces DEF CacheName
<1> DEFINE Remains == /\ reader'[u].step = "has" => copies'[DirOf(u)][reader'[u].etag] # Gone
                      /\ reader'[u].step = "downloaded" =>
                           partials'[DirOf(u)][reader'[u].etag] # Gone \/ Shares(u)
<1>0. /\ reader \in [CacheThreads -> ReaderType]
      /\ copies \in CopiesType /\ partials \in CopiesType
      /\ \A t \in CacheThreads : DirOf(t) \in CacheDirs
  BY DEF StorageTypeOK, ReaderType, CopiesType
<1>k. ~reader[u].cleared =>
        /\ reader[u].step = "has" => copies[DirOf(u)][reader[u].etag] # Gone
        /\ reader[u].step = "downloaded" =>
             partials[DirOf(u)][reader[u].etag] # Gone \/ Shares(u)
  BY DEF KeptUntilCleared, At
<1>e. reader[u].step \in {"looked", "downloaded", "has"} => reader[u].etag \in Contents
  BY DEF AsksForSomething
<1>1. ASSUME NEW t \in CacheThreads, Look(t) PROVE Remains
  <2>1. CASE u = t
    <3>1. /\ reader'[u].step \in {"refused", "has", "looked"} /\ reader'[u].etag = blob
          /\ reader'[u].step = "has" => copies[DirOf(t)][blob] # Gone
      BY <1>0, <1>1, <2>1 DEF Look, Idle
    <3> QED
      BY <1>1, <2>1, <3>1 DEF Look
  <2>2. CASE u # t
    BY <1>0, <1>1, <1>k, <2>2 DEF Look
  <2> QED
    BY <2>1, <2>2
<1>2. ASSUME NEW t \in CacheThreads, Download(t) PROVE Remains
  <2>1. CASE u = t
    <3>1. /\ reader'[u].step \in {"refused", "downloaded"} /\ reader'[u].etag = reader[u].etag
          /\ reader[u].etag \in Contents
      BY <1>0, <1>2, <1>e, <2>1 DEF Download, At, ReaderType
    <3>2. ASSUME reader'[u].step = "downloaded"
          PROVE  partials'[DirOf(u)][reader'[u].etag] # Gone
      <4>1. blob # Gone
        BY <1>0, <1>2, <2>1, <3>2 DEF Download, ReaderType
      <4> QED
        BY <1>0, <1>2, <2>1, <3>1, <4>1 DEF Download, CopiesType
    <3> QED
      BY <3>1, <3>2
  <2>2. CASE u # t
    <3>1. reader'[u] = reader[u] /\ copies' = copies
      BY <1>0, <1>2, <2>2 DEF Download
    <3>2. ASSUME NEW d \in CacheDirs, NEW name \in Contents, partials[d][name] # Gone
          PROVE  partials'[d][name] # Gone
      BY <1>0, <1>2, <3>2 DEF Download, CopiesType
    <3> QED
      BY <1>0, <1>e, <1>k, <3>1, <3>2
  <2> QED
    BY <2>1, <2>2
<1>3. ASSUME NEW t \in CacheThreads, NameCopy(t) PROVE Remains
  <2> DEFINE name == reader[t].etag
  <2>0. name \in Contents
    BY <1>3 DEF NameCopy, At, AsksForSomething
  <2>1. CASE u = t
    <3>1. /\ reader'[u].step \in {"has", "lost"} /\ reader'[u].etag = name
          /\ reader'[u].step = "has" => partials[DirOf(t)][name] # Gone
      BY <1>0, <1>3, <2>1 DEF NameCopy, ReaderType
    <3>2. ASSUME partials[DirOf(t)][name] # Gone PROVE copies'[DirOf(t)][name] # Gone
      BY <1>0, <1>3, <2>0, <3>2 DEF NameCopy, CopiesType
    <3> QED
      BY <2>1, <3>1, <3>2
  <2>2. CASE u # t
    <3>1. reader'[u] = reader[u]
      BY <1>0, <1>3, <2>2 DEF NameCopy
    <3>2. ASSUME NEW d \in CacheDirs, NEW n \in Contents, copies[d][n] # Gone
          PROVE  copies'[d][n] # Gone
      BY <1>0, <1>3, <3>2 DEF NameCopy, CopiesType
    <3>3. ASSUME reader[u].step = "downloaded", ~Shares(u)
          PROVE  partials'[DirOf(u)][reader[u].etag] = partials[DirOf(u)][reader[u].etag]
      <4>1. ProcessOf[u] # ProcessOf[t]
        BY <1>3, <2>2, <3>3 DEF OneDownload, NameCopy, At
      <4>2. DirOf(u) # DirOf(t)
        BY <3>3, <4>1 DEF Shares, DirOf
      <4> QED
        BY <1>0, <1>3, <4>2 DEF NameCopy, CopiesType
    <3> QED
      BY <1>0, <1>e, <1>k, <3>1, <3>2, <3>3
  <2> QED
    BY <2>1, <2>2
<1>4. ASSUME NEW t \in CacheThreads, OpenCopy(t) \/ Return(t) PROVE Remains
  <2>1. CASE u = t
    <3>1. CASE OpenCopy(t)
      BY <1>0, <2>1, <3>1 DEF OpenCopy, ReaderType
    <3>2. CASE Return(t)
      BY <1>0, <2>1, <3>2 DEF Return, Idle
    <3> QED
      BY <1>4, <3>1, <3>2
  <2>2. CASE u # t
    <3>1. reader'[u] = reader[u] /\ copies' = copies /\ partials' = partials
      BY <1>0, <1>4, <2>2 DEF OpenCopy, Return
    <3> QED
      BY <1>k, <3>1
  <2> QED
    BY <2>1, <2>2
<1>5. ASSUME NEW t \in CacheThreads, NEW content \in Contents \cup {Gone}, Rewrite(t, content)
      PROVE  Remains
  <2>1. /\ copies' = copies /\ partials' = partials
        /\ reader'[u].etag = reader[u].etag /\ (reader'[u].cleared <=> reader[u].cleared)
        /\ reader'[u].step = reader[u].step \/ reader'[u].step = "rewrote"
    BY <1>0, <1>5 DEF Rewrite, ReaderType
  <2> QED
    BY <1>k, <2>1
<1>6. ASSUME NEW t \in CacheThreads, Invalidate(t) PROVE Remains
  <2>1. CASE u = t
    BY <1>0, <1>6, <2>1 DEF Invalidate, Idle
  <2>2. CASE u # t
    <3>1. reader'[u] = [reader[u] EXCEPT !.cleared =
            @ \/ (DirOf(u) = DirOf(t) /\ reader[u].step \in {"downloaded", "has"})]
      BY <1>0, <1>6, <2>2 DEF Invalidate
    <3>2. /\ reader'[u].etag = reader[u].etag /\ reader'[u].step = reader[u].step
          /\ ~reader[u].cleared
          /\ reader[u].step \in {"downloaded", "has"} => DirOf(u) # DirOf(t)
      BY <1>0, <3>1 DEF ReaderType
    <3>3. ASSUME DirOf(u) # DirOf(t)
          PROVE  copies'[DirOf(u)] = copies[DirOf(u)] /\ partials'[DirOf(u)] = partials[DirOf(u)]
      BY <1>0, <1>6, <3>3 DEF Invalidate, CopiesType
    <3> QED
      BY <1>k, <3>2, <3>3
  <2> QED
    BY <2>1, <2>2
<1>7. CASE UNCHANGED storageVars
  BY <1>7, <1>k DEF storageVars
<1> QED
  BY <1>1, <1>2, <1>3, <1>4, <1>5, <1>6, <1>7 DEF StorageNext

(* Who is left without its file has been cleared or shares its directory. *)
LEMMA LostForAReasonNext ==
  /\ StorageTypeOK /\ AsksForSomething /\ KeptUntilCleared /\ LostForAReason
  /\ [StorageNext]_storageVars
  => LostForAReason'
<1> SUFFICES ASSUME StorageTypeOK, AsksForSomething, KeptUntilCleared, LostForAReason,
                    [StorageNext]_storageVars, NEW u \in CacheThreads
             PROVE  /\ reader'[u].step = "missing" => reader'[u].cleared
                    /\ reader'[u].step = "lost" => reader'[u].cleared \/ Shares(u)
  BY PlacesKept DEF LostForAReason, At, Shares
<1> USE StorageAssumption, ThreadPlaces DEF CacheName
<1> DEFINE Reason == /\ reader'[u].step = "missing" => reader'[u].cleared
                     /\ reader'[u].step = "lost" => reader'[u].cleared \/ Shares(u)
<1>0. reader \in [CacheThreads -> ReaderType]
  BY DEF StorageTypeOK, ReaderType
<1>k. /\ reader[u].step = "missing" => reader[u].cleared
      /\ reader[u].step = "lost" => reader[u].cleared \/ Shares(u)
  BY DEF LostForAReason, At, Shares
<1>1. ASSUME NEW t \in CacheThreads, OpenCopy(t) PROVE Reason
  <2>1. CASE u = t
    <3>1. /\ reader'[u].step \in {"missing", "read"}
          /\ reader'[u].step = "missing" => copies[DirOf(u)][reader[u].etag] = Gone
          /\ reader'[u].cleared <=> reader[u].cleared
      BY <1>0, <1>1, <2>1 DEF OpenCopy, ReaderType
    <3>2. copies[DirOf(u)][reader[u].etag] = Gone => reader[u].cleared
      BY <1>1, <2>1 DEF KeptUntilCleared, OpenCopy, At
    <3> QED
      BY <3>1, <3>2
  <2>2. CASE u # t
    BY <1>0, <1>1, <1>k, <2>2 DEF OpenCopy
  <2> QED
    BY <2>1, <2>2
<1>2. ASSUME NEW t \in CacheThreads, NameCopy(t) PROVE Reason
  <2>1. CASE u = t
    <3>1. /\ reader'[u].step \in {"has", "lost"}
          /\ reader'[u].step = "lost" => partials[DirOf(u)][reader[u].etag] = Gone
          /\ reader'[u].cleared <=> reader[u].cleared
      BY <1>0, <1>2, <2>1 DEF NameCopy, ReaderType
    <3>2. partials[DirOf(u)][reader[u].etag] = Gone => reader[u].cleared \/ Shares(u)
      BY <1>2, <2>1 DEF KeptUntilCleared, NameCopy, At
    <3> QED
      BY <3>1, <3>2
  <2>2. CASE u # t
    BY <1>0, <1>2, <1>k, <2>2 DEF NameCopy
  <2> QED
    BY <2>1, <2>2
<1>3. ASSUME NEW t \in CacheThreads, Look(t) \/ Download(t) \/ Return(t) PROVE Reason
  <2>1. reader'[t].step \notin {"missing", "lost"}
    <3>1. CASE Look(t)
      BY <1>0, <3>1 DEF Look, Idle
    <3>2. CASE Download(t)
      BY <1>0, <3>2 DEF Download, ReaderType
    <3>3. CASE Return(t)
      BY <1>0, <3>3 DEF Return, Idle
    <3> QED
      BY <1>3, <3>1, <3>2, <3>3
  <2>2. u # t => reader'[u] = reader[u]
    BY <1>0, <1>3 DEF Look, Download, Return
  <2> QED
    BY <1>k, <2>1, <2>2
<1>4. ASSUME NEW t \in CacheThreads, NEW content \in Contents \cup {Gone},
             Rewrite(t, content) \/ Invalidate(t)
      PROVE  Reason
  <2>1. CASE u = t
    <3>1. CASE Rewrite(t, content)
      BY <1>0, <2>1, <3>1 DEF Rewrite, ReaderType
    <3>2. CASE Invalidate(t)
      BY <1>0, <2>1, <3>2 DEF Invalidate, Idle
    <3> QED
      BY <1>4, <3>1, <3>2
  <2>2. CASE u # t
    <3>1. reader'[u].step = reader[u].step
      BY <1>0, <1>4, <2>2 DEF Rewrite, Invalidate, ReaderType
    <3>2. reader[u].cleared => reader'[u].cleared
      BY <1>0, <1>4, <2>2 DEF Rewrite, Invalidate, ReaderType
    <3> QED
      BY <1>k, <3>1, <3>2
  <2> QED
    BY <2>1, <2>2
<1>5. CASE UNCHANGED storageVars
  BY <1>5, <1>k DEF storageVars
<1> QED
  BY <1>1, <1>2, <1>3, <1>4, <1>5 DEF StorageNext

(* A reader of a stored file gets what the object held while it asked, its copies
   are what they are named for, and it is left without a file only when somebody
   cleared the directory or shares it - unless a rewrite fell between a look and
   its download (S3ObjectStore.local_path, _invalidate). *)
THEOREM CacheServesHolds == StorageSpec => []CacheServes
<1>1. StorageInit => StorageInv
  <2> SUFFICES ASSUME StorageInit PROVE StorageInv
    OBVIOUS
  <2>1. StorageTypeOK
    BY StorageTypeInit
  <2>2. /\ \A t \in CacheThreads : reader[t] = Idle
        /\ \A d \in CacheDirs, name \in Contents :
             copies[d][name] = Gone /\ partials[d][name] = Gone
    BY DEF StorageInit, NoCopies
  <2> QED
    BY <2>1, <2>2 DEF StorageInv, AsksForSomething, OneDownload, NamedRight, ReadsWhatWas,
                      KeptUntilCleared, LostForAReason, At, Idle
<1>2. StorageInv /\ [StorageNext]_storageVars => StorageInv'
  BY StorageTypeNext, AsksNext, OneDownloadNext, NamedRightNext, ReadsWhatWasNext,
     KeptUntilClearedNext, LostForAReasonNext DEF StorageInv
<1>3. StorageInv => CacheServes
  BY DEF StorageInv, CacheServes, NamedRight, CopiesWellNamed
<1> QED
  BY <1>1, <1>2, <1>3, PTL DEF StorageSpec

-----------------------------------------------------------------------------
(* The rows of the catalogue, by number.                                   *)

(* The ids of a kind run from 1 to the number of rows of it there are. *)
Counted(count) == {i \in Kinds \X Nat : i[2] \in 1..count[i[1]]}
Numbered ==
  \E count \in [Kinds -> Nat] :
    /\ \A kind \in Kinds : count[kind] <= Capacity[kind]
    /\ Ids = Counted(count)

(* So the next of a kind is the one after the last. *)
LEMMA NextOfKind ==
  ASSUME NEW count \in [Kinds -> Nat], Ids = Counted(count), NEW kind \in Kinds
  PROVE  Fresh(kind) = <<kind, count[kind] + 1>>
<1> DEFINE c == count[kind]
           those == {i \in Ids : Kind(i) = kind}
           f == [n \in 1..c |-> <<kind, n>>]
<1>1. c \in Nat
  OBVIOUS
<1>2. those = {<<kind, n>> : n \in 1..c}
  BY DEF Counted, Kind
<1>3. f \in Bijection(1..c, those)
  <2>1. f \in [1..c -> those]
    BY <1>2
  <2>2. \A a, b \in 1..c : f[a] = f[b] => a = b
    OBVIOUS
  <2>3. \A i \in those : \E n \in 1..c : f[n] = i
    BY <1>2
  <2> HIDE DEF f, those, c
  <2> QED
    BY <2>1, <2>2, <2>3 DEF Bijection, Injection, Surjection, IsInjective
<1>4. Cardinality(those) = c
  <2> HIDE DEF f, those, c
  <2>1. ExistsBijection(1..c, those)
    BY <1>3 DEF ExistsBijection
  <2>2. IsFiniteSet(1..c) /\ Cardinality(1..c) = c
    BY <1>1, FS_Interval
  <2> QED
    BY <2>1, <2>2, FS_Bijection
<1> QED
  BY <1>4 DEF Fresh, Id

LEMMA FreshIs ==
  ASSUME Numbered, NEW kind \in Kinds
  PROVE  /\ Fresh(kind) \notin Ids /\ Fresh(kind) \in Kinds \X Nat
         /\ Kind(Fresh(kind)) = kind /\ Fresh(kind) # None
         /\ \A i \in Ids : Kind(i) = kind => i[2] <= Fresh(kind)[2]
<1>1. PICK count \in [Kinds -> Nat] : Ids = Counted(count)
  BY DEF Numbered
<1>2. Fresh(kind) = <<kind, count[kind] + 1>>
  BY <1>1, NextOfKind
<1>3. "none" \notin Kinds
  BY DEF Kinds
<1> QED
  BY <1>1, <1>2, <1>3 DEF Counted, Kind, None, Id

LEMMA IdsAre == Numbered => Ids \subseteq AllIds /\ Ids \subseteq Kinds \X Nat /\ None \notin Ids
<1>1. "none" \notin Kinds
  BY DEF Kinds
<1> SUFFICES ASSUME NEW count \in [Kinds -> Nat], \A kind \in Kinds : count[kind] <= Capacity[kind],
                    Ids = Counted(count)
             PROVE  Ids \subseteq AllIds /\ Ids \subseteq Kinds \X Nat /\ None \notin Ids
  BY DEF Numbered
<1>2. Ids \subseteq Kinds \X Nat /\ None \notin Ids
  BY <1>1 DEF Counted, None, Id
<1>3. ASSUME NEW i \in Ids PROVE i \in AllIds
  <2>1. i = Id(i[1], i[2]) /\ i[1] \in Kinds /\ i[2] \in 1..count[i[1]]
    BY DEF Counted, Id
  <2>2. i[2] \in 1..Capacity[i[1]]
    BY <2>1, CatalogueAssumption
  <2> QED
    BY <2>1, <2>2 DEF AllIds
<1> QED
  BY <1>2, <1>3

(* Rows are added at the next ids, where there is room. *)
LEMMA StillNumbered ==
  ASSUME Numbered, NEW K \in SUBSET Kinds, \A kind \in K : Room(kind),
         Ids' = Ids \cup {Fresh(kind) : kind \in K}
  PROVE  Numbered'
<1>1. PICK count \in [Kinds -> Nat] : /\ \A kind \in Kinds : count[kind] <= Capacity[kind]
                                      /\ Ids = Counted(count)
  BY DEF Numbered
<1> DEFINE more == [kind \in Kinds |-> IF kind \in K THEN count[kind] + 1 ELSE count[kind]]
<1>2. \A kind \in K : Fresh(kind) = <<kind, count[kind] + 1>>
  BY <1>1, NextOfKind
<1>3. more \in [Kinds -> Nat]
  OBVIOUS
<1>4. \A kind \in Kinds : more[kind] <= Capacity[kind]
  BY <1>1, <1>2 DEF Room
<1>5. Counted(more) = Counted(count) \cup {<<kind, count[kind] + 1>> : kind \in K}
  <2>1. ASSUME NEW i \in Kinds \X Nat
        PROVE  i[2] \in 1..more[i[1]] <=>
                 i[2] \in 1..count[i[1]] \/ (i[1] \in K /\ i[2] = count[i[1]] + 1)
    <3>1. i[1] \in Kinds /\ i[2] \in Nat /\ count[i[1]] \in Nat
      OBVIOUS
    <3>2. CASE i[1] \in K
      <4>1. more[i[1]] = count[i[1]] + 1
        BY <3>1, <3>2
      <4> HIDE DEF more
      <4> QED
        BY <3>1, <3>2, <4>1
    <3>3. CASE i[1] \notin K
      BY <3>1, <3>3
    <3> QED
      BY <3>2, <3>3
  <2>2. \A i \in Kinds \X Nat : (i[1] \in K /\ i[2] = count[i[1]] + 1)
                                  <=> i \in {<<kind, count[kind] + 1>> : kind \in K}
    OBVIOUS
  <2>3. {<<kind, count[kind] + 1>> : kind \in K} \subseteq Kinds \X Nat
    OBVIOUS
  <2> HIDE DEF more
  <2> QED
    BY <2>1, <2>2, <2>3 DEF Counted
<1>6. {Fresh(kind) : kind \in K} = {<<kind, count[kind] + 1>> : kind \in K}
  BY <1>2
<1>7. Ids' = Counted(more)
  BY <1>1, <1>5, <1>6
<1> HIDE DEF more
<1> QED
  BY <1>3, <1>4, <1>7 DEF Numbered, Counted

-----------------------------------------------------------------------------
(* Rows, and the rows they may name.                                     *)

RowsOver(J) == [live : BOOLEAN, names : [RowColumns -> J \cup {None}], tiles : SUBSET J]

LEMMA Blank == \A J : Unnamed \in [RowColumns -> J \cup {None}]
BY DEF Unnamed

LEMMA NewRowOver ==
  ASSUME NEW J, NEW names \in [RowColumns -> J \cup {None}]
  PROVE  /\ NewRow(names) \in RowsOver(J) /\ NewRow(names).live
         /\ NewRow(names).names = names /\ NewRow(names).tiles = {}
BY DEF NewRow, RowsOver

LEMMA RowsOverMore ==
  ASSUME NEW J, NEW more, J \subseteq more
  PROVE  RowsOver(J) \subseteq RowsOver(more)
<1> SUFFICES ASSUME NEW row \in RowsOver(J) PROVE row \in RowsOver(more)
  OBVIOUS
<1>1. row.names \in [RowColumns -> more \cup {None}]
  BY DEF RowsOver
<1>2. row = [live |-> row.live, names |-> row.names, tiles |-> row.tiles]
      /\ row.live \in BOOLEAN /\ row.tiles \in SUBSET more
  BY DEF RowsOver
<1> QED
  BY <1>1, <1>2 DEF RowsOver

(* What is gone is no longer live, and nothing else changes.               *)
LEMMA Deleted ==
  ASSUME rows \in [Ids -> RowsOver(Ids)], NEW gone
  PROVE  /\ Without(gone) \in [Ids -> RowsOver(Ids)]
         /\ \A i \in Ids : /\ Without(gone)[i].names = rows[i].names
                           /\ Without(gone)[i].live <=> (rows[i].live /\ i \notin gone)
<1>1. ASSUME NEW i \in Ids
      PROVE  /\ Without(gone)[i] \in RowsOver(Ids)
             /\ Without(gone)[i].names = rows[i].names
             /\ Without(gone)[i].live <=> (rows[i].live /\ i \notin gone)
  <2>1. Without(gone)[i] = [rows[i] EXCEPT !.live = rows[i].live /\ i \notin gone]
    BY DEF Without
  <2>2. rows[i] \in RowsOver(Ids) /\ rows[i].live \in BOOLEAN
    BY DEF RowsOver
  <2>3. (rows[i].live /\ i \notin gone) \in BOOLEAN
    OBVIOUS
  <2> QED
    BY <2>1, <2>2, <2>3 DEF RowsOver
<1>2. Without(gone) = [i \in Ids |-> Without(gone)[i]]
  BY DEF Without
<1> QED
  BY <1>1, <1>2

-----------------------------------------------------------------------------
(* What makes a record readable, and what keeps it so.                     *)

Stored ==
  /\ Kept("dataset_version") \subseteq objects
  /\ \A r \in Kept("result") : rows[r].names.version = None => r \in objects

(* The current version of a dataset is its own, and its last.              *)
CurrentOwn ==
  \A d \in Kept("dataset") :
    /\ rows[d].names.version \in Naming("dataset_version", "dataset", d)
    /\ \A v \in Naming("dataset_version", "dataset", d) : v[2] <= rows[d].names.version[2]

RowsTyped ==
  /\ Numbered /\ rows \in [Ids -> RowsOver(Ids)]
  /\ objects \subseteq Ids /\ deletions \in 0..MaxDeletions /\ flowed \subseteq Ids \X Ids

CatalogueInv == RowsTyped /\ Stored /\ CurrentOwn

(* Nothing comes back, files go with their rows, a version goes on naming its
   dataset and goes only with it, and a result stays what it was made.     *)
OldRowsKept ==
  /\ Ids \subseteq Ids'
  /\ \A i \in Ids : rows'[i].live => rows[i].live /\ (i \in objects => i \in objects')
  /\ \A v \in Ids : Kind(v) = "dataset_version" =>
       /\ rows'[v].names = rows[v].names
       /\ rows[v].live /\ ~rows'[v].live =>
            rows[v].names.dataset \in Ids /\ ~rows'[rows[v].names.dataset].live
  /\ \A r \in Ids : Kind(r) = "result" /\ rows'[r].names.version = None => rows[r].names.version = None

(* What is new has its file.                                               *)
NewRowsStored ==
  \A i \in Ids' \ Ids :
    /\ Kind(i) = "dataset_version" => i \in objects'
    /\ Kind(i) = "result" => rows'[i].names.version # None \/ i \in objects'

(* A dataset has got no version, or the last there is.                     *)
LastBecomesCurrent ==
  \A d \in Ids' : Kind(d) = "dataset" /\ rows'[d].live =>
    \/ /\ d \in Ids /\ rows'[d].names.version = rows[d].names.version
       /\ \A w \in Ids' \ Ids : Kind(w) = "dataset_version" => rows'[w].names.dataset # d
    \/ /\ rows'[d].names.version \in Ids' /\ Kind(rows'[d].names.version) = "dataset_version"
       /\ rows'[rows'[d].names.version].live
       /\ rows'[rows'[d].names.version].names.dataset = d
       /\ \A v \in Ids' : Kind(v) = "dataset_version" => v[2] <= rows'[d].names.version[2]

LEMMA Onward ==
  ASSUME CatalogueInv, OldRowsKept, NewRowsStored, LastBecomesCurrent
  PROVE  Stored' /\ CurrentOwn'
<1>1. Stored'
  BY DEF CatalogueInv, Stored, Kept, OldRowsKept, NewRowsStored
<1>2. ASSUME NEW d \in Ids', Kind(d) = "dataset", rows'[d].live
      PROVE  LET c == rows'[d].names.version IN
             /\ c \in Ids' /\ Kind(c) = "dataset_version" /\ rows'[c].live /\ rows'[c].names.dataset = d
             /\ \A v \in Ids' : Kind(v) = "dataset_version" /\ rows'[v].live /\ rows'[v].names.dataset = d
                                  => v[2] <= c[2]
  <2> DEFINE c == rows'[d].names.version
  <2>1. CASE /\ d \in Ids /\ rows'[d].names.version = rows[d].names.version
             /\ \A w \in Ids' \ Ids : Kind(w) = "dataset_version" => rows'[w].names.dataset # d
    <3>1. d \in Kept("dataset")
      BY <1>2, <2>1 DEF OldRowsKept, Kept
    <3>2. /\ c \in Ids /\ Kind(c) = "dataset_version" /\ rows[c].live /\ rows[c].names.dataset = d
          /\ \A v \in Ids : Kind(v) = "dataset_version" /\ rows[v].live /\ rows[v].names.dataset = d
                              => v[2] <= c[2]
      BY <2>1, <3>1 DEF CatalogueInv, CurrentOwn, Naming, Kept
    <3>3. rows'[c].names = rows[c].names /\ rows'[c].live
      BY <1>2, <3>2 DEF OldRowsKept
    <3>4. \A v \in Ids' : Kind(v) = "dataset_version" /\ rows'[v].live /\ rows'[v].names.dataset = d
                            => v \in Ids /\ rows[v].live /\ rows[v].names.dataset = d
      BY <2>1 DEF OldRowsKept
    <3> QED
      BY <3>2, <3>3, <3>4 DEF OldRowsKept
  <2> QED
    BY <1>2, <2>1 DEF LastBecomesCurrent
<1>3. CurrentOwn'
  BY <1>2 DEF CurrentOwn, Naming, Kept
<1> QED
  BY <1>1, <1>3

-----------------------------------------------------------------------------
(* What is deleted.                                                        *)

LEMMA SourceDeleted ==
  ASSUME CatalogueInv, NEW s, DeleteSource(s)
  PROVE  CatalogueInv'
<1> USE DEF CatalogueInv, RowsTyped
<1>1. s \in Ids /\ Kind(s) = "source"
  BY DEF DeleteSource, Kept
<1>2. ASSUME NEW i \in Ids
      PROVE  /\ rows'[i] \in RowsOver(Ids)
             /\ rows'[i].live <=> (rows[i].live /\ i # s)
             /\ Kind(i) # "dataset" => rows'[i].names = rows[i].names
             /\ rows'[i].names.version = rows[i].names.version
  <2>1. CASE Kind(i) = "dataset" /\ rows[i].names.source = s
    <3>1. rows'[i] = [rows[i] EXCEPT !.names = [rows[i].names EXCEPT !.source = None]]
      BY <2>1 DEF DeleteSource
    <3>2. rows[i] \in RowsOver(Ids) /\ rows[i].names \in [RowColumns -> Ids \cup {None}]
      BY DEF RowsOver
    <3>3. [rows[i].names EXCEPT !.source = None] \in [RowColumns -> Ids \cup {None}]
      BY <3>2
    <3>4. [rows[i].names EXCEPT !.source = None].version = rows[i].names.version
      BY <3>2 DEF RowColumns
    <3>5. i # s
      BY <1>1, <2>1
    <3> QED
      BY <2>1, <3>1, <3>2, <3>3, <3>4, <3>5 DEF RowsOver
  <2>2. CASE ~(Kind(i) = "dataset" /\ rows[i].names.source = s)
    <3>1. rows'[i] = Without({s})[i]
      BY <2>2 DEF DeleteSource
    <3> QED
      BY <3>1, Deleted
  <2> QED
    BY <2>1, <2>2
<1>3. Ids' = Ids /\ rows' = [i \in Ids |-> rows'[i]]
  BY DEF DeleteSource, Ids
<1>4. rows' \in [Ids' -> RowsOver(Ids')]
  BY <1>2, <1>3
<1>5. Numbered'
  BY <1>3 DEF Numbered
<1>6. objects' = objects /\ flowed' = flowed /\ deletions' \in 0..MaxDeletions
  BY CatalogueAssumption DEF DeleteSource, OneMoreDeletion
<1>7. OldRowsKept
  BY <1>1, <1>2, <1>3, <1>6 DEF OldRowsKept
<1>8. NewRowsStored /\ LastBecomesCurrent
  BY <1>2, <1>3 DEF NewRowsStored, LastBecomesCurrent
<1> QED
  BY <1>3, <1>4, <1>5, <1>6, <1>7, <1>8, Onward

LEMMA DatasetDeleted ==
  ASSUME CatalogueInv, NEW d, DeleteDataset(d)
  PROVE  CatalogueInv'
<1> USE DEF CatalogueInv, RowsTyped
<1> DEFINE gone == Naming("dataset_version", "dataset", d)
<1>1. d \in Ids /\ Kind(d) = "dataset" /\ rows' = Without(gone \cup {d}) /\ objects' = objects \ gone
  BY DEF DeleteDataset, Kept
<1>2. \A i \in gone : i \in Ids /\ Kind(i) = "dataset_version" /\ rows[i].names.dataset = d
  BY DEF Naming, Kept
<1> HIDE DEF gone
<1>3. rows' \in [Ids -> RowsOver(Ids)]
      /\ \A i \in Ids : /\ rows'[i].names = rows[i].names
                        /\ rows'[i].live <=> (rows[i].live /\ i \notin gone \cup {d})
  BY <1>1, Deleted
<1>4. Ids' = Ids
  BY <1>3 DEF Ids
<1>5. Numbered'
  BY <1>4 DEF Numbered
<1>6. flowed' = flowed /\ deletions' \in 0..MaxDeletions
  BY CatalogueAssumption DEF DeleteDataset, OneMoreDeletion
<1>7. OldRowsKept
  BY <1>1, <1>2, <1>3, <1>4 DEF OldRowsKept
<1>8. NewRowsStored /\ LastBecomesCurrent
  BY <1>3, <1>4 DEF NewRowsStored, LastBecomesCurrent
<1> QED
  BY <1>1, <1>3, <1>4, <1>5, <1>6, <1>7, <1>8, Onward

LEMMA ResultDeleted ==
  ASSUME CatalogueInv, NEW r, DeleteResult(r)
  PROVE  CatalogueInv'
<1> USE DEF CatalogueInv, RowsTyped
<1>1. r \in Ids /\ Kind(r) = "result" /\ rows' = Without({r}) /\ objects' = objects \ {r}
  BY DEF DeleteResult, Kept
<1>3. rows' \in [Ids -> RowsOver(Ids)]
      /\ \A i \in Ids : /\ rows'[i].names = rows[i].names
                        /\ rows'[i].live <=> (rows[i].live /\ i # r)
  BY <1>1, Deleted
<1>4. Ids' = Ids
  BY <1>3 DEF Ids
<1>5. Numbered'
  BY <1>4 DEF Numbered
<1>6. flowed' = flowed /\ deletions' \in 0..MaxDeletions
  BY CatalogueAssumption DEF DeleteResult, OneMoreDeletion
<1>7. OldRowsKept
  BY <1>1, <1>3, <1>4 DEF OldRowsKept
<1>8. NewRowsStored /\ LastBecomesCurrent
  BY <1>3, <1>4 DEF NewRowsStored, LastBecomesCurrent
<1> QED
  BY <1>1, <1>3, <1>4, <1>5, <1>6, <1>7, <1>8, Onward

LEMMA NamedDeleted ==
  ASSUME CatalogueInv, NEW i, DeleteNamed(i)
  PROVE  CatalogueInv'
<1> USE DEF CatalogueInv, RowsTyped
<1>1. i \in Ids /\ Kind(i) \in {"model", "pipeline", "visualization"} /\ rows' = Without({i})
  BY DEF DeleteNamed, Kept
<1>3. rows' \in [Ids -> RowsOver(Ids)]
      /\ \A j \in Ids : /\ rows'[j].names = rows[j].names
                        /\ rows'[j].live <=> (rows[j].live /\ j # i)
  BY <1>1, Deleted
<1>4. Ids' = Ids
  BY <1>3 DEF Ids
<1>5. Numbered'
  BY <1>4 DEF Numbered
<1>6. objects' = objects /\ flowed' = flowed /\ deletions' \in 0..MaxDeletions
  BY CatalogueAssumption DEF DeleteNamed, OneMoreDeletion
<1>7. OldRowsKept
  BY <1>1, <1>3, <1>4, <1>6 DEF OldRowsKept
<1>8. NewRowsStored /\ LastBecomesCurrent
  BY <1>3, <1>4 DEF NewRowsStored, LastBecomesCurrent
<1> QED
  BY <1>3, <1>4, <1>5, <1>6, <1>7, <1>8, Onward

-----------------------------------------------------------------------------
(* What only names other rows.                                             *)

(* A row that neither holds data nor is looked at for the current version. *)
LEMMA NamerAdded ==
  ASSUME CatalogueInv, NEW kind \in Kinds \ {"dataset_version", "dataset", "result"}, Room(kind),
         NEW row \in RowsOver(Ids \cup {Fresh(kind)}), rows' = With(rows, Fresh(kind), row),
         objects' = objects, deletions' = deletions, flowed' \subseteq Ids' \X Ids'
  PROVE  CatalogueInv'
<1> USE DEF CatalogueInv, RowsTyped
<1> DEFINE new == Fresh(kind)
           J == Ids \cup {new}
<1>1. new \notin Ids /\ Kind(new) = kind
  BY FreshIs
<1>2. rows \in [Ids -> RowsOver(J)]
  BY RowsOverMore
<1>3. /\ Ids' = J /\ rows' \in [J -> RowsOver(J)]
      /\ \A i \in Ids : rows'[i] = rows[i]
  <2> HIDE DEF CatalogueInv, RowsTyped
  <2>1. rows' = With(rows, new, row) /\ row \in RowsOver(J)
    OBVIOUS
  <2> HIDE DEF new, J
  <2>2. /\ rows' \in [Ids \cup {new} -> RowsOver(J)] /\ DOMAIN rows' = Ids \cup {new}
        /\ \A i \in Ids : rows'[i] = rows[i]
    BY <1>1, <1>2, <2>1 DEF With
  <2> QED
    BY <2>2 DEF Ids, J
<1>4. Numbered'
  <2> DEFINE K == {kind}
  <2>1. Ids' = Ids \cup {Fresh(k) : k \in K} /\ K \in SUBSET Kinds
    BY <1>3
  <2>2. Numbered /\ \A k \in K : Room(k)
    OBVIOUS
  <2> HIDE DEF K, CatalogueInv, RowsTyped
  <2> QED
    BY <2>1, <2>2, StillNumbered
<1> HIDE DEF new, J
<1>5. Ids' \ Ids = {new} /\ Ids \subseteq Ids'
  BY <1>1, <1>3 DEF J
<1>6. OldRowsKept
  BY <1>3, <1>5 DEF OldRowsKept
<1>7. NewRowsStored /\ LastBecomesCurrent
  BY <1>1, <1>3, <1>5 DEF NewRowsStored, LastBecomesCurrent
<1> QED
  BY <1>3, <1>4, <1>5, <1>6, <1>7, Onward

(* A board's charts change, and nothing else.                              *)
LEMMA TilesChanged ==
  ASSUME CatalogueInv, NEW b \in Kept("dashboard"), NEW charts \in SUBSET Ids,
         rows' = [rows EXCEPT ![b].tiles = charts],
         objects' = objects, deletions' = deletions, flowed' \subseteq Ids \X Ids
  PROVE  CatalogueInv'
<1> USE DEF CatalogueInv, RowsTyped
<1>1. b \in Ids /\ Kind(b) = "dashboard"
  BY DEF Kept
<1>2. [rows[b] EXCEPT !.tiles = charts] \in RowsOver(Ids)
  BY <1>1 DEF RowsOver
<1>3. rows' = [rows EXCEPT ![b] = [rows[b] EXCEPT !.tiles = charts]]
  OBVIOUS
<1>4. rows' \in [Ids -> RowsOver(Ids)] /\ Ids' = Ids
  BY <1>1, <1>2, <1>3 DEF Ids
<1>5. \A i \in Ids : rows'[i].live = rows[i].live /\ rows'[i].names = rows[i].names
  BY <1>1, <1>3 DEF RowsOver
<1>6. Numbered'
  BY <1>4 DEF Numbered
<1>7. OldRowsKept /\ NewRowsStored /\ LastBecomesCurrent
  BY <1>4, <1>5 DEF OldRowsKept, NewRowsStored, LastBecomesCurrent
<1> QED
  BY <1>4, <1>6, <1>7, Onward

-----------------------------------------------------------------------------
(* What is made.                                                           *)

(* Rows in which those there are stand as before, as far as it matters to what
   is current and to what is stored.                                       *)
AsBefore(kept) ==
  /\ \A i \in Ids : kept[i].live = rows[i].live
  /\ \A i \in Ids : Kind(i) = "dataset_version" => kept[i].names = rows[i].names
  /\ \A i \in Ids : Kind(i) = "dataset" => kept[i].names.version = rows[i].names.version
  /\ \A i \in Ids : Kind(i) = "result" /\ kept[i].names.version = None
                      => rows[i].names.version = None

(* A table that becomes the last and current version of a dataset, in rows that
   are the ones there are or were made with it.                            *)
LEMMA TableStored ==
  ASSUME CatalogueInv, NEW J, NEW kept \in [J -> RowsOver(J \cup {Fresh("dataset_version")})],
         Ids \subseteq J, Fresh("dataset_version") \notin J,
         NEW d \in J, Kind(d) = "dataset", kept[d].live,
         NEW names \in [RowColumns -> J \cup {Fresh("dataset_version"), None}],
         AsBefore(kept),
         \A i \in J \ Ids : /\ Kind(i) # "dataset_version" /\ (Kind(i) = "dataset" => i = d)
                            /\ Kind(i) = "result" => kept[i].names.version # None,
         rows' = Materialised(kept, d, names),
         objects' = objects \cup {Fresh("dataset_version")}
  PROVE  /\ Ids' = J \cup {Fresh("dataset_version")}
         /\ rows' \in [Ids' -> RowsOver(Ids')]
         /\ Stored' /\ CurrentOwn'
<1> USE DEF AsBefore
<1> DEFINE w == Fresh("dataset_version")
           more == J \cup {w}
           row == NewRow([names EXCEPT !.dataset = d])
           pointed == [kept EXCEPT ![d].names.version = w]
<1>1. Kind(w) = "dataset_version" /\ w # None /\ w \in Kinds \X Nat
      /\ \A i \in Ids : Kind(i) = "dataset_version" => i[2] <= w[2]
  BY FreshIs DEF Kinds, CatalogueInv, RowsTyped
<1>2. /\ row \in RowsOver(more) /\ row.live /\ row.names.dataset = d
  <2> DEFINE own == [names EXCEPT !.dataset = d]
  <2>1. own \in [RowColumns -> more \cup {None}]
    OBVIOUS
  <2>2. own.dataset = d
    BY DEF RowColumns
  <2> HIDE DEF own, more
  <2>3. NewRow(own) \in RowsOver(more) /\ NewRow(own).live /\ NewRow(own).names.dataset = d
    BY <2>1, <2>2, NewRowOver
  <2> QED
    BY <2>3 DEF own
<1>3. /\ pointed \in [J -> RowsOver(more)]
      /\ \A i \in J \ {d} : pointed[i] = kept[i]
      /\ pointed[d].live = kept[d].live /\ pointed[d].names.version = w
  <2> DEFINE named == [kept[d].names EXCEPT !.version = w]
             changed == [kept[d] EXCEPT !.names = named]
  <2>1. kept[d] \in RowsOver(more) /\ kept[d].names \in [RowColumns -> more \cup {None}]
    BY DEF RowsOver
  <2>2. named \in [RowColumns -> more \cup {None}] /\ named.version = w
    BY <2>1 DEF RowColumns
  <2>3. changed \in RowsOver(more) /\ changed.names = named /\ changed.live = kept[d].live
    <3> HIDE DEF named
    <3> QED
      BY <2>1, <2>2 DEF RowsOver
  <2>4. pointed = [kept EXCEPT ![d] = changed]
    OBVIOUS
  <2> HIDE DEF pointed, changed, named
  <2> QED
    BY <2>2, <2>3, <2>4
<1>4. rows' = With(pointed, w, row)
  BY DEF Materialised
<1> HIDE DEF pointed, row
<1>5. /\ DOMAIN rows' = more /\ rows' \in [more -> RowsOver(more)]
      /\ rows'[w] = row /\ \A i \in J : rows'[i] = pointed[i]
  <2> HIDE DEF w
  <2>1. w \notin J
    BY DEF w
  <2>2. DOMAIN With(pointed, w, row) = J \cup {w} /\ With(pointed, w, row) \in [J \cup {w} -> RowsOver(more)]
        /\ With(pointed, w, row)[w] = row /\ \A i \in J : With(pointed, w, row)[i] = pointed[i]
    <3> HIDE DEF more
    <3> QED
      BY <1>2, <1>3, <2>1 DEF With
  <2> QED
    BY <1>4, <2>2
<1>6. Ids' = more
  BY <1>5 DEF Ids
<1> HIDE DEF w
<1>7. OldRowsKept
  <2>1. ASSUME NEW i \in Ids PROVE rows'[i].live = rows[i].live
    <3>1. rows'[i] = pointed[i] /\ kept[i].live = rows[i].live
      BY <1>5
    <3>2. pointed[i].live = kept[i].live
      BY <1>3
    <3> QED
      BY <3>1, <3>2
  <2>2. \A v \in Ids : Kind(v) = "dataset_version" => rows'[v].names = rows[v].names
    BY <1>3, <1>5
  <2>3. \A r \in Ids : Kind(r) = "result" => rows'[r].names = kept[r].names
    BY <1>3, <1>5
  <2> QED
    BY <1>6, <2>1, <2>2, <2>3 DEF OldRowsKept, w
<1>8. NewRowsStored
  BY <1>1, <1>3, <1>5, <1>6 DEF NewRowsStored, w
<1>9. LastBecomesCurrent
  <2>1. \A v \in Ids' : Kind(v) = "dataset_version" => v = w \/ v \in Ids
    BY <1>6
  <2>2. \A v \in Ids' : Kind(v) = "dataset_version" => v[2] <= w[2]
    BY <1>1, <2>1
  <2>3. ASSUME NEW e \in Ids', Kind(e) = "dataset", rows'[e].live
        PROVE  \/ /\ e \in Ids /\ rows'[e].names.version = rows[e].names.version
                  /\ \A v \in Ids' \ Ids : Kind(v) = "dataset_version" => rows'[v].names.dataset # e
               \/ /\ rows'[e].names.version \in Ids' /\ Kind(rows'[e].names.version) = "dataset_version"
                  /\ rows'[rows'[e].names.version].live
                  /\ rows'[rows'[e].names.version].names.dataset = e
                  /\ \A v \in Ids' : Kind(v) = "dataset_version" => v[2] <= rows'[e].names.version[2]
    <3>1. CASE e = d
      <4>1. rows'[e].names.version = w
        BY <1>3, <1>5, <3>1
      <4>2. w \in Ids' /\ rows'[w].live /\ rows'[w].names.dataset = e
        BY <1>2, <1>5, <1>6, <3>1
      <4> QED
        BY <1>1, <2>2, <4>1, <4>2
    <3>2. CASE e # d
      <4>1. e \in Ids
        BY <1>1, <1>6, <2>3, <3>2
      <4>2. rows'[e].names.version = rows[e].names.version
        BY <1>3, <1>5, <2>3, <3>2, <4>1
      <4>3. \A v \in Ids' \ Ids : Kind(v) = "dataset_version" => rows'[v].names.dataset = d
        BY <1>2, <1>5, <2>1
      <4> QED
        BY <3>2, <4>1, <4>2, <4>3
    <3> QED
      BY <3>1, <3>2
  <2> QED
    BY <2>3 DEF LastBecomesCurrent
<1> QED
  BY <1>5, <1>6, <1>7, <1>8, <1>9, Onward DEF w

(* The same as the first version of a dataset of its own.                  *)
LEMMA DatasetStored ==
  ASSUME CatalogueInv, NEW J,
         NEW kept \in [J -> RowsOver(J \cup {Fresh("dataset"), Fresh("dataset_version")})],
         Ids \subseteq J, NEW source \in J \cup {None}, NEW names \in [RowColumns -> J \cup {None}],
         AsBefore(kept),
         \A i \in J \ Ids : /\ Kind(i) \notin {"dataset_version", "dataset"}
                            /\ Kind(i) = "result" => kept[i].names.version # None,
         rows' = Established(kept, source, names),
         objects' = objects \cup {Fresh("dataset_version")}
  PROVE  /\ Ids' = J \cup {Fresh("dataset"), Fresh("dataset_version")}
         /\ rows' \in [Ids' -> RowsOver(Ids')]
         /\ Stored' /\ CurrentOwn'
<1> USE DEF AsBefore
<1> DEFINE w == Fresh("dataset_version")
           d == Fresh("dataset")
           more == J \cup {d, w}
           row == NewRow([Unnamed EXCEPT !.source = source])
           both == With(kept, d, row)
<1>1. /\ d \notin Ids /\ w \notin Ids /\ Kind(d) = "dataset" /\ Kind(w) = "dataset_version"
  BY FreshIs DEF Kinds, CatalogueInv, RowsTyped
<1>2. d \notin J /\ w \notin J /\ d # w
  BY <1>1
<1>3. row \in RowsOver(more) /\ row.live
  <2>1. [Unnamed EXCEPT !.source = source] \in [RowColumns -> more \cup {None}]
    BY Blank
  <2> QED
    BY <2>1, NewRowOver
<1> HIDE DEF row, d, w
<1>4. /\ both \in [J \cup {d} -> RowsOver(more)]
      /\ both[d] = row /\ \A i \in J : both[i] = kept[i]
  <2>1. kept \in [J -> RowsOver(more)]
    BY DEF d, w
  <2> HIDE DEF more
  <2> QED
    BY <1>2, <1>3, <2>1 DEF With
<1>5. rows' = Materialised(both, d, names)
  BY DEF Established, d, row
<1> HIDE DEF both
<1>6. /\ Ids' = (J \cup {d}) \cup {w} /\ rows' \in [Ids' -> RowsOver(Ids')]
      /\ Stored' /\ CurrentOwn'
  <2> DEFINE K == J \cup {d}
  <2>1. both \in [K -> RowsOver(K \cup {w})] /\ Ids \subseteq K /\ w \notin K /\ d \in K
    BY <1>2, <1>4
  <2>2. Kind(d) = "dataset" /\ both[d].live
    BY <1>1, <1>3, <1>4
  <2>3. names \in [RowColumns -> K \cup {w, None}]
    OBVIOUS
  <2>4. AsBefore(both)
    BY <1>4
  <2>5. \A i \in K \ Ids : /\ Kind(i) # "dataset_version" /\ (Kind(i) = "dataset" => i = d)
                           /\ Kind(i) = "result" => both[i].names.version # None
    BY <1>1, <1>4
  <2> HIDE DEF K, d, AsBefore
  <2>6. /\ Ids' = K \cup {w} /\ rows' \in [Ids' -> RowsOver(Ids')]
        /\ Stored' /\ CurrentOwn'
    BY <1>5, <2>1, <2>2, <2>3, <2>4, <2>5, TableStored DEF w
  <2> QED
    BY <2>6 DEF K
<1>7. (J \cup {d}) \cup {w} = J \cup {d, w}
  OBVIOUS
<1> QED
  BY <1>6, <1>7 DEF d, w

LEMMA CreatedFromSource ==
  ASSUME CatalogueInv, NEW s, CreateFromSource(s)
  PROVE  CatalogueInv'
<1>1. Numbered /\ rows \in [Ids -> RowsOver(Ids)]
  BY DEF CatalogueInv, RowsTyped
<1> DEFINE more == Ids \cup {Fresh("dataset"), Fresh("dataset_version")}
<1>2. rows \in [Ids -> RowsOver(more)]
  BY <1>1, RowsOverMore
<1>3. s \in Ids
  BY DEF CreateFromSource, Kept
<1>4. [Unnamed EXCEPT !.source = s] \in [RowColumns -> Ids \cup {None}]
  BY <1>3, Blank
<1>5. /\ rows' = Established(rows, s, [Unnamed EXCEPT !.source = s])
      /\ objects' = objects \cup {Fresh("dataset_version")}
  BY DEF CreateFromSource
<1>6. Ids' = more /\ rows' \in [Ids' -> RowsOver(Ids')] /\ Stored' /\ CurrentOwn'
  <2>1. AsBefore(rows)
    BY DEF AsBefore
  <2> QED
    BY <1>2, <1>3, <1>4, <1>5, <2>1, DatasetStored
<1>7. Numbered'
  <2> DEFINE K == {"dataset", "dataset_version"}
  <2>1. Ids' = Ids \cup {Fresh(kind) : kind \in K} /\ K \in SUBSET Kinds
    BY <1>6 DEF Kinds
  <2>2. \A kind \in K : Room(kind)
    BY DEF CreateFromSource
  <2> HIDE DEF K
  <2> QED
    BY <1>1, <2>1, <2>2, StillNumbered
<1>8. objects' \subseteq Ids' /\ flowed' \subseteq Ids' \X Ids' /\ deletions' \in 0..MaxDeletions
  BY <1>3, <1>5, <1>6 DEF CreateFromSource, CatalogueInv, RowsTyped
<1> QED
  BY <1>6, <1>7, <1>8 DEF CatalogueInv, RowsTyped

LEMMA Refreshed ==
  ASSUME CatalogueInv, NEW d, RefreshDataset(d)
  PROVE  CatalogueInv'
<1>1. Numbered /\ rows \in [Ids -> RowsOver(Ids)]
  BY DEF CatalogueInv, RowsTyped
<1> DEFINE w == Fresh("dataset_version")
           more == Ids \cup {w}
<1>2. rows \in [Ids -> RowsOver(more)]
  BY <1>1, RowsOverMore
<1>3. PICK s \in Ids :
        /\ rows' = Materialised(rows, d, [Unnamed EXCEPT !.source = s])
        /\ flowed' = flowed \cup {<<s, w>>, <<w, d>>}
  BY DEF RefreshDataset, Kept
<1>4. d \in Ids /\ Kind(d) = "dataset" /\ rows[d].live /\ objects' = objects \cup {w}
      /\ Room("dataset_version") /\ deletions' = deletions
  BY DEF RefreshDataset, Kept
<1>5. [Unnamed EXCEPT !.source = s] \in [RowColumns -> Ids \cup {w, None}]
  BY Blank
<1>6. w \notin Ids
  BY <1>1, FreshIs DEF Kinds
<1>7. Ids' = more /\ rows' \in [Ids' -> RowsOver(Ids')] /\ Stored' /\ CurrentOwn'
  <2>1. AsBefore(rows)
    BY DEF AsBefore
  <2> QED
    BY <1>2, <1>3, <1>4, <1>5, <1>6, <2>1, TableStored
<1>8. Numbered'
  <2> DEFINE K == {"dataset_version"}
  <2>1. Ids' = Ids \cup {Fresh(kind) : kind \in K} /\ K \in SUBSET Kinds
    BY <1>7 DEF Kinds
  <2>2. \A kind \in K : Room(kind)
    BY <1>4
  <2> HIDE DEF K
  <2> QED
    BY <1>1, <2>1, <2>2, StillNumbered
<1>9. objects' \subseteq Ids' /\ flowed' \subseteq Ids' \X Ids' /\ deletions' \in 0..MaxDeletions
  BY <1>3, <1>4, <1>7 DEF CatalogueInv, RowsTyped
<1> QED
  BY <1>7, <1>8, <1>9 DEF CatalogueInv, RowsTyped

LEMMA ResultMaterialised ==
  ASSUME CatalogueInv, NEW r, MaterialiseResult(r)
  PROVE  CatalogueInv'
<1>1. Numbered /\ rows \in [Ids -> RowsOver(Ids)]
  BY DEF CatalogueInv, RowsTyped
<1> DEFINE w == Fresh("dataset_version")
           d == Fresh("dataset")
           more == Ids \cup {d, w}
           named == [rows[r].names EXCEPT !.dataset = d, !.version = w]
           changed == [rows[r] EXCEPT !.names = named]
           kept == [rows EXCEPT ![r].names.dataset = d, ![r].names.version = w]
           names == [Unnamed EXCEPT !.result = r, !.execution = rows[r].names.execution]
<1>2. /\ r \in Ids /\ Kind(r) = "result" /\ Room("dataset") /\ Room("dataset_version")
      /\ rows' = Established(kept, None, names)
      /\ objects' = objects \cup {w} /\ deletions' = deletions
      /\ flowed' = flowed \cup {<<r, w>>, <<w, d>>}
  BY DEF MaterialiseResult, Kept
<1>3. /\ rows[r] \in RowsOver(Ids) /\ rows[r].names \in [RowColumns -> Ids \cup {None}]
      /\ rows[r] \in RowsOver(more)
  BY <1>1, <1>2, RowsOverMore DEF RowsOver
<1>4. names \in [RowColumns -> Ids \cup {None}]
  BY <1>2, <1>3, Blank DEF RowColumns
<1>5. w # None
  BY <1>1, FreshIs DEF Kinds
<1>6. named \in [RowColumns -> more \cup {None}] /\ named.version = w
  BY <1>3 DEF RowColumns
<1>7. changed \in RowsOver(more) /\ changed.live = rows[r].live /\ changed.names = named
  <2> HIDE DEF named, more
  <2> QED
    BY <1>3, <1>6 DEF RowsOver
<1>8. kept = [rows EXCEPT ![r] = changed]
  BY <1>1, <1>2, <1>3 DEF RowsOver
<1>9. rows \in [Ids -> RowsOver(more)]
  BY <1>1, RowsOverMore
<1> HIDE DEF kept, changed, named, names
<1>10. kept \in [Ids -> RowsOver(Ids \cup {Fresh("dataset"), Fresh("dataset_version")})]
  BY <1>2, <1>7, <1>8, <1>9
<1>11. AsBefore(kept)
  BY <1>1, <1>2, <1>5, <1>6, <1>7, <1>8 DEF AsBefore
<1>12. Ids' = more /\ rows' \in [Ids' -> RowsOver(Ids')] /\ Stored' /\ CurrentOwn'
  BY <1>2, <1>4, <1>10, <1>11, DatasetStored
<1>13. Numbered'
  <2> DEFINE K == {"dataset", "dataset_version"}
  <2>1. Ids' = Ids \cup {Fresh(kind) : kind \in K} /\ K \in SUBSET Kinds
    BY <1>12 DEF Kinds
  <2>2. \A kind \in K : Room(kind)
    BY <1>2
  <2> HIDE DEF K
  <2> QED
    BY <1>1, <2>1, <2>2, StillNumbered
<1>14. objects' \subseteq Ids' /\ flowed' \subseteq Ids' \X Ids' /\ deletions' \in 0..MaxDeletions
  BY <1>2, <1>12 DEF CatalogueInv, RowsTyped
<1> QED
  BY <1>12, <1>13, <1>14 DEF CatalogueInv, RowsTyped

-----------------------------------------------------------------------------
(* Executions.                                                             *)

(* An execution's row alone, and with a result that keeps a checkpoint.    *)
LEMMA ExecutionFailed ==
  ASSUME CatalogueInv, Room("execution"), NEW names \in [RowColumns -> Ids \cup {None}],
         rows' = With(rows, Fresh("execution"), NewRow(names)),
         NEW fed \in SUBSET (Ids \X {Fresh("execution")}), flowed' = flowed \cup fed,
         objects' = objects, deletions' = deletions
  PROVE  CatalogueInv'
<1> DEFINE new == Fresh("execution")
<1>1. NewRow(names) \in RowsOver(Ids \cup {new})
  BY NewRowOver, RowsOverMore
<1>2. "execution" \in Kinds \ {"dataset_version", "dataset", "result"}
  BY DEF Kinds
<1>3. Ids' = Ids \cup {new}
  <2>1. DOMAIN rows' = DOMAIN rows \cup {new}
    BY DEF With
  <2> QED
    BY <2>1 DEF Ids
<1>4. flowed' \subseteq Ids' \X Ids'
  BY <1>3 DEF CatalogueInv, RowsTyped
<1> QED
  BY <1>1, <1>2, <1>4, NamerAdded

LEMMA CheckpointKept ==
  ASSUME CatalogueInv, Room("execution"), Room("result"),
         NEW ended \in [RowColumns -> Ids \cup {Fresh("result"), None}],
         NEW made \in [RowColumns -> Ids \cup {Fresh("execution"), None}],
         rows' = With(With(rows, Fresh("execution"), NewRow(ended)), Fresh("result"), NewRow(made)),
         objects' = objects \cup {Fresh("result")}, deletions' = deletions,
         NEW fed \in SUBSET (Ids \X {Fresh("execution")}),
         flowed' = flowed \cup fed \cup {<<Fresh("execution"), Fresh("result")>>}
  PROVE  CatalogueInv'
<1> DEFINE e == Fresh("execution")
           r == Fresh("result")
           J == Ids \cup {e, r}
           first == With(rows, e, NewRow(ended))
<1>1. Numbered /\ rows \in [Ids -> RowsOver(Ids)]
  BY DEF CatalogueInv, RowsTyped
<1>2. e \notin Ids /\ r \notin Ids /\ Kind(e) = "execution" /\ Kind(r) = "result" /\ e # r
  BY <1>1, FreshIs DEF Kinds
<1>3. rows \in [Ids -> RowsOver(J)] /\ DOMAIN rows = Ids
  BY <1>1, RowsOverMore
<1>4. NewRow(ended) \in RowsOver(J) /\ NewRow(made) \in RowsOver(J)
  <2>1. ended \in [RowColumns -> J \cup {None}] /\ made \in [RowColumns -> J \cup {None}]
    OBVIOUS
  <2> QED
    BY <2>1, NewRowOver
<1>5. /\ DOMAIN first = Ids \cup {e} /\ first \in [Ids \cup {e} -> RowsOver(J)]
      /\ \A i \in Ids : first[i] = rows[i]
  <2> HIDE DEF J, e
  <2> QED
    BY <1>2, <1>3, <1>4 DEF With
<1>6. /\ DOMAIN rows' = (Ids \cup {e}) \cup {r} /\ rows' \in [(Ids \cup {e}) \cup {r} -> RowsOver(J)]
      /\ \A i \in Ids : rows'[i] = rows[i]
  <2>1. rows' = With(first, r, NewRow(made)) /\ r \notin Ids \cup {e}
    BY <1>2
  <2> HIDE DEF J, e, r, first
  <2> QED
    BY <1>4, <1>5, <2>1 DEF With
<1>7. Ids' = J /\ rows' \in [Ids' -> RowsOver(Ids')]
  <2>1. (Ids \cup {e}) \cup {r} = J
    OBVIOUS
  <2> QED
    BY <1>6, <2>1 DEF Ids
<1>8. Numbered'
  <2> DEFINE K == {"execution", "result"}
  <2>1. Ids' = Ids \cup {Fresh(kind) : kind \in K} /\ K \in SUBSET Kinds
    BY <1>7 DEF Kinds
  <2>2. \A kind \in K : Room(kind)
    OBVIOUS
  <2> HIDE DEF K
  <2> QED
    BY <1>1, <2>1, <2>2, StillNumbered
<1>9. objects' \subseteq Ids' /\ flowed' \subseteq Ids' \X Ids' /\ deletions' \in 0..MaxDeletions
  BY <1>7 DEF CatalogueInv, RowsTyped
<1> HIDE DEF e, r
<1>10. OldRowsKept
  BY <1>6, <1>7 DEF OldRowsKept, r
<1>11. NewRowsStored /\ LastBecomesCurrent
  BY <1>2, <1>6, <1>7 DEF NewRowsStored, LastBecomesCurrent, r
<1> QED
  BY <1>7, <1>8, <1>9, <1>10, <1>11, Onward DEF CatalogueInv, RowsTyped

LEMMA DatasetLeft ==
  ASSUME CatalogueInv, Room("execution"), Room("result"), Room("dataset"), Room("dataset_version"),
         NEW ended \in [RowColumns -> Ids \cup {Fresh("result"), None}],
         NEW kept \in [RowColumns -> Ids \cup {Fresh("execution"), None}],
         NEW made, made = [kept EXCEPT !.dataset = Fresh("dataset"), !.version = Fresh("dataset_version")],
         rows' = Established(With(With(rows, Fresh("execution"), NewRow(ended)),
                                  Fresh("result"), NewRow(made)), None, kept),
         objects' = objects \cup {Fresh("dataset_version")}, deletions' = deletions,
         NEW fed \in SUBSET (Ids \X {Fresh("execution")}),
         flowed' = flowed \cup fed \cup {<<Fresh("execution"), Fresh("result")>>,
                                         <<Fresh("result"), Fresh("dataset_version")>>,
                                         <<Fresh("dataset_version"), Fresh("dataset")>>}
  PROVE  CatalogueInv'
<1> DEFINE e == Fresh("execution")
           r == Fresh("result")
           d == Fresh("dataset")
           w == Fresh("dataset_version")
           J == Ids \cup {e, r}
           more == J \cup {d, w}
           first == With(rows, e, NewRow(ended))
           both == With(first, r, NewRow(made))
<1>1. Numbered /\ rows \in [Ids -> RowsOver(Ids)]
  BY DEF CatalogueInv, RowsTyped
<1>2. /\ e \notin Ids /\ r \notin Ids /\ Kind(e) = "execution" /\ Kind(r) = "result" /\ e # r
      /\ w # None
  BY <1>1, FreshIs DEF Kinds
<1>3. rows \in [Ids -> RowsOver(more)] /\ DOMAIN rows = Ids
  BY <1>1, RowsOverMore
<1>4. NewRow(ended) \in RowsOver(more) /\ NewRow(made) \in RowsOver(more) /\ NewRow(made).names.version # None
  <2>1. ended \in [RowColumns -> more \cup {None}]
    OBVIOUS
  <2>2. made \in [RowColumns -> more \cup {None}] /\ made.version = w
    BY DEF RowColumns
  <2> HIDE DEF w, more
  <2> QED
    BY <1>2, <2>1, <2>2, NewRowOver
<1>5. /\ DOMAIN first = Ids \cup {e} /\ first \in [Ids \cup {e} -> RowsOver(more)]
      /\ \A i \in Ids : first[i] = rows[i]
  <2> HIDE DEF more, e
  <2> QED
    BY <1>2, <1>3, <1>4 DEF With
<1>6. /\ both \in [J -> RowsOver(more)]
      /\ \A i \in Ids : both[i] = rows[i]
      /\ both[r] = NewRow(made)
  <2>1. r \notin Ids \cup {e}
    BY <1>2
  <2>2. J = (Ids \cup {e}) \cup {r}
    OBVIOUS
  <2> HIDE DEF J, e, r, first, more
  <2> QED
    BY <1>4, <1>5, <2>1, <2>2 DEF With
<1>7. rows' = Established(both, None, kept)
  OBVIOUS
<1>8. kept \in [RowColumns -> J \cup {None}]
  OBVIOUS
<1>9. AsBefore(both)
  BY <1>6 DEF AsBefore
<1> HIDE DEF e, r, both
<1>10. \A i \in J \ Ids : /\ Kind(i) \notin {"dataset_version", "dataset"}
                          /\ Kind(i) = "result" => both[i].names.version # None
  BY <1>2, <1>4, <1>6
<1>11. Ids' = more /\ rows' \in [Ids' -> RowsOver(Ids')] /\ Stored' /\ CurrentOwn'
  <2>1. Ids \subseteq J /\ None \in J \cup {None}
    OBVIOUS
  <2>2. both \in [J -> RowsOver(J \cup {Fresh("dataset"), Fresh("dataset_version")})]
    BY <1>6
  <2> HIDE DEF J
  <2>3. objects' = objects \cup {Fresh("dataset_version")}
    OBVIOUS
  <2>4. /\ Ids' = J \cup {Fresh("dataset"), Fresh("dataset_version")}
        /\ rows' \in [Ids' -> RowsOver(Ids')] /\ Stored' /\ CurrentOwn'
    <3> HIDE DEF more, d, w
    <3> QED
      BY <1>7, <1>8, <1>9, <1>10, <2>1, <2>2, <2>3, DatasetStored
  <2> QED
    BY <2>4
<1>12. Numbered'
  <2> DEFINE K == {"execution", "result", "dataset", "dataset_version"}
  <2>1. Ids' = Ids \cup {Fresh(kind) : kind \in K} /\ K \in SUBSET Kinds
    BY <1>11 DEF Kinds, e, r
  <2>2. \A kind \in K : Room(kind)
    OBVIOUS
  <2> HIDE DEF K
  <2> QED
    BY <1>1, <2>1, <2>2, StillNumbered
<1>13. objects' \subseteq Ids' /\ flowed' \subseteq Ids' \X Ids' /\ deletions' \in 0..MaxDeletions
  BY <1>11 DEF CatalogueInv, RowsTyped, e, r
<1> QED
  BY <1>11, <1>12, <1>13 DEF CatalogueInv, RowsTyped

LEMMA Executed ==
  ASSUME CatalogueInv, NEW m \in Ids \cup {None}, NEW v \in Ids \cup {None}, NEW p \in Ids \cup {None},
         NEW leaves, Execute(m, v, p, leaves)
  PROVE  CatalogueInv'
<1> DEFINE e == Fresh("execution")
           r == Fresh("result")
           names == [Unnamed EXCEPT !.model = m, !.version = v, !.pipeline = p]
           ended == [names EXCEPT !.result = r]
           kept == [Unnamed EXCEPT !.execution = e]
           made == [kept EXCEPT !.dataset = Fresh("dataset"), !.version = Fresh("dataset_version")]
           fed == ({m, v, p} \ {None}) \X {e}
<1>1. Unnamed \in [RowColumns -> {None}]
  BY DEF Unnamed
<1>2. names \in [RowColumns -> Ids \cup {None}] /\ ended \in [RowColumns -> Ids \cup {r, None}]
      /\ kept \in [RowColumns -> Ids \cup {e, None}]
  BY <1>1 DEF RowColumns
<1>3. fed \in SUBSET (Ids \X {e})
  OBVIOUS
<1>4. Room("execution") /\ deletions' = deletions
  BY DEF Execute
<1>5. \/ /\ rows' = With(rows, e, NewRow(names))
         /\ flowed' = flowed \cup fed /\ objects' = objects
      \/ /\ Room("result")
         /\ rows' = With(With(rows, e, NewRow(ended)), r, NewRow(kept))
         /\ objects' = objects \cup {r} /\ flowed' = flowed \cup fed \cup {<<e, r>>}
      \/ /\ Room("result") /\ Room("dataset") /\ Room("dataset_version")
         /\ rows' = Established(With(With(rows, e, NewRow(ended)), r, NewRow(made)), None, kept)
         /\ objects' = objects \cup {Fresh("dataset_version")}
         /\ flowed' = flowed \cup fed \cup {<<e, r>>, <<r, Fresh("dataset_version")>>,
                                            <<Fresh("dataset_version"), Fresh("dataset")>>}
  BY DEF Execute
<1>6. made = [kept EXCEPT !.dataset = Fresh("dataset"), !.version = Fresh("dataset_version")]
  OBVIOUS
<1> HIDE DEF names, ended, kept, made, fed
<1>7. CASE /\ rows' = With(rows, e, NewRow(names))
           /\ flowed' = flowed \cup fed /\ objects' = objects
  BY <1>2, <1>3, <1>4, <1>7, ExecutionFailed
<1>8. CASE /\ Room("result")
           /\ rows' = With(With(rows, e, NewRow(ended)), r, NewRow(kept))
           /\ objects' = objects \cup {r} /\ flowed' = flowed \cup fed \cup {<<e, r>>}
  BY <1>2, <1>3, <1>4, <1>8, CheckpointKept
<1>9. CASE /\ Room("result") /\ Room("dataset") /\ Room("dataset_version")
           /\ rows' = Established(With(With(rows, e, NewRow(ended)), r, NewRow(made)), None, kept)
           /\ objects' = objects \cup {Fresh("dataset_version")}
           /\ flowed' = flowed \cup fed \cup {<<e, r>>, <<r, Fresh("dataset_version")>>,
                                              <<Fresh("dataset_version"), Fresh("dataset")>>}
  BY <1>2, <1>3, <1>4, <1>6, <1>9, DatasetLeft
<1> QED
  BY <1>5, <1>7, <1>8, <1>9

-----------------------------------------------------------------------------
(* The catalogue.                                                          *)

LEMMA CatalogueStarts == CatalogueInit => CatalogueInv
<1> SUFFICES ASSUME CatalogueInit PROVE CatalogueInv
  OBVIOUS
<1> DEFINE both == {Id("source", 1), Id("model", 1)}
           count == [kind \in Kinds |-> IF kind \in {"source", "model"} THEN 1 ELSE 0]
<1>1. rows = [i \in both |-> NewRow(Unnamed)] /\ objects = {} /\ deletions = 0 /\ flowed = {}
  BY DEF CatalogueInit
<1>2. Ids = both
  BY <1>1 DEF Ids
<1>3. Numbered
  <2>1. count \in [Kinds -> Nat] /\ \A kind \in Kinds : count[kind] <= Capacity[kind]
    BY CatalogueAssumption
  <2>2. both = Counted(count)
    BY DEF Counted, Kinds, Id
  <2> HIDE DEF count
  <2> QED
    BY <1>2, <2>1, <2>2 DEF Numbered
<1>4. \A i \in Ids : Kind(i) \in {"source", "model"}
  BY <1>2 DEF Kind, Id
<1>5. NewRow(Unnamed) \in RowsOver(Ids)
  BY Blank, NewRowOver
<1>6. rows \in [Ids -> RowsOver(Ids)]
  BY <1>1, <1>2, <1>5
<1>7. RowsTyped
  BY <1>1, <1>3, <1>6, CatalogueAssumption DEF RowsTyped
<1>8. Stored /\ CurrentOwn
  BY <1>4 DEF Stored, CurrentOwn, Kept
<1> QED
  BY <1>7, <1>8 DEF CatalogueInv

(* A row that only names others, and what it says of where data went.      *)
LEMMA NamerRecorded ==
  ASSUME CatalogueInv, NEW kind \in Kinds \ {"dataset_version", "dataset", "result"}, Room(kind),
         NEW row \in RowsOver(Ids), rows' = With(rows, Fresh(kind), row),
         NEW fed \in SUBSET (Ids \X {Fresh(kind)}), flowed' = flowed \cup fed,
         objects' = objects, deletions' = deletions
  PROVE  CatalogueInv'
<1> DEFINE new == Fresh(kind)
<1>1. row \in RowsOver(Ids \cup {new})
  BY RowsOverMore
<1>2. Ids' = Ids \cup {new}
  <2>1. DOMAIN rows' = DOMAIN rows \cup {new}
    BY DEF With
  <2> QED
    BY <2>1 DEF Ids
<1>3. flowed' \subseteq Ids' \X Ids'
  BY <1>2 DEF CatalogueInv, RowsTyped
<1> QED
  BY <1>1, <1>3, NamerAdded

LEMMA PipelineDefined ==
  ASSUME CatalogueInv, NEW d \in Kept("dataset") \cup {None}, DefinePipeline(d)
  PROVE  CatalogueInv'
<1>1. [Unnamed EXCEPT !.dataset = d] \in [RowColumns -> Ids \cup {None}]
  BY Blank DEF Kept
<1>2. NewRow([Unnamed EXCEPT !.dataset = d]) \in RowsOver(Ids)
  BY <1>1, NewRowOver
<1>3. /\ Room("pipeline") /\ objects' = objects /\ deletions' = deletions
      /\ rows' = With(rows, Fresh("pipeline"), NewRow([Unnamed EXCEPT !.dataset = d]))
      /\ flowed' = flowed \cup {} /\ {} \in SUBSET (Ids \X {Fresh("pipeline")})
  BY DEF DefinePipeline
<1>4. "pipeline" \in Kinds \ {"dataset_version", "dataset", "result"}
  BY DEF Kinds
<1> QED
  BY <1>2, <1>3, <1>4, NamerRecorded

LEMMA ChartMade ==
  ASSUME CatalogueInv, NEW i \in Ids, CreateVisualization(i)
  PROVE  CatalogueInv'
<1> DEFINE bound == [Unnamed EXCEPT !.version = ResolvedVersion(i),
                                    !.dataset = IF Kind(i) = "dataset" THEN i ELSE None,
                                    !.result = IF Kind(i) = "result" THEN i ELSE None]
           fed == {<<ResolvedVersion(i), Fresh("visualization")>>}
<1>1. rows[i].names \in [RowColumns -> Ids \cup {None}]
  BY DEF CatalogueInv, RowsTyped, RowsOver
<1>2. ResolvedVersion(i) \in Ids
  BY <1>1 DEF CreateVisualization, ResolvedVersion, RowColumns
<1>3. bound \in [RowColumns -> Ids \cup {None}]
  BY <1>2, Blank
<1>4. NewRow(bound) \in RowsOver(Ids)
  BY <1>3, NewRowOver
<1>5. /\ Room("visualization") /\ objects' = objects /\ deletions' = deletions
      /\ rows' = With(rows, Fresh("visualization"), NewRow(bound))
      /\ flowed' = flowed \cup fed
  BY DEF CreateVisualization
<1>6. fed \in SUBSET (Ids \X {Fresh("visualization")})
  BY <1>2
<1>7. "visualization" \in Kinds \ {"dataset_version", "dataset", "result"}
  BY DEF Kinds
<1> HIDE DEF bound, fed
<1> QED
  BY <1>4, <1>5, <1>6, <1>7, NamerRecorded

LEMMA DashboardMade ==
  ASSUME CatalogueInv, NEW charts \in SUBSET Kept("visualization"), CreateDashboard(charts)
  PROVE  CatalogueInv'
<1> DEFINE row == [NewRow(Unnamed) EXCEPT !.tiles = charts]
           fed == charts \X {Fresh("dashboard")}
<1>1. charts \subseteq Ids
  BY DEF Kept
<1>2. NewRow(Unnamed) \in RowsOver(Ids)
  BY Blank, NewRowOver
<1>3. row \in RowsOver(Ids)
  BY <1>1, <1>2 DEF RowsOver
<1>4. /\ Room("dashboard") /\ objects' = objects /\ deletions' = deletions
      /\ rows' = With(rows, Fresh("dashboard"), row) /\ flowed' = flowed \cup fed
  BY DEF CreateDashboard
<1>5. fed \in SUBSET (Ids \X {Fresh("dashboard")})
  BY <1>1
<1>6. "dashboard" \in Kinds \ {"dataset_version", "dataset", "result"}
  BY DEF Kinds
<1> HIDE DEF row, fed
<1> QED
  BY <1>3, <1>4, <1>5, <1>6, NamerRecorded

LEMMA TileAddedOrRemoved ==
  ASSUME CatalogueInv, NEW b \in Ids, NEW c \in Ids, AddTile(b, c) \/ RemoveTile(b, c)
  PROVE  CatalogueInv'
<1>1. rows[b].tiles \in SUBSET Ids /\ flowed \subseteq Ids \X Ids
  BY DEF CatalogueInv, RowsTyped, RowsOver
<1>2. CASE AddTile(b, c)
  <2>1. /\ b \in Kept("dashboard") /\ rows' = [rows EXCEPT ![b].tiles = rows[b].tiles \cup {c}]
        /\ flowed' = flowed \cup {<<c, b>>} /\ objects' = objects /\ deletions' = deletions
    BY <1>2 DEF AddTile
  <2>2. rows[b].tiles \cup {c} \in SUBSET Ids /\ flowed' \subseteq Ids \X Ids
    BY <1>1, <2>1
  <2> QED
    BY <2>1, <2>2, TilesChanged
<1>3. CASE RemoveTile(b, c)
  <2>1. /\ b \in Kept("dashboard") /\ rows' = [rows EXCEPT ![b].tiles = rows[b].tiles \ {c}]
        /\ flowed' = flowed \ {<<c, b>>} /\ objects' = objects /\ deletions' = deletions
    BY <1>3 DEF RemoveTile
  <2>2. rows[b].tiles \ {c} \in SUBSET Ids /\ flowed' \subseteq Ids \X Ids
    BY <1>1, <2>1
  <2> QED
    BY <2>1, <2>2, TilesChanged
<1> QED
  BY <1>2, <1>3

LEMMA CatalogueSteps == CatalogueInv /\ [CatalogueNext]_catalogueVars => CatalogueInv'
<1> SUFFICES ASSUME CatalogueInv, [CatalogueNext]_catalogueVars PROVE CatalogueInv'
  OBVIOUS
<1>1. CASE UNCHANGED catalogueVars
  BY <1>1 DEF catalogueVars, CatalogueInv, RowsTyped, Numbered, Stored, CurrentOwn, Kept, Naming, Ids
<1>2. ASSUME NEW i \in Ids,
             \/ CreateFromSource(i) \/ RefreshDataset(i) \/ DeleteSource(i)
             \/ DeleteDataset(i) \/ MaterialiseResult(i) \/ DeleteResult(i)
             \/ DeleteNamed(i) \/ CreateVisualization(i)
      PROVE  CatalogueInv'
  BY <1>2, CreatedFromSource, Refreshed, SourceDeleted, DatasetDeleted, ResultMaterialised,
     ResultDeleted, NamedDeleted, ChartMade
<1>3. ASSUME NEW b \in Kept("dashboard"),
             \/ \E c \in Kept("visualization") : AddTile(b, c)
             \/ \E c \in rows[b].tiles : RemoveTile(b, c)
      PROVE  CatalogueInv'
  <2>1. b \in Ids /\ Kept("visualization") \subseteq Ids
    BY DEF Kept
  <2>2. rows[b].tiles \subseteq Ids
    BY <2>1 DEF CatalogueInv, RowsTyped, RowsOver
  <2> QED
    BY <1>3, <2>1, <2>2, TileAddedOrRemoved
<1>4. ASSUME NEW d \in Kept("dataset") \cup {None}, DefinePipeline(d) PROVE CatalogueInv'
  BY <1>4, PipelineDefined
<1>5. ASSUME NEW leaves, NEW m \in Kept("model"), NEW v \in Kept("dataset_version"),
             Execute(m, v, None, leaves)
      PROVE  CatalogueInv'
  <2>1. m \in Ids \cup {None} /\ v \in Ids \cup {None} /\ None \in Ids \cup {None}
    BY DEF Kept
  <2> QED
    BY <1>5, <2>1, Executed
<1>6. ASSUME NEW leaves, NEW p \in Kept("pipeline"), Execute(None, None, p, leaves)
      PROVE  CatalogueInv'
  <2>1. p \in Ids \cup {None} /\ None \in Ids \cup {None}
    BY DEF Kept
  <2> QED
    BY <1>6, <2>1, Executed
<1>7. ASSUME NEW charts \in SUBSET Kept("visualization"), CreateDashboard(charts) PROVE CatalogueInv'
  BY <1>7, DashboardMade
<1> QED
  BY <1>1, <1>2, <1>3, <1>4, <1>5, <1>6, <1>7 DEF CatalogueNext

(* Rows are numbered, name rows there were, and files are of rows; what is on
   record is stored; the current version of a dataset is its own.          *)
THEOREM CatalogueInvariance == CatalogueSpec => []CatalogueInv
<1> QED
  BY CatalogueStarts, CatalogueSteps, PTL DEF CatalogueSpec

(* The catalogue's rows keep their types, whatever the capacities.         *)
THEOREM CatalogueTypeCorrect == CatalogueSpec => []CatalogueTypeOK
<1>1. CatalogueInv => CatalogueTypeOK
  <2> SUFFICES ASSUME CatalogueInv PROVE CatalogueTypeOK
    OBVIOUS
  <2>1. Ids \subseteq AllIds
    BY IdsAre DEF CatalogueInv, RowsTyped
  <2>2. \A i \in Ids : /\ rows[i].live \in BOOLEAN
                       /\ rows[i].names \in [RowColumns -> Ids \cup {None}]
                       /\ rows[i].tiles \subseteq Ids
    BY DEF CatalogueInv, RowsTyped, RowsOver
  <2> QED
    BY <2>1, <2>2 DEF CatalogueInv, RowsTyped, CatalogueTypeOK
<1> QED
  BY <1>1, CatalogueInvariance, PTL

(* What is on record can be read, whatever is materialised, refreshed and
   deleted: a version has its file, the current version of a dataset is its
   last one, and a result that was never materialised has its checkpoint.  *)
THEOREM RecordsReadableHolds == CatalogueSpec => []RecordsReadable
<1>1. CatalogueInv => RecordsReadable
  BY DEF CatalogueInv, Stored, CurrentOwn, RecordsReadable, Naming
<1> QED
  BY <1>1, CatalogueInvariance, PTL
=============================================================================
