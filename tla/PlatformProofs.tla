--------------------------- MODULE PlatformProofs ---------------------------
(***************************************************************************)
(* Proofs about Projects, Accounts, Publishing and Reports, for any        *)
(* projects, directories, resources, accounts, keys and requests, any      *)
(* number of links ever made and any formats a report is exported to.      *)
(***************************************************************************)
EXTENDS Projects, Accounts, Publishing, Reports, TLAPS

-----------------------------------------------------------------------------
(* Projects: types.                                                        *)

Requested == [op: {"idle", "create", "rename", "moved", "file", "delete"},
              project: ProjectIds \cup {NoProject},
              dir: Dirs \cup {NoDir}, to: Dirs \cup {NoDir},
              resource: Resources \cup {Unfiled}]

(* What a request carries, by what it is about to do.                      *)
Carries(what) ==
  /\ what.op = "create" => what.project \in ProjectIds /\ what.dir \in Dirs
  /\ what.op \in {"rename", "moved"} => what.project \in ProjectIds /\ what.to \in Dirs
  /\ what.op = "file" => what.resource \in Resources
  /\ what.op = "delete" => what.project \in ProjectIds

LEMMA IdleTyped == Idle \in Requested /\ Carries(Idle) /\ Idle.op = "idle"
  BY DEF Idle, Requested, Carries

ProjectTyped ==
  /\ ProjectTypeOK
  /\ \A c \in Clerks : request[c] \in Requested /\ Carries(request[c])

-----------------------------------------------------------------------------
(* Projects: the invariant.                                                *)

Moving(p) == \E c \in Clerks : request[c].op = "moved" /\ request[c].project = p

(* The unique constraint, whatever overlaps.                               *)
OwnDirectory == \A p, q \in Live : directory[p] = directory[q] => p = q

(* One request at a time until two overlapped.                             *)
OneRequest ==
  ~ crowded => \A c, d \in Clerks : request[c] # Idle /\ request[d] # Idle => c = d

(* Disk and row, and a rename between the two.                             *)
FilesInv ==
  ~ crowded /\ ~ interrupted =>
    /\ \A p \in Live : Moving(p) \/ (filesIn[p] = directory[p] /\ directory[p] \in onDisk)
    /\ \A c \in Clerks : request[c].op \in {"rename", "moved"} =>
         /\ request[c].project \in Live
         /\ request[c].dir = directory[request[c].project]
         /\ request[c].op = "moved" => filesIn[request[c].project] = request[c].to

(* What is filed, being filed, or about to lose its project.               *)
FiledInv ==
  ~ crowded /\ ~ fromElsewhere =>
    /\ \A r \in Resources : filed[r] \in Live \cup {NoProject, Unfiled}
    /\ \A c \in Clerks :
         /\ request[c].op = "file" => request[c].project \in Live \cup {NoProject}
         /\ request[c].op = "delete" => \A r \in Resources : filed[r] # request[c].project

ProjectInv == ProjectTyped /\ OwnDirectory /\ OneRequest /\ FilesInv /\ FiledInv

-----------------------------------------------------------------------------
(* Projects: how requests begin and end.                                   *)

LEMMA Beginning ==
  ASSUME ProjectTyped, OneRequest, NEW c \in Clerks, NEW what \in Requested, Carries(what),
         what.op # "idle", Begin(c, what)
  PROVE  /\ request' \in [Clerks -> Requested] /\ crowded' \in BOOLEAN
         /\ \A d \in Clerks : request'[d] \in Requested /\ Carries(request'[d])
         /\ request'[c] = what /\ \A d \in Clerks \ {c} : request'[d] = request[d]
         /\ ~ crowded' => ~ crowded /\ \A d \in Clerks : request[d] = Idle
         /\ OneRequest'
<1>1. request' = [request EXCEPT ![c] = what]
  BY DEF Begin
<1>2. request \in [Clerks -> Requested]
  BY DEF ProjectTyped, ProjectTypeOK, Requested
<1>3. crowded' = (crowded \/ \E d \in Clerks : request[d] # Idle)
  BY DEF Begin
<1>4. ~ crowded' => ~ crowded /\ \A d \in Clerks : request[d] = Idle
  BY <1>3
<1>5. request'[c] = what /\ \A d \in Clerks \ {c} : request'[d] = request[d]
  BY <1>1, <1>2
<1>6. OneRequest'
  BY <1>4, <1>5 DEF OneRequest
<1>7. \A d \in Clerks : request'[d] \in Requested /\ Carries(request'[d])
  BY <1>2, <1>5 DEF ProjectTyped
<1>8. crowded' \in BOOLEAN
  BY <1>3 DEF ProjectTyped, ProjectTypeOK
<1> QED
  BY <1>1, <1>2, <1>4, <1>5, <1>6, <1>7, <1>8

LEMMA Ending ==
  ASSUME ProjectTyped, OneRequest, NEW c \in Clerks, End(c), crowded' = crowded
  PROVE  /\ request' \in [Clerks -> Requested]
         /\ \A d \in Clerks : request'[d] \in Requested /\ Carries(request'[d])
         /\ request'[c] = Idle /\ \A d \in Clerks \ {c} : request'[d] = request[d]
         /\ OneRequest'
<1>1. request' = [request EXCEPT ![c] = Idle]
  BY DEF End
<1>2. request \in [Clerks -> Requested]
  BY DEF ProjectTyped, ProjectTypeOK, Requested
<1>3. request'[c] = Idle /\ \A d \in Clerks \ {c} : request'[d] = request[d]
  BY <1>1, <1>2
<1>4. \A d \in Clerks : request'[d] \in Requested /\ Carries(request'[d])
  BY <1>2, <1>3, IdleTyped DEF ProjectTyped
<1>5. OneRequest'
  BY <1>3 DEF OneRequest
<1> QED
  BY <1>1, <1>2, <1>3, <1>4, <1>5, IdleTyped

(* A request by itself finds the others idle.                              *)
LEMMA ByItself ==
  ASSUME OneRequest, ~ crowded, NEW c \in Clerks, request[c].op # "idle"
  PROVE  \A d \in Clerks \ {c} : request[d] = Idle
  BY IdleTyped DEF OneRequest

(* A request that begins, or ends, without touching rows or disk.          *)
LEMMA OnlyAsked ==
  ASSUME ProjectInv, NEW c \in Clerks, NEW what \in Requested, Carries(what),
         what.op # "idle", what.op # "moved", Begin(c, what),
         UNCHANGED <<directory, onDisk, filesIn, filed, interrupted>>,
         fromElsewhere' \in BOOLEAN, fromElsewhere => fromElsewhere',
         what.op = "rename" => what.project \in Live /\ what.dir = directory[what.project],
         what.op = "file" => what.project \in Live \cup {NoProject},
         what.op = "delete" /\ ~ fromElsewhere' => \A r \in Resources : filed[r] # what.project
  PROVE  ProjectInv'
<1>1. ProjectTyped /\ OneRequest /\ OwnDirectory /\ FilesInv /\ FiledInv
  BY DEF ProjectInv
<1>2. /\ request' \in [Clerks -> Requested] /\ crowded' \in BOOLEAN
      /\ \A d \in Clerks : request'[d] \in Requested /\ Carries(request'[d])
      /\ request'[c] = what /\ \A d \in Clerks \ {c} : request'[d] = request[d]
      /\ ~ crowded' => ~ crowded /\ \A d \in Clerks : request[d] = Idle
      /\ OneRequest'
  BY <1>1, Beginning
<1>3. ProjectTyped'
  BY <1>1, <1>2 DEF ProjectTyped, ProjectTypeOK, Requested
<1>4. OwnDirectory' /\ Live' = Live
  BY <1>1 DEF OwnDirectory, Live
<1>5. FilesInv'
  <2> SUFFICES ASSUME ~ crowded', ~ interrupted'
               PROVE  /\ \A p \in Live : filesIn[p] = directory[p] /\ directory[p] \in onDisk
                      /\ \A d \in Clerks : request'[d].op \in {"rename", "moved"} =>
                           /\ request'[d].project \in Live
                           /\ request'[d].dir = directory[request'[d].project]
                           /\ request'[d].op # "moved"
    BY <1>4 DEF FilesInv
  <2>1. \A d \in Clerks : request[d].op = "idle"
    BY <1>2, IdleTyped
  <2>2. \A p \in Live : filesIn[p] = directory[p] /\ directory[p] \in onDisk
    BY <1>1, <1>2, <2>1 DEF FilesInv, Moving
  <2> QED
    BY <1>2, <2>1, <2>2
<1>6. FiledInv'
  <2> SUFFICES ASSUME ~ crowded', ~ fromElsewhere'
               PROVE  /\ \A r \in Resources : filed[r] \in Live \cup {NoProject, Unfiled}
                      /\ \A d \in Clerks :
                         /\ request'[d].op = "file" => request'[d].project \in Live \cup {NoProject}
                         /\ request'[d].op = "delete" =>
                              \A r \in Resources : filed[r] # request'[d].project
    BY <1>4 DEF FiledInv
  <2>1. \A d \in Clerks : request[d].op = "idle"
    BY <1>2, IdleTyped
  <2> QED
    BY <1>1, <1>2, <2>1 DEF FiledInv
<1> QED
  BY <1>2, <1>3, <1>4, <1>5, <1>6 DEF ProjectInv

LEMMA Asking ==
  ASSUME ProjectInv, NEW c \in Clerks,
         AskCreate(c) \/ AskRename(c) \/ AskFile(c) \/ AskDelete(c)
  PROVE  ProjectInv'
<1>0. ProjectTypeOK
  BY DEF ProjectInv, ProjectTyped
<1>1. CASE AskCreate(c)
  <2>1. PICK p \in ProjectIds \ Live, d \in Dirs :
          Begin(c, [Idle EXCEPT !.op = "create", !.project = p, !.dir = d])
    BY <1>1 DEF AskCreate
  <2> DEFINE what == [Idle EXCEPT !.op = "create", !.project = p, !.dir = d]
  <2>2. what \in Requested /\ Carries(what) /\ what.op = "create"
    BY DEF Idle, Requested, Carries
  <2> QED
    BY <1>0, <1>1, <2>1, <2>2, OnlyAsked DEF AskCreate, ProjectTypeOK
<1>2. CASE AskRename(c)
  <2>1. PICK p \in Live, d \in Dirs :
          Begin(c, [Idle EXCEPT !.op = "rename", !.project = p, !.dir = directory[p], !.to = d])
    BY <1>2 DEF AskRename
  <2> DEFINE what == [Idle EXCEPT !.op = "rename", !.project = p, !.dir = directory[p], !.to = d]
  <2>2. p \in ProjectIds /\ directory[p] \in Dirs \cup {NoDir}
    BY <1>0 DEF Live, ProjectTypeOK
  <2>3. /\ what \in Requested /\ Carries(what) /\ what.op = "rename"
        /\ what.project = p /\ what.dir = directory[p]
    BY <2>2 DEF Idle, Requested, Carries
  <2> QED
    BY <1>0, <1>2, <2>1, <2>3, OnlyAsked DEF AskRename, ProjectTypeOK
<1>3. CASE AskFile(c)
  <2>1. PICK r \in Resources, p \in Standing :
          Begin(c, [Idle EXCEPT !.op = "file", !.project = p, !.resource = r])
    BY <1>3 DEF AskFile
  <2> DEFINE what == [Idle EXCEPT !.op = "file", !.project = p, !.resource = r]
  <2>2. p \in ProjectIds \cup {NoProject}
    BY DEF Standing, Live
  <2>3. what \in Requested /\ Carries(what) /\ what.op = "file" /\ what.project = p
    BY <2>2 DEF Idle, Requested, Carries
  <2> QED
    BY <1>0, <1>3, <2>1, <2>3, OnlyAsked DEF AskFile, ProjectTypeOK, Standing
<1>4. CASE AskDelete(c)
  <2>1. PICK p \in Live \ {DefaultProject}, standing \in Standing :
          /\ Holdings(standing, p) = {}
          /\ Begin(c, [Idle EXCEPT !.op = "delete", !.project = p])
          /\ fromElsewhere' = (fromElsewhere \/ standing \notin {p, NoProject})
    BY <1>4 DEF AskDelete
  <2> DEFINE what == [Idle EXCEPT !.op = "delete", !.project = p]
  <2>2. p \in ProjectIds
    BY DEF Live
  <2>3. what \in Requested /\ Carries(what) /\ what.op = "delete" /\ what.project = p
    BY <2>2 DEF Idle, Requested, Carries
  <2>4. ASSUME ~ fromElsewhere', NEW r \in Resources PROVE filed[r] # p
    <3>1. standing \in {p, NoProject}
      BY <2>1, <2>4
    <3>2. filed[r] = p => r \in Holdings(standing, p)
      BY <2>2, <3>1, ProjectConstants DEF Holdings, Listed
    <3> QED
      BY <2>1, <3>2
  <2>5. fromElsewhere' \in BOOLEAN /\ (fromElsewhere => fromElsewhere')
    BY <1>0, <2>1 DEF ProjectTypeOK
  <2> QED
    BY <1>4, <2>1, <2>3, <2>4, <2>5, OnlyAsked DEF AskDelete
<1> QED
  BY <1>1, <1>2, <1>3, <1>4

-----------------------------------------------------------------------------
(* Projects: how requests finish.                                          *)

LEMMA NoDirectory == ASSUME ProjectTypeOK, NEW p \in Live PROVE directory[p] \in Dirs /\ p \in ProjectIds
  BY DEF Live, ProjectTypeOK

LEMMA Creating == ASSUME ProjectInv, NEW c \in Clerks, CreateProject(c) PROVE ProjectInv'
<1> DEFINE p == request[c].project
           d == request[c].dir
<1>1. ProjectTyped /\ ProjectTypeOK /\ OneRequest /\ OwnDirectory /\ FilesInv /\ FiledInv
  BY DEF ProjectInv, ProjectTyped
<1>2. p \in ProjectIds /\ d \in Dirs /\ d # NoDir /\ request[c].op = "create"
  BY <1>1, ProjectConstants DEF CreateProject, ProjectTyped, Carries
<1>3. UNCHANGED <<filed, crowded, interrupted, fromElsewhere>>
  BY DEF CreateProject
<1>4. /\ request' \in [Clerks -> Requested]
      /\ \A e \in Clerks : request'[e] \in Requested /\ Carries(request'[e])
      /\ request'[c] = Idle /\ \A e \in Clerks \ {c} : request'[e] = request[e]
      /\ OneRequest'
  BY <1>1, <1>3, Ending DEF CreateProject
<1>5. ~ crowded => \A e \in Clerks : request'[e] = Idle
  BY <1>1, <1>2, <1>4, ByItself
<1>6. \/ UNCHANGED <<directory, onDisk, filesIn>>
      \/ /\ directory' = [directory EXCEPT ![p] = d] /\ onDisk' = onDisk \cup {d}
         /\ filesIn' = [filesIn EXCEPT ![p] = d]
         /\ p \notin Live /\ \A q \in Live \ {p} : directory[q] # d
  BY DEF CreateProject, TakenInDatabase, Taken
<1>7. ProjectTyped'
  BY <1>1, <1>2, <1>3, <1>4, <1>6 DEF ProjectTyped, ProjectTypeOK, Requested
<1>8. \A q \in Live : q # p \/ UNCHANGED <<directory, onDisk, filesIn>>
  BY <1>6
<1>9. /\ Live \subseteq Live' /\ Live' \subseteq Live \cup {p}
      /\ \A q \in Live : directory'[q] = directory[q] /\ filesIn'[q] = filesIn[q]
      /\ onDisk \subseteq onDisk'
      /\ p \in Live' \ Live =>
           directory'[p] = d /\ filesIn'[p] = d /\ d \in onDisk' /\ \A q \in Live : directory[q] # d
  <2>1. CASE UNCHANGED <<directory, onDisk, filesIn>>
    BY <2>1 DEF Live
  <2>2. CASE ~ UNCHANGED <<directory, onDisk, filesIn>>
    BY <1>1, <1>2, <1>6, <2>2 DEF Live, ProjectTypeOK
  <2> QED
    BY <2>1, <2>2
<1>10. OwnDirectory'
  BY <1>1, <1>9 DEF OwnDirectory
<1>11. FilesInv'
  <2> SUFFICES ASSUME ~ crowded', ~ interrupted'
               PROVE  /\ \A q \in Live' : filesIn'[q] = directory'[q] /\ directory'[q] \in onDisk'
                      /\ \A e \in Clerks : request'[e].op \notin {"rename", "moved"}
    BY DEF FilesInv
  <2>1. \A e \in Clerks : request[e].op # "moved"
    BY <1>1, <1>2, <1>3, ByItself, IdleTyped
  <2>2. \A q \in Live : filesIn[q] = directory[q] /\ directory[q] \in onDisk
    BY <1>1, <1>3, <2>1 DEF FilesInv, Moving
  <2> QED
    BY <1>3, <1>5, <1>9, <2>2, IdleTyped
<1>12. FiledInv'
  BY <1>1, <1>3, <1>5, <1>9, IdleTyped DEF FiledInv
<1> QED
  BY <1>4, <1>7, <1>10, <1>11, <1>12 DEF ProjectInv

LEMMA MovingFiles == ASSUME ProjectInv, NEW c \in Clerks, MoveFiles(c) PROVE ProjectInv'
<1> DEFINE p == request[c].project
           old == request[c].dir
           new == request[c].to
<1>1. ProjectTyped /\ ProjectTypeOK /\ OneRequest /\ OwnDirectory /\ FilesInv /\ FiledInv
  BY DEF ProjectInv, ProjectTyped
<1>2. p \in ProjectIds /\ new \in Dirs /\ old \in Dirs \cup {NoDir} /\ request[c].op = "rename"
      /\ request[c] \in Requested
  BY <1>1 DEF MoveFiles, ProjectTyped, Carries, Requested
<1>3. UNCHANGED <<directory, filed, crowded, interrupted, fromElsewhere>>
  BY DEF MoveFiles
<1>4. ~ crowded => \A e \in Clerks \ {c} : request[e] = Idle
  BY <1>1, <1>2, ByItself
<1>5. OwnDirectory' /\ Live' = Live
  BY <1>1, <1>3 DEF OwnDirectory, Live
<1>6. CASE old \in onDisk /\ new \in onDisk
  <2>1. UNCHANGED <<onDisk, filesIn>> /\ End(c)
    BY <1>6 DEF MoveFiles
  <2>2. /\ request' \in [Clerks -> Requested]
        /\ \A e \in Clerks : request'[e] \in Requested /\ Carries(request'[e])
        /\ request'[c] = Idle /\ \A e \in Clerks \ {c} : request'[e] = request[e]
        /\ OneRequest'
    BY <1>1, <1>3, <2>1, Ending
  <2>3. ProjectTyped'
    BY <1>1, <1>3, <2>1, <2>2 DEF ProjectTyped, ProjectTypeOK, Requested
  <2>4. \A e \in Clerks : request[e].op = "moved" => request'[e] = request[e]
    BY <1>2, <2>2
  <2>5. FilesInv'
    <3>1. \A q : Moving(q) => Moving(q)'
      BY <2>2, <2>4 DEF Moving
    <3>2. \A e \in Clerks : request'[e].op \in {"rename", "moved"} => request'[e] = request[e]
      BY <2>2, IdleTyped
    <3> QED
      BY <1>1, <1>3, <1>5, <2>1, <3>1, <3>2 DEF FilesInv
  <2>6. FiledInv'
    <3>1. \A e \in Clerks : request'[e].op \in {"file", "delete"} => request'[e] = request[e]
      BY <2>2, IdleTyped
    <3> QED
      BY <1>1, <1>3, <1>5, <3>1 DEF FiledInv
  <2> QED
    BY <1>5, <2>2, <2>3, <2>5, <2>6 DEF ProjectInv
<1>7. CASE ~ (old \in onDisk /\ new \in onDisk)
  <2>1. request' = [request EXCEPT ![c].op = "moved"]
    BY <1>7 DEF MoveFiles
  <2>2. [request[c] EXCEPT !.op = "moved"] \in Requested
    BY <1>2 DEF Requested
  <2>3. /\ request'[c] = [request[c] EXCEPT !.op = "moved"]
        /\ \A e \in Clerks \ {c} : request'[e] = request[e]
        /\ request' \in [Clerks -> Requested]
    BY <1>1, <2>1, <2>2 DEF ProjectTypeOK, Requested
  <2>4. /\ request'[c].op = "moved" /\ request'[c].project = p
        /\ request'[c].dir = old /\ request'[c].to = new
    BY <1>2, <2>3 DEF Requested
  <2>5. \/ old \in onDisk /\ onDisk' = (onDisk \ {old}) \cup {new} /\ filesIn' = Moved(old, new)
        \/ old \notin onDisk /\ UNCHANGED <<onDisk, filesIn>>
    BY <1>7 DEF MoveFiles
  <2>6. ProjectTyped'
    <3>1. onDisk' \subseteq Dirs /\ filesIn' \in [ProjectIds -> Dirs \cup {NoDir}]
      BY <1>1, <1>2, <2>5 DEF ProjectTypeOK, Moved
    <3>2. \A e \in Clerks : request'[e] \in Requested /\ Carries(request'[e])
      BY <1>1, <1>2, <2>2, <2>3, <2>4 DEF ProjectTyped, Carries
    <3> QED
      BY <1>1, <1>3, <2>3, <3>1, <3>2 DEF ProjectTyped, ProjectTypeOK, Requested
  <2>7. OneRequest'
    <3>1. request[c] # Idle /\ request'[c] # Idle
      BY <1>2, <2>4, IdleTyped
    <3> QED
      BY <1>1, <1>3, <2>3, <3>1 DEF OneRequest
  <2>8. FilesInv'
    <3> SUFFICES ASSUME ~ crowded', ~ interrupted'
                 PROVE  /\ \A q \in Live : q # p => filesIn'[q] = directory[q] /\ directory[q] \in onDisk'
                        /\ p \in Live /\ old = directory[p] /\ filesIn'[p] = new
                        /\ \A e \in Clerks \ {c} : request'[e].op \notin {"rename", "moved"}
      BY <1>3, <1>5, <2>4 DEF FilesInv, Moving
    <3>1. \A e \in Clerks \ {c} : request[e] = Idle /\ request'[e] = Idle
      BY <1>3, <1>4, <2>3
    <3>2. \A e \in Clerks : request[e].op # "moved"
      BY <1>2, <3>1, IdleTyped
    <3>3. \A q \in Live : filesIn[q] = directory[q] /\ directory[q] \in onDisk
      BY <1>1, <1>3, <3>2 DEF FilesInv, Moving
    <3>4. p \in Live /\ old = directory[p]
      BY <1>1, <1>2, <1>3 DEF FilesInv
    <3>5. onDisk' = (onDisk \ {old}) \cup {new} /\ filesIn' = Moved(old, new)
      BY <2>5, <3>3, <3>4
    <3>6. \A q \in Live : q # p => directory[q] # old
      BY <1>1, <3>4 DEF OwnDirectory
    <3>7. \A q \in ProjectIds : filesIn'[q] = IF filesIn[q] = old THEN new ELSE filesIn[q]
      BY <3>5 DEF Moved
    <3>8. \A q \in Live : q \in ProjectIds
      BY DEF Live
    <3> QED
      BY <3>1, <3>3, <3>4, <3>5, <3>6, <3>7, <3>8, IdleTyped
  <2>9. FiledInv'
    <3>1. \A e \in Clerks : request'[e].op \in {"file", "delete"} => request'[e] = request[e]
      BY <2>3, <2>4
    <3> QED
      BY <1>1, <1>3, <1>5, <3>1 DEF FiledInv
  <2> QED
    BY <1>5, <2>6, <2>7, <2>8, <2>9 DEF ProjectInv
<1> QED
  BY <1>6, <1>7

LEMMA Renaming == ASSUME ProjectInv, NEW c \in Clerks, RenameProject(c) PROVE ProjectInv'
<1> DEFINE p == request[c].project
           d == request[c].to
<1>1. ProjectTyped /\ ProjectTypeOK /\ OneRequest /\ OwnDirectory /\ FilesInv /\ FiledInv
  BY DEF ProjectInv, ProjectTyped
<1>2. p \in ProjectIds /\ d \in Dirs /\ d # NoDir /\ request[c].op = "moved"
  BY <1>1, ProjectConstants DEF RenameProject, ProjectTyped, Carries
<1>3. UNCHANGED <<filesIn, filed, crowded, fromElsewhere>>
  BY DEF RenameProject
<1>4. /\ request' \in [Clerks -> Requested]
      /\ \A e \in Clerks : request'[e] \in Requested /\ Carries(request'[e])
      /\ request'[c] = Idle /\ \A e \in Clerks \ {c} : request'[e] = request[e]
      /\ OneRequest'
  BY <1>1, <1>3, Ending DEF RenameProject
<1>5. ~ crowded => \A e \in Clerks : request'[e] = Idle
  BY <1>1, <1>2, <1>4, ByItself
<1>6. \/ interrupted' = TRUE /\ UNCHANGED <<directory, onDisk>>
      \/ /\ directory' = [directory EXCEPT ![p] = d] /\ onDisk' = onDisk \cup {d}
         /\ interrupted' = interrupted /\ \A q \in Live \ {p} : directory[q] # d
  BY DEF RenameProject, TakenInDatabase, Taken
<1>7. ProjectTyped'
  BY <1>1, <1>2, <1>3, <1>4, <1>6 DEF ProjectTyped, ProjectTypeOK, Requested
<1>8. CASE interrupted' = TRUE /\ UNCHANGED <<directory, onDisk>>
  <2>1. OwnDirectory' /\ Live' = Live
    BY <1>1, <1>8 DEF OwnDirectory, Live
  <2>2. FilesInv'
    BY <1>8 DEF FilesInv
  <2>3. FiledInv'
    BY <1>1, <1>3, <1>5, <2>1, IdleTyped DEF FiledInv
  <2> QED
    BY <1>4, <1>7, <2>1, <2>2, <2>3 DEF ProjectInv
<1>9. CASE ~ (interrupted' = TRUE /\ UNCHANGED <<directory, onDisk>>)
  <2>0. /\ directory' = [directory EXCEPT ![p] = d] /\ onDisk' = onDisk \cup {d}
        /\ interrupted' = interrupted /\ \A q \in Live \ {p} : directory[q] # d
    BY <1>6, <1>9
  <2>1. Live' = Live \cup {p} /\ directory'[p] = d /\ \A q \in Live \ {p} : directory'[q] = directory[q]
    BY <1>1, <1>2, <2>0 DEF Live, ProjectTypeOK
  <2>2. OwnDirectory'
    BY <1>1, <2>0, <2>1 DEF OwnDirectory
  <2>3. FilesInv'
    <3> SUFFICES ASSUME ~ crowded', ~ interrupted'
                 PROVE  /\ \A q \in Live' : filesIn'[q] = directory'[q] /\ directory'[q] \in onDisk'
                        /\ \A e \in Clerks : request'[e].op \notin {"rename", "moved"}
      BY DEF FilesInv
    <3>1. filesIn[p] = d
      BY <1>1, <1>2, <1>3, <2>0 DEF FilesInv
    <3>2. ASSUME NEW q \in Live \ {p} PROVE filesIn[q] = directory[q] /\ directory[q] \in onDisk
      <4>1. ~ Moving(q)
        BY <1>1, <1>2, <1>3, ByItself, IdleTyped DEF Moving
      <4> QED
        BY <1>1, <1>3, <2>0, <4>1 DEF FilesInv
    <3> QED
      BY <1>3, <1>5, <2>0, <2>1, <3>1, <3>2, IdleTyped
  <2>4. FiledInv'
    BY <1>1, <1>3, <1>5, <2>1, IdleTyped DEF FiledInv
  <2> QED
    BY <1>4, <1>7, <2>2, <2>3, <2>4 DEF ProjectInv
<1> QED
  BY <1>8, <1>9

LEMMA Filing == ASSUME ProjectInv, NEW c \in Clerks, FileResource(c) PROVE ProjectInv'
<1>1. ProjectTyped /\ ProjectTypeOK /\ OneRequest /\ OwnDirectory /\ FilesInv /\ FiledInv
  BY DEF ProjectInv, ProjectTyped
<1>2. /\ request[c].op = "file" /\ request[c].resource \in Resources
      /\ request[c].project \in ProjectIds \cup {NoProject}
  BY <1>1 DEF FileResource, ProjectTyped, Carries, Requested
<1>3. UNCHANGED <<directory, onDisk, filesIn, crowded, interrupted, fromElsewhere>>
  BY DEF FileResource
<1>4. /\ request' \in [Clerks -> Requested]
      /\ \A e \in Clerks : request'[e] \in Requested /\ Carries(request'[e])
      /\ request'[c] = Idle /\ \A e \in Clerks \ {c} : request'[e] = request[e]
      /\ OneRequest'
  BY <1>1, <1>3, Ending DEF FileResource
<1>5. ~ crowded => \A e \in Clerks : request'[e] = Idle
  BY <1>1, <1>2, <1>4, ByItself
<1>6. \A r \in Resources : filed'[r] \in {filed[r], request[c].project}
  BY <1>1 DEF FileResource, ProjectTypeOK
<1>7. ProjectTyped'
  <2>1. filed' \in [Resources -> ProjectIds \cup {NoProject, Unfiled}]
    BY <1>1, <1>2 DEF FileResource, ProjectTypeOK
  <2> QED
    BY <1>1, <1>3, <1>4, <2>1 DEF ProjectTyped, ProjectTypeOK, Requested
<1>8. OwnDirectory' /\ Live' = Live
  BY <1>1, <1>3 DEF OwnDirectory, Live
<1>9. FilesInv'
  <2>1. \A e \in Clerks : request[e].op = "moved" => request'[e] = request[e]
    BY <1>2, <1>4
  <2>2. \A q : Moving(q) => Moving(q)'
    BY <2>1 DEF Moving
  <2>3. \A e \in Clerks : request'[e].op \in {"rename", "moved"} => request'[e] = request[e]
    BY <1>4, IdleTyped
  <2> QED
    BY <1>1, <1>3, <1>8, <2>2, <2>3 DEF FilesInv
<1>10. FiledInv'
  BY <1>1, <1>2, <1>3, <1>5, <1>6, <1>8, IdleTyped DEF FiledInv
<1> QED
  BY <1>4, <1>7, <1>8, <1>9, <1>10 DEF ProjectInv

LEMMA Dropping == ASSUME ProjectInv, NEW r \in Resources, DropResource(r) PROVE ProjectInv'
<1>1. ProjectTyped /\ ProjectTypeOK /\ OneRequest /\ OwnDirectory /\ FilesInv /\ FiledInv
  BY DEF ProjectInv, ProjectTyped
<1>2. UNCHANGED <<directory, onDisk, filesIn, request, crowded, interrupted, fromElsewhere>>
  BY DEF DropResource
<1>3. \A x \in Resources : filed'[x] \in {filed[x], Unfiled}
  BY <1>1 DEF DropResource, ProjectTypeOK
<1>4. ProjectTyped'
  <2>1. filed' \in [Resources -> ProjectIds \cup {NoProject, Unfiled}]
    BY <1>1 DEF DropResource, ProjectTypeOK
  <2> QED
    BY <1>1, <1>2, <2>1 DEF ProjectTyped, ProjectTypeOK
<1>5. OwnDirectory' /\ OneRequest' /\ FilesInv' /\ Live' = Live
  BY <1>1, <1>2 DEF OwnDirectory, OneRequest, FilesInv, Moving, Live
<1>6. FiledInv'
  <2>1. \A c \in Clerks : request[c].op = "delete" => request[c].project # Unfiled
    BY <1>1, ProjectConstants DEF ProjectTyped, Carries
  <2> QED
    BY <1>1, <1>2, <1>3, <1>5, <2>1 DEF FiledInv
<1> QED
  BY <1>4, <1>5, <1>6 DEF ProjectInv

LEMMA Deleting == ASSUME ProjectInv, NEW c \in Clerks, DeleteProject(c) PROVE ProjectInv'
<1> DEFINE p == request[c].project
<1>1. ProjectTyped /\ ProjectTypeOK /\ OneRequest /\ OwnDirectory /\ FilesInv /\ FiledInv
  BY DEF ProjectInv, ProjectTyped
<1>2. p \in ProjectIds /\ request[c].op = "delete"
  BY <1>1 DEF DeleteProject, ProjectTyped, Carries
<1>3. UNCHANGED <<onDisk, filed, crowded, interrupted, fromElsewhere>>
  BY DEF DeleteProject
<1>4. /\ request' \in [Clerks -> Requested]
      /\ \A e \in Clerks : request'[e] \in Requested /\ Carries(request'[e])
      /\ request'[c] = Idle /\ \A e \in Clerks \ {c} : request'[e] = request[e]
      /\ OneRequest'
  BY <1>1, <1>3, Ending DEF DeleteProject
<1>5. ~ crowded => \A e \in Clerks : request'[e] = Idle
  BY <1>1, <1>2, <1>4, ByItself
<1>6. /\ directory' = [directory EXCEPT ![p] = NoDir] /\ filesIn' = [filesIn EXCEPT ![p] = NoDir]
  BY DEF DeleteProject
<1>7. ProjectTyped'
  BY <1>1, <1>2, <1>3, <1>4, <1>6 DEF ProjectTyped, ProjectTypeOK, Requested
<1>8. Live' = Live \ {p} /\ \A q \in Live' : directory'[q] = directory[q] /\ filesIn'[q] = filesIn[q]
  BY <1>1, <1>2, <1>6 DEF Live, ProjectTypeOK
<1>9. OwnDirectory'
  BY <1>1, <1>8 DEF OwnDirectory
<1>10. FilesInv'
  <2> SUFFICES ASSUME ~ crowded', ~ interrupted'
               PROVE  /\ \A q \in Live' : filesIn'[q] = directory'[q] /\ directory'[q] \in onDisk'
                      /\ \A e \in Clerks : request'[e].op \notin {"rename", "moved"}
    BY DEF FilesInv
  <2>1. \A e \in Clerks : request[e].op # "moved"
    BY <1>1, <1>2, <1>3, ByItself, IdleTyped
  <2>2. \A q \in Live : filesIn[q] = directory[q] /\ directory[q] \in onDisk
    BY <1>1, <1>3, <2>1 DEF FilesInv, Moving
  <2> QED
    BY <1>3, <1>5, <1>8, <2>2, IdleTyped
<1>11. FiledInv'
  BY <1>1, <1>2, <1>3, <1>5, <1>8, IdleTyped DEF FiledInv
<1> QED
  BY <1>4, <1>7, <1>9, <1>10, <1>11 DEF ProjectInv

LEMMA Abandoning == ASSUME ProjectInv, NEW c \in Clerks, AbandonRequest(c) PROVE ProjectInv'
<1>1. ProjectTyped /\ ProjectTypeOK /\ OneRequest /\ OwnDirectory /\ FilesInv /\ FiledInv
  BY DEF ProjectInv, ProjectTyped
<1>2. UNCHANGED <<directory, onDisk, filesIn, filed, crowded, fromElsewhere>>
  BY DEF AbandonRequest
<1>3. interrupted' = (interrupted \/ request[c].op = "moved")
  BY DEF AbandonRequest
<1>4. /\ request' \in [Clerks -> Requested]
      /\ \A e \in Clerks : request'[e] \in Requested /\ Carries(request'[e])
      /\ request'[c] = Idle /\ \A e \in Clerks \ {c} : request'[e] = request[e]
      /\ OneRequest'
  BY <1>1, <1>2, Ending DEF AbandonRequest
<1>5. ProjectTyped'
  <2>1. interrupted' \in BOOLEAN
    BY <1>1, <1>3 DEF ProjectTypeOK
  <2> QED
    BY <1>1, <1>2, <1>4, <2>1 DEF ProjectTyped, ProjectTypeOK, Requested
<1>6. OwnDirectory' /\ Live' = Live
  BY <1>1, <1>2 DEF OwnDirectory, Live
<1>7. \A e \in Clerks : request'[e].op # "idle" => request'[e] = request[e]
  BY <1>4, IdleTyped
<1>8. FilesInv'
  <2> SUFFICES ASSUME ~ crowded', ~ interrupted' PROVE FilesInv'
    BY DEF FilesInv
  <2>1. ~ interrupted /\ request[c].op # "moved"
    BY <1>3
  <2>2. \A e \in Clerks : request[e].op = "moved" => request'[e] = request[e]
    BY <1>4, <2>1
  <2>3. \A q : Moving(q) => Moving(q)'
    BY <2>2 DEF Moving
  <2> QED
    BY <1>1, <1>2, <1>6, <1>7, <2>1, <2>3 DEF FilesInv
<1>9. FiledInv'
  BY <1>1, <1>2, <1>6, <1>7 DEF FiledInv
<1> QED
  BY <1>4, <1>5, <1>6, <1>8, <1>9 DEF ProjectInv

-----------------------------------------------------------------------------
(* Projects: the theorem.                                                  *)

LEMMA InitProjects == ProjectInit => ProjectInv
<1> SUFFICES ASSUME ProjectInit PROVE ProjectInv
  OBVIOUS
<1>1. PICK d \in Dirs :
        /\ directory = [p \in ProjectIds |-> IF p = DefaultProject THEN d ELSE NoDir]
        /\ filesIn = directory /\ onDisk = {d}
  BY DEF ProjectInit
<1>2. \A c \in Clerks : request[c] = Idle
  BY DEF ProjectInit
<1>3. ProjectTyped
  BY <1>1, IdleTyped DEF ProjectInit, ProjectTyped, ProjectTypeOK, Requested
<1>4. \A p \in Live : p = DefaultProject /\ directory[p] = d
  BY <1>1 DEF Live
<1>5. OwnDirectory /\ OneRequest
  BY <1>2, <1>4 DEF OwnDirectory, OneRequest
<1>6. FilesInv
  BY <1>1, <1>2, <1>4, IdleTyped DEF FilesInv
<1>7. FiledInv
  BY <1>2, IdleTyped DEF ProjectInit, FiledInv
<1> QED
  BY <1>3, <1>5, <1>6, <1>7 DEF ProjectInv

LEMMA NextProjects == ProjectInv /\ [ProjectNext]_projectVars => ProjectInv'
<1> SUFFICES ASSUME ProjectInv, [ProjectNext]_projectVars PROVE ProjectInv'
  OBVIOUS
<1>1. CASE UNCHANGED projectVars
  BY <1>1 DEF projectVars, ProjectInv, ProjectTyped, ProjectTypeOK, OwnDirectory, OneRequest,
              FilesInv, FiledInv, Moving, Live
<1> QED
  BY <1>1, Asking, Creating, MovingFiles, Renaming, Filing, Dropping, Deleting, Abandoning
     DEF ProjectNext

THEOREM ProjectInvariance == ProjectSpec => []ProjectInv
  BY InitProjects, NextProjects, PTL DEF ProjectSpec

(* Every variable keeps its type.                                          *)
THEOREM ProjectTypeCorrect == ProjectSpec => []ProjectTypeOK
<1>1. ProjectInv => ProjectTypeOK
  BY DEF ProjectInv, ProjectTyped
<1> QED
  BY <1>1, ProjectInvariance, PTL

(* No two projects own one directory, however requests overlap; while they *)
(* do not, and none is cut off, files are where the row says and nothing   *)
(* is left filed under a project that is gone.                             *)
THEOREM FilesFollowRowsHolds == ProjectSpec => []FilesFollowRows
<1>1. ProjectInv => FilesFollowRows
  BY DEF ProjectInv, OwnDirectory, FilesInv, FiledInv, Moving,
         FilesFollowRows, FilesWhereTheRowSays, NothingOrphaned
<1> QED
  BY <1>1, ProjectInvariance, PTL

-----------------------------------------------------------------------------
(* Accounts: what the route tables promise.                                *)

Kinds == {"nothing", "work", "platform", "connection", "own", "note"}
IsRoute(r) ==
  r \in [handler : {r.handler}, needs : SUBSET Permission, signedIn : BOOLEAN, stores : Kinds]

Administers == {"PLATFORM_ADMIN", "DATA_CONNECT"}

(* What a route stores is guarded by a permission that only those have who *)
(* may store it; only what needs no guard goes without a caller.           *)
Guards(r) ==
  /\ IsRoute(r)
  /\ r.stores \in {"platform", "connection"} => r.needs \cap Administers # {}
  /\ r.stores = "work" => r.needs \cap (WritePermissions \cup Administers) # {}
  /\ r.stores \notin {"nothing", "own"} => r.signedIn
  /\ r.handler = "delete_user" => "PLATFORM_ADMIN" \in r.needs /\ r.signedIn

Guarded(routes) == \A r \in routes : Guards(r)

LEMMA RouteIs ==
  ASSUME NEW handlers, NEW permission \in Permission \cup {"NONE"},
         NEW stores \in Kinds, NEW r \in Route(handlers, permission, stores)
  PROVE  /\ IsRoute(r)
         /\ r.handler \in handlers /\ r.stores = stores
         /\ permission # "NONE" => r.needs = {permission} /\ r.signedIn
<1>1. PICK h \in handlers :
        r = [handler |-> h, needs |-> {permission} \ {"NONE"}, signedIn |-> permission # "NONE",
             stores |-> stores]
  BY DEF Route
<1>2. {permission} \ {"NONE"} \subseteq Permission
  OBVIOUS
<1>3. permission # "NONE" => {permission} \ {"NONE"} = {permission}
  OBVIOUS
<1> QED
  BY <1>1, <1>2, <1>3 DEF IsRoute

LEMMA GuardedRoute ==
  ASSUME NEW handlers, NEW permission \in Permission \cup {"NONE"},
         NEW stores \in Kinds,
         stores \in {"platform", "connection"} => permission \in Administers,
         stores = "work" => permission \in WritePermissions \cup Administers,
         stores \notin {"nothing", "own"} => permission # "NONE",
         "delete_user" \notin handlers
  PROVE  Guarded(Route(handlers, permission, stores))
<1> SUFFICES ASSUME NEW r \in Route(handlers, permission, stores) PROVE Guards(r)
  BY DEF Guarded
<1>1. "NONE" \notin Administers /\ "NONE" \notin WritePermissions
  BY DEF Administers, WritePermissions
<1>2. /\ IsRoute(r) /\ r.handler # "delete_user" /\ r.stores = stores
      /\ permission # "NONE" => r.needs = {permission} /\ r.signedIn
  <2>1. /\ IsRoute(r)
        /\ r.handler \in handlers /\ r.stores = stores
        /\ permission # "NONE" => r.needs = {permission} /\ r.signedIn
    BY RouteIs
  <2>2. r.handler # "delete_user"
    BY <2>1, Zenon
  <2> QED
    BY <2>1, <2>2
<1>3. CASE permission # "NONE"
  BY <1>2, <1>3 DEF Guards
<1>4. CASE permission = "NONE"
  <2>1. stores \in {"nothing", "own"}
    BY <1>4
  <2> QED
    BY <1>2, <2>1 DEF Guards
<1> QED
  BY <1>3, <1>4

(* requires(PLATFORM_ADMIN) or requires(DATA_CONNECT) covers whatever it is *)
(* put on.                                                                 *)
LEMMA GuardedRequiring ==
  ASSUME NEW permission \in Administers, NEW routes, \A r \in routes : IsRoute(r),
         permission = "PLATFORM_ADMIN" \/ \A r \in routes : r.handler # "delete_user"
  PROVE  Guarded(Requiring(permission, routes))
<1> SUFFICES ASSUME NEW r \in routes PROVE Guards([r EXCEPT !.needs = @ \cup {permission}, !.signedIn = TRUE])
  BY DEF Guarded, Requiring
<1> DEFINE q == [r EXCEPT !.needs = @ \cup {permission}, !.signedIn = TRUE]
<1>1. permission \in Permission
  BY DEF Administers, Permission
<1>2. IsRoute(r)
  OBVIOUS
<1>3. /\ IsRoute(q) /\ q.needs = r.needs \cup {permission}
      /\ q.handler = r.handler /\ q.stores = r.stores
  BY <1>1, <1>2 DEF IsRoute
<1>4. q.signedIn
  BY <1>2 DEF IsRoute
<1> HIDE DEF q
<1>5. Guards(q)
  BY <1>3, <1>4 DEF Guards
<1> QED
  BY <1>5 DEF q

LEMMA GuardedSignedIn ==
  ASSUME NEW routes, Guarded(routes) PROVE Guarded(CurrentUser(routes))
<1> SUFFICES ASSUME NEW r \in routes PROVE Guards([r EXCEPT !.signedIn = TRUE])
  BY DEF Guarded, CurrentUser
<1> DEFINE q == [r EXCEPT !.signedIn = TRUE]
<1>1. Guards(r) /\ IsRoute(r)
  BY DEF Guarded, Guards
<1>2. /\ IsRoute(q) /\ q.needs = r.needs
      /\ q.handler = r.handler /\ q.stores = r.stores
  BY <1>1 DEF IsRoute
<1>3. q.signedIn
  BY <1>1 DEF IsRoute
<1> HIDE DEF q
<1>4. Guards(q)
  BY <1>1, <1>2, <1>3 DEF Guards
<1> QED
  BY <1>4 DEF q

(* The module guards, each by its read and its write permission.           *)
ReadingGuard(guard) == guard.safe \in Permission /\ guard.unsafe \in Permission
WritingGuard(guard) == ReadingGuard(guard) /\ guard.unsafe \in WritePermissions \cup Administers

LEMMA ModuleGuards ==
  /\ WritingGuard(DATA_GUARD) /\ WritingGuard(ANALYSIS_GUARD) /\ WritingGuard(MODEL_GUARD)
  /\ WritingGuard(EXECUTION_GUARD) /\ WritingGuard(RESULT_GUARD)
  /\ WritingGuard(APPLICATION_GUARD) /\ WritingGuard(BUILTIN_APP_GUARD)
  /\ WritingGuard(PLATFORM_GUARD) /\ PLATFORM_GUARD.unsafe = "PLATFORM_ADMIN"
  /\ ReadingGuard(SERVING_GUARD)
  BY DEF WritingGuard, ReadingGuard, ModuleGuard, DATA_GUARD, ANALYSIS_GUARD, MODEL_GUARD,
         EXECUTION_GUARD, RESULT_GUARD, APPLICATION_GUARD, BUILTIN_APP_GUARD, PLATFORM_GUARD,
         SERVING_GUARD, Permission, ReadPermissions, WritePermissions, Administers

LEMMA GuardedReads ==
  ASSUME NEW guard, NEW handlers, "delete_user" \notin handlers,
         ReadingGuard(guard)
  PROVE  /\ Guarded(Reads(guard, handlers)) /\ Guarded(Notes(guard, handlers))
         /\ Guarded(Asks(guard, handlers))
<1>1. "NONE" \notin Permission
  BY DEF Permission, ReadPermissions, WritePermissions
<1> QED
  BY <1>1, GuardedRoute DEF ReadingGuard, Reads, Notes, Asks, Kinds

LEMMA GuardedStores ==
  ASSUME NEW guard, NEW handlers, "delete_user" \notin handlers,
         WritingGuard(guard)
  PROVE  Guarded(Stores(guard, "work", handlers))
<1>1. "NONE" \notin Permission
  BY DEF Permission, ReadPermissions, WritePermissions
<1> QED
  BY <1>1, GuardedRoute DEF WritingGuard, ReadingGuard, Stores, Kinds

LEMMA GuardedUnion ==
  ASSUME NEW A, NEW B, Guarded(A), Guarded(B) PROVE Guarded(A \cup B)
  BY DEF Guarded

(* Router by router.                                                       *)
LEMMA ReadRouters ==
  ASSUME NEW guard, ReadingGuard(guard)
  PROVE  /\ Guarded(PlatformRoutes(guard)) /\ Guarded(LineageRoutes(guard))
         /\ Guarded(ServingRoutes(guard)) /\ Guarded(PipelineServingRoutes(guard))
         /\ Guarded(MaintenanceReadRoutes(guard))
  BY GuardedReads DEF PlatformRoutes, LineageRoutes, ServingRoutes, PipelineServingRoutes,
                      MaintenanceReadRoutes

LEMMA WorkRouters ==
  ASSUME NEW guard, WritingGuard(guard)
  PROVE  /\ Guarded(ScheduleRoutes(guard)) /\ Guarded(PipelineRoutes(guard))
         /\ Guarded(AnalysisRoutes(guard)) /\ Guarded(ModelRoutes(guard))
         /\ Guarded(EvaluationRoutes(guard)) /\ Guarded(JobRoutes(guard))
         /\ Guarded(ExecutionRoutes(guard)) /\ Guarded(ResultsRoutes(guard))
         /\ Guarded(ReportRoutes(guard)) /\ Guarded(ApplicationRoutes(guard))
         /\ Guarded(MaintenanceAssetRoutes(guard)) /\ Guarded(TyphoonRoutes(guard))
<1>0. ReadingGuard(guard)
  BY DEF WritingGuard
<1>1. Guarded(ScheduleRoutes(guard))
  BY <1>0, GuardedReads, GuardedStores, GuardedUnion DEF ScheduleRoutes
<1>2. Guarded(PipelineRoutes(guard))
  BY <1>0, GuardedReads, GuardedStores, GuardedUnion DEF PipelineRoutes
<1>3. Guarded(AnalysisRoutes(guard))
  BY <1>0, GuardedReads, GuardedStores, GuardedUnion DEF AnalysisRoutes
<1>4. Guarded(ModelRoutes(guard))
  BY <1>0, GuardedReads, GuardedStores, GuardedUnion DEF ModelRoutes
<1>5. Guarded(EvaluationRoutes(guard))
  BY <1>0, GuardedReads, GuardedStores, GuardedUnion DEF EvaluationRoutes
<1>6. Guarded(JobRoutes(guard))
  BY <1>0, GuardedReads, GuardedStores, GuardedUnion DEF JobRoutes
<1>7. Guarded(ExecutionRoutes(guard))
  BY <1>0, GuardedReads, GuardedStores, GuardedUnion DEF ExecutionRoutes
<1>8. Guarded(ResultsRoutes(guard))
  BY <1>0, GuardedReads, GuardedStores, GuardedUnion DEF ResultsRoutes
<1>9. Guarded(ReportRoutes(guard))
  BY <1>0, GuardedReads, GuardedStores, GuardedUnion, GuardedSignedIn DEF ReportRoutes
<1>10. Guarded(ApplicationRoutes(guard))
  BY <1>0, GuardedReads, GuardedStores, GuardedUnion DEF ApplicationRoutes
<1>11. Guarded(MaintenanceAssetRoutes(guard))
  BY <1>0, GuardedReads, GuardedStores, GuardedUnion DEF MaintenanceAssetRoutes
<1>12. Guarded(TyphoonRoutes(guard))
  BY <1>0, GuardedReads, GuardedStores, GuardedUnion DEF TyphoonRoutes
<1> QED
  BY <1>1, <1>2, <1>3, <1>4, <1>5, <1>6, <1>7, <1>8, <1>9, <1>10, <1>11, <1>12

LEMMA DataRouter == Guarded(DataRoutes(DATA_GUARD))
<1> DEFINE outbound == Stores(DATA_GUARD, "connection", {"create_outbound_source"})
<1>1. \A r \in outbound : IsRoute(r) /\ r.handler # "delete_user"
  <2>1. DATA_GUARD.unsafe \in Permission
    BY ModuleGuards DEF WritingGuard, ReadingGuard
  <2> QED
    BY <2>1, RouteIs DEF Stores, Kinds
<1>2. Guarded(OUTBOUND_SOURCE_TYPES(outbound))
  BY <1>1, GuardedRequiring DEF OUTBOUND_SOURCE_TYPES, Administers
<1>3. WritingGuard(DATA_GUARD) /\ ReadingGuard(DATA_GUARD)
  BY ModuleGuards DEF WritingGuard
<1> QED
  BY <1>2, <1>3, GuardedReads, GuardedStores, GuardedUnion DEF DataRoutes

(* The routers that keep accounts, keys, workspaces and projects.          *)
LEMMA Typed ==
  ASSUME NEW guard, guard.safe \in Permission \cup {"NONE"}, guard.unsafe \in Permission \cup {"NONE"},
         NEW what \in Kinds, NEW handlers
  PROVE  /\ \A r \in Stores(guard, what, handlers) : IsRoute(r)
         /\ \A r \in Reads(guard, handlers) : IsRoute(r)
  BY RouteIs DEF Stores, Reads, Kinds

LEMMA GuardedAdmin ==
  ASSUME NEW routes, \A r \in routes : IsRoute(r) PROVE Guarded(AdminUser(routes))
  BY GuardedRequiring DEF AdminUser, Administers

LEMMA PlatformRouters ==
  /\ Guarded(WorkspaceRoutes(PLATFORM_GUARD)) /\ Guarded(ProjectRoutes(PLATFORM_GUARD))
  /\ Guarded(ApiKeyRoutes(PLATFORM_GUARD))
<1> DEFINE g == PLATFORM_GUARD
<1>1. ReadingGuard(g) /\ g.unsafe = "PLATFORM_ADMIN" /\ g.safe \in Permission /\ g.unsafe \in Permission
  BY ModuleGuards DEF WritingGuard, ReadingGuard
<1> HIDE DEF g
<1>2. ASSUME NEW handlers, "delete_user" \notin handlers
      PROVE  Guarded(Stores(g, "platform", handlers))
  BY <1>1, <1>2, GuardedRoute DEF Stores, Kinds, Administers
<1>3. ASSUME NEW handlers
      PROVE  /\ Guarded(AdminUser(Stores(g, "platform", handlers)))
             /\ Guarded(AdminUser(Reads(g, handlers)))
  BY <1>1, <1>3, Typed, GuardedAdmin DEF Kinds
<1>4. Guarded(WorkspaceRoutes(g))
  BY <1>1, <1>3, GuardedReads, GuardedSignedIn, GuardedUnion DEF WorkspaceRoutes
<1>5. Guarded(ProjectRoutes(g))
  BY <1>1, <1>2, GuardedReads, GuardedSignedIn, GuardedUnion DEF ProjectRoutes
<1>6. Guarded(ApiKeyRoutes(g))
  <2> DEFINE A == Reads(g, {"list_api_keys"})
             B == Stores(g, "platform", {"issue_api_key", "revoke_api_key", "delete_api_key"})
  <2>1. \A r \in A \cup B : IsRoute(r)
    BY <1>1, Typed DEF Kinds
  <2> QED
    BY <2>1, GuardedAdmin DEF ApiKeyRoutes
<1> QED
  BY <1>4, <1>5, <1>6 DEF g

LEMMA UnguardedRouters == Guarded(AuthRoutes(NoGuard)) /\ Guarded(PublicRoutes(NoGuard))
<1>1. NoGuard.safe = "NONE" /\ NoGuard.unsafe = "NONE"
  BY DEF NoGuard
<1>2. ASSUME NEW handlers, "delete_user" \notin handlers
      PROVE  Guarded(Stores(NoGuard, "own", handlers)) /\ Guarded(Reads(NoGuard, handlers))
  BY <1>1, <1>2, GuardedRoute DEF Stores, Reads, Kinds
<1>3. Guarded(PublicRoutes(NoGuard))
  BY <1>2 DEF PublicRoutes
<1>4. Guarded(AuthRoutes(NoGuard))
  <2> DEFINE A == Reads(NoGuard, {"list_users"})
             B == Stores(NoGuard, "platform", {"create_user", "update_user", "delete_user"})
  <2>1. \A r \in A \cup B : IsRoute(r)
    BY <1>1, Typed DEF Kinds
  <2>2. Guarded(AdminUser(A \cup B))
    BY <2>1, GuardedAdmin
  <2>3. Guarded(CurrentUser(Reads(NoGuard, {"me"}) \cup Stores(NoGuard, "own", {"change_password"})))
    BY <1>2, GuardedUnion, GuardedSignedIn
  <2>4. Guarded(Stores(NoGuard, "own", {"login"})) /\ Guarded(Reads(NoGuard, {"auth_config"}))
    BY <1>2
  <2> QED
    BY <2>2, <2>3, <2>4, GuardedUnion DEF AuthRoutes
<1> QED
  BY <1>3, <1>4

LEMMA AllGuarded == Guarded(ApiRoutes)
<1>1. /\ ReadingGuard(PLATFORM_GUARD) /\ ReadingGuard(RESULT_GUARD) /\ ReadingGuard(BUILTIN_APP_GUARD)
      /\ ReadingGuard(SERVING_GUARD)
  BY ModuleGuards DEF WritingGuard
<1>2. Guarded(ContributedRoutes)
  BY <1>1, ModuleGuards, ReadRouters, WorkRouters, GuardedUnion DEF ContributedRoutes
<1>3. Guarded(GUARDED)
  <2>1. /\ Guarded(PlatformRoutes(PLATFORM_GUARD)) /\ Guarded(ServingRoutes(SERVING_GUARD))
        /\ Guarded(PipelineServingRoutes(SERVING_GUARD)) /\ Guarded(LineageRoutes(RESULT_GUARD))
    BY <1>1, ReadRouters
  <2>2. /\ Guarded(ScheduleRoutes(PLATFORM_GUARD)) /\ Guarded(PipelineRoutes(DATA_GUARD))
        /\ Guarded(AnalysisRoutes(ANALYSIS_GUARD)) /\ Guarded(ModelRoutes(MODEL_GUARD))
        /\ Guarded(EvaluationRoutes(MODEL_GUARD)) /\ Guarded(JobRoutes(EXECUTION_GUARD))
        /\ Guarded(ExecutionRoutes(EXECUTION_GUARD)) /\ Guarded(ResultsRoutes(RESULT_GUARD))
        /\ Guarded(ReportRoutes(RESULT_GUARD)) /\ Guarded(ApplicationRoutes(APPLICATION_GUARD))
    BY ModuleGuards, WorkRouters
  <2> QED
    BY <2>1, <2>2, DataRouter, PlatformRouters DEF GUARDED, Guarded
<1> QED
  BY <1>2, <1>3, UnguardedRouters DEF ApiRoutes, Guarded

-----------------------------------------------------------------------------
(* The handlers a request is followed in are routes.                       *)

Serves(routes, h) == \E r \in routes : r.handler = h

LEMMA ServesRoute ==
  ASSUME NEW guard, NEW what, NEW handlers, NEW h \in handlers
  PROVE  Serves(Stores(guard, what, handlers), h)
<1> DEFINE r == [handler |-> h, needs |-> {guard.unsafe} \ {"NONE"},
                 signedIn |-> guard.unsafe # "NONE", stores |-> what]
<1>1. r \in Stores(guard, what, handlers)
  BY DEF Stores, Route
<1>2. r.handler = h
  OBVIOUS
<1> QED
  BY <1>1, <1>2 DEF Serves

LEMMA ServesRequiring ==
  ASSUME NEW routes, \A r \in routes : IsRoute(r), NEW h, Serves(routes, h)
  PROVE  Serves(AdminUser(routes), h) /\ Serves(CurrentUser(routes), h)
<1>1. PICK r \in routes : r.handler = h
  BY DEF Serves
<1>2. IsRoute(r)
  OBVIOUS
<1> DEFINE p == [r EXCEPT !.needs = @ \cup {"PLATFORM_ADMIN"}, !.signedIn = TRUE]
           q == [r EXCEPT !.signedIn = TRUE]
<1>3. p.handler = h /\ q.handler = h
  BY <1>1, <1>2 DEF IsRoute
<1>4. p \in AdminUser(routes) /\ q \in CurrentUser(routes)
  BY DEF AdminUser, Requiring, CurrentUser
<1> QED
  BY <1>3, <1>4 DEF Serves

LEMMA ServesUnion ==
  ASSUME NEW A, NEW B, NEW h, Serves(A, h) \/ Serves(B, h) PROVE Serves(A \cup B, h)
  BY DEF Serves

LEMMA RowRoutes == \A h \in RowHandlers : RouteOf[h] \in ApiRoutes /\ RouteOf[h].handler = h
<1>1. ASSUME NEW h \in {"login", "change_password", "create_user", "update_user", "delete_user"}
      PROVE  Serves(AuthRoutes(NoGuard), h)
  <2> DEFINE own == Reads(NoGuard, {"me"}) \cup Stores(NoGuard, "own", {"change_password"})
             kept == Reads(NoGuard, {"list_users"})
                     \cup Stores(NoGuard, "platform", {"create_user", "update_user", "delete_user"})
  <2>1. \A r \in own \cup kept : IsRoute(r)
    BY Typed DEF NoGuard, Kinds
  <2>2. CASE h = "login"
    BY <2>2, ServesRoute, ServesUnion DEF AuthRoutes
  <2>3. CASE h = "change_password"
    <3>1. Serves(own, h)
      BY <2>3, ServesRoute, ServesUnion
    <3> QED
      BY <2>1, <3>1, ServesRequiring, ServesUnion DEF AuthRoutes
  <2>4. CASE h \in {"create_user", "update_user", "delete_user"}
    <3>1. Serves(kept, h)
      BY <2>4, ServesRoute, ServesUnion
    <3> QED
      BY <2>1, <3>1, ServesRequiring, ServesUnion DEF AuthRoutes
  <2> QED
    BY <1>1, <2>2, <2>3, <2>4
<1>2. /\ PLATFORM_GUARD.safe \in Permission \cup {"NONE"}
      /\ PLATFORM_GUARD.unsafe \in Permission \cup {"NONE"}
  BY ModuleGuards DEF WritingGuard, ReadingGuard
<1>3. ASSUME NEW h \in {"add_member", "remove_member"}
      PROVE  Serves(WorkspaceRoutes(PLATFORM_GUARD), h)
  <2> DEFINE kept == Stores(PLATFORM_GUARD, "platform",
                            {"create_workspace", "update_workspace", "delete_workspace",
                             "add_member", "remove_member"})
  <2>1. \A r \in kept : IsRoute(r)
    BY <1>2, Typed DEF Kinds
  <2>2. Serves(kept, h)
    BY <1>3, ServesRoute
  <2> QED
    BY <2>1, <2>2, ServesRequiring, ServesUnion DEF WorkspaceRoutes
<1>4. ASSUME NEW h \in {"issue_api_key", "revoke_api_key", "delete_api_key"}
      PROVE  Serves(ApiKeyRoutes(PLATFORM_GUARD), h)
  <2> DEFINE A == Reads(PLATFORM_GUARD, {"list_api_keys"})
             B == Stores(PLATFORM_GUARD, "platform",
                         {"issue_api_key", "revoke_api_key", "delete_api_key"})
  <2>1. \A r \in A \cup B : IsRoute(r)
    BY <1>2, Typed DEF Kinds
  <2>2. Serves(A \cup B, h)
    BY <1>4, ServesRoute, ServesUnion
  <2> QED
    BY <2>1, <2>2, ServesRequiring DEF ApiKeyRoutes
<1>5. ASSUME NEW h \in RowHandlers PROVE Serves(ApiRoutes, h)
  <2>1. CASE h \in {"login", "change_password", "create_user", "update_user", "delete_user"}
    BY <1>1, <2>1, ServesUnion DEF ApiRoutes
  <2>2. CASE h \in {"add_member", "remove_member"}
    <3>1. Serves(GUARDED, h)
      BY <1>3, <2>2 DEF GUARDED, Serves
    <3> QED
      BY <3>1, ServesUnion DEF ApiRoutes
  <2>3. CASE h \in {"issue_api_key", "revoke_api_key", "delete_api_key"}
    <3>1. Serves(GUARDED, h)
      BY <1>4, <2>3 DEF GUARDED, Serves
    <3> QED
      BY <3>1, ServesUnion DEF ApiRoutes
  <2> QED
    BY <1>5, <2>1, <2>2, <2>3 DEF RowHandlers
<1> SUFFICES ASSUME NEW h \in RowHandlers
             PROVE  RouteOf[h] \in ApiRoutes /\ RouteOf[h].handler = h
  OBVIOUS
<1>6. \E r \in ApiRoutes : r.handler = h
  BY <1>5 DEF Serves
<1>7. h \in {r.handler : r \in ApiRoutes}
  BY <1>6
<1>8. RouteOf[h] = (CHOOSE r \in ApiRoutes : r.handler = h)
  BY <1>7 DEF RouteOf
<1> QED
  BY <1>6, <1>8

-----------------------------------------------------------------------------
(* Accounts: the invariant.  A request carries a row, or a key's state; an  *)
(* update carries the row as it was, a deletion leaves an administrator of  *)
(* those there were.                                                       *)

AccountTyped ==
  account \in [People -> NoRow \cup Rows] /\ key \in [Keys -> KeyStates] /\ members \subseteq Candidates

Administrates(row) == row.role = "admin" /\ row.is_active

Carried(q) ==
  /\ q.op \in {"update", "patch", "delete", "key"}
  /\ q.op # "key" => q.of \in People
  /\ q.op = "key" => q.of \in Keys /\ q.to \in KeyStates
  /\ q.op \in {"update", "patch"} => q.row \in Rows
  /\ q.op = "update" => (q.of \in q.admins <=> Administrates(q.row))
  /\ q.op = "delete" => \E p \in People : p # q.of /\ p \in q.admins

AskingTyped == IsABag(asking) /\ \A q \in BagToSet(asking) : Carried(q)

AccountInv == AccountTyped /\ AskingTyped /\ NoOverreach

-----------------------------------------------------------------------------
(* Accounts: who may, is entitled.                                         *)

LEMMA RowOf ==
  ASSUME AccountTyped, NEW p \in People, Exists(p)
  PROVE  account[p] \in Rows /\ account[p].role \in Role
  BY DEF AccountTyped, Exists, Rows

LEMMA KnownRoles ==
  ASSUME AccountTyped, NEW c \in Callers, Known(c)
  PROVE  /\ RoleOf(c) \in Role
         /\ Person(c) \/ (c \in Keys /\ key[c] = "live")
         /\ RoleOf(c) = "admin" => c \notin Keys /\ Person(c) /\ account[c].role = "admin"
         /\ RoleOf(c) # "viewer" => \/ Person(c) /\ Writer(account[c].role)
                                    \/ c \in WritingKeys /\ key[c] = "live"
<1>1. CASE c \in Keys
  <2>1. key[c] = "live"
    BY <1>1 DEF Known, Usable
  <2>2. RoleOf(c) = IF c \in WritingKeys THEN "editor" ELSE "viewer"
    BY <1>1 DEF RoleOf, KeyRole
  <2> QED
    BY <1>1, <2>1, <2>2 DEF Role
<1>2. CASE c \notin Keys
  <2>1. c \in People /\ Exists(c) /\ account[c].is_active
    BY <1>2 DEF Known
  <2>2. Person(c) /\ RoleOf(c) = account[c].role /\ account[c].role \in Role
    BY <1>2, <2>1, RowOf DEF Person, RoleOf
  <2> QED
    BY <1>2, <2>2 DEF Role, Writer
<1> QED
  BY <1>1, <1>2

LEMMA RolesMay ==
  ASSUME NEW role \in Role, NEW needs, needs \subseteq ROLE_PERMISSIONS[role]
  PROVE  /\ needs \cap Administers # {} => role = "admin"
         /\ needs \cap (WritePermissions \cup Administers) # {} => role # "viewer"
<1>1. CASE role = "admin"
  BY <1>1
<1>2. CASE role = "editor"
  <2>1. needs \subseteq ReadPermissions \cup WritePermissions
    BY <1>2 DEF ROLE_PERMISSIONS
  <2>2. Administers \cap (ReadPermissions \cup WritePermissions) = {}
    BY DEF Administers, ReadPermissions, WritePermissions
  <2> QED
    BY <1>2, <2>1, <2>2
<1>3. CASE role = "viewer"
  <2>1. needs \subseteq ReadPermissions
    BY <1>3 DEF ROLE_PERMISSIONS
  <2>2. (Administers \cup WritePermissions) \cap ReadPermissions = {}
    BY DEF Administers, ReadPermissions, WritePermissions
  <2> QED
    BY <2>1, <2>2
<1> QED
  BY <1>1, <1>2, <1>3 DEF Role

(* A request that is let through, in a workspace it is let into, stores     *)
(* nothing its caller is not entitled to store there.                      *)
LEMMA WithinRights ==
  ASSUME AccountTyped, NEW c \in Callers, NEW r, Guards(r), May(c, r),
         NEW named \in Places, NEW place \in Scope(c, named)
  PROVE  Beyond(c, r, place) = {}
<1>0. r.stores \in Kinds /\ r.signedIn \in BOOLEAN
  BY DEF Guards, IsRoute
<1>1. CASE ~ Known(c)
  <2>1. ~ r.signedIn
    BY <1>1 DEF May
  <2>2. r.stores \in {"nothing", "own"}
    BY <2>1 DEF Guards
  <2> QED
    BY <2>1, <2>2 DEF Beyond, Entitled, Belongs
<1>2. CASE Known(c)
  <2>1. r.needs \subseteq ROLE_PERMISSIONS[RoleOf(c)]
    BY <1>2 DEF May
  <2>2. /\ RoleOf(c) \in Role
        /\ Person(c) \/ (c \in Keys /\ key[c] = "live")
        /\ RoleOf(c) = "admin" => c \notin Keys /\ Person(c) /\ account[c].role = "admin"
        /\ RoleOf(c) # "viewer" => \/ Person(c) /\ Writer(account[c].role)
                                   \/ c \in WritingKeys /\ key[c] = "live"
    BY <1>2, KnownRoles
  <2>3. /\ r.needs \cap Administers # {} => RoleOf(c) = "admin"
        /\ r.needs \cap (WritePermissions \cup Administers) # {} => RoleOf(c) # "viewer"
    BY <2>1, <2>2, RolesMay
  <2>4. r.stores \in Entitled(c)
    <3>1. CASE r.stores \in {"nothing", "own"}
      BY <3>1 DEF Entitled
    <3>2. CASE r.stores = "note"
      BY <2>2, <3>2 DEF Entitled
    <3>3. CASE r.stores = "work"
      <4>1. RoleOf(c) # "viewer"
        BY <2>3, <3>3 DEF Guards
      <4> QED
        BY <2>2, <3>3, <4>1 DEF Entitled
    <3>4. CASE r.stores \in {"platform", "connection"}
      <4>1. RoleOf(c) = "admin"
        BY <2>3, <3>4 DEF Guards
      <4> QED
        BY <2>2, <3>4, <4>1 DEF Entitled
    <3> QED
      BY <1>0, <3>1, <3>2, <3>3, <3>4 DEF Kinds
  <2>5. Belongs(c, r, place)
    <3>1. CASE c \in Keys
      <4>1. Usable(c)
        BY <1>2, <3>1 DEF Known
      <4>2. place = "default"
        BY <3>1, <4>1 DEF Scope
      <4> QED
        BY <4>2 DEF Belongs
    <3>2. CASE c \notin Keys
      <4>1. Person(c)
        BY <2>2, <3>2
      <4>2. SUFFICES ASSUME place = "other" PROVE account[c].role = "admin" \/ c \in members
        BY <4>1 DEF Belongs
      <4>3. named = "other"
        BY <3>2, <4>2 DEF Scope
      <4>4. RoleOf(c) = "admin" \/ c \in members
        BY <1>2, <3>2, <4>3 DEF Scope
      <4> QED
        BY <2>2, <4>4
    <3> QED
      BY <3>1, <3>2
  <2> QED
    BY <2>2, <2>4, <2>5 DEF Beyond
<1> QED
  BY <1>1, <1>2

LEMMA GrantedWithin ==
  ASSUME AccountInv, NEW c \in Callers, NEW r \in ApiRoutes, Granted(c, r)
  PROVE  NoOverreach' /\ overreached' = overreached
<1>1. Guards(r)
  BY AllGuarded DEF Guarded
<1>2. PICK named \in Places : \E place \in Scope(c, named) :
        overreached' = overreached \cup Beyond(c, r, place)
  BY DEF Granted
<1>3. PICK place \in Scope(c, named) : overreached' = overreached \cup Beyond(c, r, place)
  BY <1>2
<1>4. Beyond(c, r, place) = {}
  BY <1>1, WithinRights DEF Granted, AccountInv
<1> QED
  BY <1>3, <1>4 DEF AccountInv, NoOverreach

LEMMA AskedWithin ==
  ASSUME AccountInv, NEW c \in Callers, NEW h \in RowHandlers, Asked(c, h)
  PROVE  overreached' = {} /\ May(c, RouteOf[h])
  BY RowRoutes, GrantedWithin DEF Asked, Granted, AccountInv, NoOverreach

(* Only an administrator who can sign in has a deletion served.            *)
LEMMA DeletersAdminister ==
  ASSUME AccountInv, NEW c \in People, Asked(c, "delete_user")
  PROVE  c \in ActiveAdmins
<1>1. c \in Callers /\ "delete_user" \in RowHandlers
  BY DEF Callers, RowHandlers
<1> DEFINE r == RouteOf["delete_user"]
<1>2. May(c, r) /\ Guards(r) /\ r.handler = "delete_user"
  BY <1>1, RowRoutes, AllGuarded DEF Asked, Granted, Guarded
<1> HIDE DEF r
<1>3. "PLATFORM_ADMIN" \in r.needs /\ r.signedIn
  BY <1>2 DEF Guards
<1>4. Known(c) /\ r.needs \subseteq ROLE_PERMISSIONS[RoleOf(c)]
  BY <1>2, <1>3 DEF May
<1>5. AccountTyped
  BY DEF AccountInv
<1>6. RoleOf(c) \in Role
  BY <1>1, <1>4, <1>5, KnownRoles
<1>7. r.needs \cap Administers # {}
  BY <1>3 DEF Administers
<1>8. RoleOf(c) = "admin"
  BY <1>4, <1>6, <1>7, RolesMay
<1>9. Person(c) /\ account[c].role = "admin"
  BY <1>1, <1>4, <1>5, <1>8, KnownRoles
<1> QED
  BY <1>9 DEF Person, ActiveAdmins, Admins

-----------------------------------------------------------------------------
(* The bag of requests.                                                    *)

LEMMA BagGrows ==
  ASSUME NEW B, IsABag(B), NEW x
  PROVE  IsABag(BagAdd(B, x)) /\ BagToSet(BagAdd(B, x)) = BagToSet(B) \cup {x}
<1>1. CASE x \in DOMAIN B
  <2> DEFINE D == [e \in DOMAIN B |-> IF e = x THEN B[e] + 1 ELSE B[e]]
  <2>1. BagAdd(B, x) = D
    BY <1>1 DEF BagAdd
  <2>2. \A e \in DOMAIN B : D[e] \in {n \in Nat : n > 0}
    BY DEF IsABag
  <2>3. DOMAIN D = DOMAIN B
    OBVIOUS
  <2>4. D \in [DOMAIN D -> {n \in Nat : n > 0}]
    BY <2>2, <2>3
  <2> QED
    BY <1>1, <2>1, <2>3, <2>4 DEF IsABag, BagToSet
<1>2. CASE x \notin DOMAIN B
  <2> DEFINE D == [e \in DOMAIN B \cup {x} |-> IF e = x THEN 1 ELSE B[e]]
  <2>1. BagAdd(B, x) = D
    BY <1>2 DEF BagAdd
  <2>2. \A e \in DOMAIN B \cup {x} : D[e] \in {n \in Nat : n > 0}
    BY DEF IsABag
  <2>3. DOMAIN D = DOMAIN B \cup {x}
    OBVIOUS
  <2>4. D \in [DOMAIN D -> {n \in Nat : n > 0}]
    BY <2>2, <2>3
  <2> QED
    BY <2>1, <2>3, <2>4 DEF IsABag, BagToSet
<1> QED
  BY <1>1, <1>2

LEMMA BagShrinks ==
  ASSUME NEW B, IsABag(B), NEW x
  PROVE  IsABag(BagRemove(B, x)) /\ BagToSet(BagRemove(B, x)) \subseteq BagToSet(B)
<1>1. CASE x \notin DOMAIN B
  BY <1>1 DEF BagRemove
<1>2. CASE x \in DOMAIN B /\ B[x] = 1
  <2> DEFINE D == [e \in DOMAIN B \ {x} |-> B[e]]
  <2>1. BagRemove(B, x) = D
    BY <1>2 DEF BagRemove
  <2>2. DOMAIN D = DOMAIN B \ {x} /\ D \in [DOMAIN D -> {n \in Nat : n > 0}]
    BY DEF IsABag
  <2> QED
    BY <2>1, <2>2 DEF IsABag, BagToSet
<1>3. CASE x \in DOMAIN B /\ B[x] # 1
  <2> DEFINE D == [e \in DOMAIN B |-> IF e = x THEN B[e] - 1 ELSE B[e]]
  <2>1. BagRemove(B, x) = D
    BY <1>3 DEF BagRemove
  <2>2. \A e \in DOMAIN B : D[e] \in {n \in Nat : n > 0}
    BY <1>3 DEF IsABag
  <2>3. DOMAIN D = DOMAIN B
    OBVIOUS
  <2>4. D \in [DOMAIN D -> {n \in Nat : n > 0}]
    BY <2>2, <2>3
  <2> QED
    BY <2>1, <2>3, <2>4 DEF IsABag, BagToSet
<1> QED
  BY <1>1, <1>2, <1>3

(* To take two different requests out leaves two different bags.           *)
LEMMA BagTells ==
  ASSUME NEW B, IsABag(B), NEW x \in BagToSet(B), NEW y \in BagToSet(B),
         BagRemove(B, x) = BagRemove(B, y)
  PROVE  x = y
<1> SUFFICES ASSUME x # y PROVE FALSE
  OBVIOUS
<1>0. x \in DOMAIN B /\ y \in DOMAIN B /\ B[x] \in Nat /\ B[x] > 0
  BY DEF BagToSet, IsABag
<1>1. x \in DOMAIN BagRemove(B, y) /\ BagRemove(B, y)[x] = B[x]
  BY <1>0 DEF BagRemove
<1>2. CASE B[x] = 1
  <2>1. BagRemove(B, x) = [e \in DOMAIN B \ {x} |-> B[e]]
    BY <1>0, <1>2 DEF BagRemove
  <2>2. x \notin DOMAIN BagRemove(B, x)
    BY <2>1
  <2> QED
    BY <1>1, <2>2
<1>3. CASE B[x] # 1
  <2>1. BagRemove(B, x) = [e \in DOMAIN B |-> IF e = x THEN B[e] - 1 ELSE B[e]]
    BY <1>0, <1>3 DEF BagRemove
  <2>2. BagRemove(B, x)[x] = B[x] - 1
    BY <1>0, <2>1
  <2>3. B[x] - 1 # B[x]
    BY <1>0
  <2> QED
    BY <1>1, <2>2, <2>3
<1> QED
  BY <1>2, <1>3

-----------------------------------------------------------------------------
(* Accounts: what the steps keep.                                          *)

LEMMA Began ==
  ASSUME AskingTyped, NEW q, Carried(q)', asking' = BagAdd(asking, q),
         \A p \in BagToSet(asking) : Carried(p)'
  PROVE  AskingTyped'
<1>1. IsABag(asking)
  BY DEF AskingTyped
<1>2. IsABag(asking') /\ BagToSet(asking') = BagToSet(asking) \cup {q}
  BY <1>1, BagGrows
<1> QED
  BY <1>2 DEF AskingTyped

LEMMA Ended ==
  ASSUME AskingTyped, NEW q, asking' = BagRemove(asking, q)
  PROVE  AskingTyped'
<1>1. IsABag(asking)
  BY DEF AskingTyped
<1>2. IsABag(asking') /\ BagToSet(asking') \subseteq BagToSet(asking)
  BY <1>1, BagShrinks
<1> QED
  BY <1>2 DEF AskingTyped, Carried

LEMMA Administering ==
  ASSUME AccountTyped, NEW p \in People, Exists(p)
  PROVE  p \in ActiveAdmins <=> Administrates(account[p])
  BY DEF ActiveAdmins, Admins, Administrates

(* A request that begins finds the rows as they are.                       *)
LEMMA BeginsRequest ==
  ASSUME AccountInv, NEW q, Carried(q),
         \E c \in Callers, h \in RowHandlers : BeginRequest(c, h, q)
  PROVE  AccountInv'
<1>0. PICK c \in Callers, h \in RowHandlers : BeginRequest(c, h, q)
  OBVIOUS
<1>1. asking' = BagAdd(asking, q) /\ UNCHANGED <<account, key, members>>
  BY <1>0 DEF BeginRequest, Begins
<1>2. NoOverreach'
  BY <1>0, AskedWithin DEF BeginRequest, NoOverreach
<1>3. AccountTyped'
  BY <1>1 DEF AccountInv, AccountTyped
<1>4. AskingTyped'
  BY <1>1, Began DEF AccountInv, AskingTyped, Carried
<1> QED
  BY <1>2, <1>3, <1>4 DEF AccountInv

LEMMA Handled ==
  /\ "login" \in RowHandlers /\ "change_password" \in RowHandlers
  /\ "update_user" \in RowHandlers /\ "delete_user" \in RowHandlers
  /\ "revoke_api_key" \in RowHandlers
  BY DEF RowHandlers

LEMMA Updating ==
  ASSUME AccountInv, NEW p \in People, Exists(p)
  PROVE  Carried(Update(p, account[p]))
<1> DEFINE q == Update(p, account[p])
<1>1. q.op = "update" /\ q.of = p /\ q.row = account[p] /\ q.admins = ActiveAdmins
  BY DEF Update
<1> HIDE DEF q
<1>2. account[p] \in Rows
  BY RowOf DEF AccountInv
<1>3. p \in ActiveAdmins <=> Administrates(account[p])
  BY Administering DEF AccountInv
<1>4. Carried(q)
  BY <1>1, <1>2, <1>3 DEF Carried
<1> QED
  BY <1>4 DEF q

LEMMA BeginningWithPeople ==
  ASSUME AccountInv, NEW c \in People, NEW p \in People,
         Login(p) \/ ChangePassword(p) \/ UpdateUser(c, p) \/ DeleteUser(c, p)
  PROVE  AccountInv'
<1>0. c \in Callers /\ p \in Callers /\ Nobody \in Callers
  BY DEF Callers
<1>1. CASE Login(p)
  <2>1. PICK q : q = Update(p, account[p])
    OBVIOUS
  <2>2. BeginRequest(Nobody, "login", q) /\ Exists(p)
    BY <1>1, <2>1 DEF Login
  <2>3. Carried(q)
    BY <2>1, <2>2, Updating
  <2> QED
    BY <1>0, <2>2, <2>3, BeginsRequest, Handled
<1>2. CASE ChangePassword(p)
  <2>1. PICK q : q = Update(p, account[p])
    OBVIOUS
  <2>2. BeginRequest(p, "change_password", q) /\ Known(p)
    BY <1>2, <2>1 DEF ChangePassword
  <2>3. Exists(p)
    BY <2>2, AccountsAssumption DEF Known
  <2>4. Carried(q)
    BY <2>1, <2>3, Updating
  <2> QED
    BY <1>0, <2>2, <2>4, BeginsRequest, Handled
<1>3. CASE UpdateUser(c, p)
  <2>1. PICK row \in Rows : BeginRequest(c, "update_user",
          [op |-> "patch", of |-> p, row |-> row, admins |-> ActiveAdmins])
    BY <1>3 DEF UpdateUser
  <2>2. PICK q : q = [op |-> "patch", of |-> p, row |-> row, admins |-> ActiveAdmins]
    OBVIOUS
  <2>3. BeginRequest(c, "update_user", q)
    BY <2>1, <2>2
  <2>4. Carried(q)
    BY <2>2 DEF Carried
  <2> QED
    BY <1>0, <2>3, <2>4, BeginsRequest, Handled
<1>4. CASE DeleteUser(c, p)
  <2>1. /\ BeginRequest(c, "delete_user", [op |-> "delete", of |-> p, admins |-> ActiveAdmins])
        /\ c # p
    BY <1>4 DEF DeleteUser, OtherAccount
  <2>2. c \in ActiveAdmins
    BY <2>1, DeletersAdminister DEF BeginRequest
  <2>3. PICK q : q = [op |-> "delete", of |-> p, admins |-> ActiveAdmins]
    OBVIOUS
  <2>4. BeginRequest(c, "delete_user", q)
    BY <2>1, <2>3
  <2>5. Carried(q)
    BY <2>1, <2>2, <2>3 DEF Carried
  <2> QED
    BY <1>0, <2>4, <2>5, BeginsRequest, Handled
<1> QED
  BY <1>1, <1>2, <1>3, <1>4

LEMMA BeginningWithKeys ==
  ASSUME AccountInv, NEW k \in Keys, UseKey(k) \/ \E c \in People : RevokeKey(c, k)
  PROVE  AccountInv'
<1>1. CASE UseKey(k)
  <2>1. PICK q : q = [op |-> "key", of |-> k, to |-> key[k]]
    OBVIOUS
  <2>2. asking' = BagAdd(asking, q) /\ UNCHANGED <<account, key, members, overreached>>
    BY <1>1, <2>1 DEF UseKey, Begins
  <2>3. key[k] \in KeyStates
    BY DEF AccountInv, AccountTyped
  <2>4. q.op = "key" /\ q.of = k /\ q.to = key[k]
    BY <2>1
  <2>5. Carried(q)
    BY <2>3, <2>4 DEF Carried
  <2>6. AskingTyped'
    BY <2>2, <2>5, Began DEF AccountInv, AskingTyped, Carried
  <2> QED
    BY <2>2, <2>6 DEF AccountInv, AccountTyped, NoOverreach
<1>2. ASSUME NEW c \in People, RevokeKey(c, k) PROVE AccountInv'
  <2>1. PICK q : q = [op |-> "key", of |-> k, to |-> "revoked"]
    OBVIOUS
  <2>2. BeginRequest(c, "revoke_api_key", q)
    BY <1>2, <2>1 DEF RevokeKey
  <2>3. Carried(q)
    BY <2>1 DEF Carried, KeyStates
  <2> QED
    BY <2>2, <2>3, BeginsRequest, Handled DEF Callers
<1> QED
  BY <1>1, <1>2

(* Only what finishes of an account's request can leave it without an       *)
(* administrator, and says which row went.                                 *)
LEMMA Finishing ==
  ASSUME AccountInv, NEW q \in BagToSet(asking), FinishAccount(q) \/ FinishKey(q) \/ Fail(q)
  PROVE  AccountInv'
<1>1. asking' = BagRemove(asking, q) /\ UNCHANGED <<members, overreached>>
  BY DEF FinishAccount, FinishKey, Fail
<1>2. AskingTyped'
  BY <1>1, Ended DEF AccountInv
<1>3. Carried(q)
  BY DEF AccountInv, AskingTyped
<1>4. AccountTyped'
  <2>1. CASE FinishAccount(q)
    <3>1. \A p \in People : account'[p] \in NoRow \cup Rows
      <4> SUFFICES ASSUME NEW p \in People PROVE account'[p] \in NoRow \cup Rows
        OBVIOUS
      <4>1. account[p] \in NoRow \cup Rows
        BY DEF AccountInv, AccountTyped
      <4>2. Deleted \in NoRow /\ (q.op # "delete" => q.row \in Rows)
        BY <1>3, <2>1 DEF NoRow, Carried, FinishAccount
      <4>3. account'[p] = account[p] \/ account'[p] = Deleted \/ (q.op # "delete" /\ account'[p] = q.row)
        BY <2>1 DEF FinishAccount, AccountInv, AccountTyped
      <4> QED
        BY <4>1, <4>2, <4>3
    <3>2. account' \in [People -> NoRow \cup Rows] /\ key' = key
      BY <2>1, <3>1 DEF FinishAccount, AccountInv, AccountTyped
    <3> QED
      BY <1>1, <3>2 DEF AccountInv, AccountTyped
  <2>2. CASE FinishKey(q)
    BY <1>1, <1>3, <2>2 DEF FinishKey, Carried, AccountInv, AccountTyped
  <2>3. CASE Fail(q)
    BY <1>1, <2>3 DEF Fail, AccountInv, AccountTyped
  <2> QED
    BY <2>1, <2>2, <2>3
<1> QED
  BY <1>1, <1>2, <1>4 DEF AccountInv, NoOverreach

(* What is done in one step: the rows keep their types.                    *)
LEMMA AtOnce ==
  ASSUME AccountInv, UNCHANGED asking, NoOverreach', AccountTyped' PROVE AccountInv'
<1>1. AskingTyped'
  BY DEF AccountInv, AskingTyped, Carried
<1> QED
  BY <1>1 DEF AccountInv

LEMMA ServingAtOnce ==
  ASSUME AccountInv, NEW c \in Callers,
         \/ Serve(c)
         \/ \E p \in People : CreateUser(c, p) \/ AddMember(c, p) \/ RemoveMember(c, p)
         \/ \E k \in Keys : Issue(c, k) \/ DeleteKey(c, k)
  PROVE  AccountInv'
<1>1. CASE Serve(c)
  <2>1. PICK r \in ApiRoutes : Granted(c, r)
    BY <1>1 DEF Serve
  <2>2. NoOverreach' /\ UNCHANGED <<account, key, members, asking>>
    BY <1>1, <2>1, GrantedWithin DEF Serve
  <2> QED
    BY <2>2, AtOnce DEF AccountInv, AccountTyped
<1>2. ASSUME NEW p \in People, CreateUser(c, p) PROVE AccountInv'
  <2>1. PICK role \in Role : account' = [account EXCEPT ![p] = [role |-> role, is_active |-> TRUE]]
    BY <1>2 DEF CreateUser
  <2>2. [role |-> role, is_active |-> TRUE] \in Rows
    BY DEF Rows
  <2>3. AccountTyped'
    BY <1>2, <2>1, <2>2 DEF CreateUser, AccountInv, AccountTyped
  <2>4. NoOverreach'
    BY <1>2, AskedWithin DEF CreateUser, NoOverreach, RowHandlers
  <2> QED
    BY <1>2, <2>3, <2>4, AtOnce DEF CreateUser
<1>3. ASSUME NEW p \in People, AddMember(c, p) \/ RemoveMember(c, p) PROVE AccountInv'
  <2>1. AccountTyped' /\ UNCHANGED asking
    BY <1>3 DEF AddMember, RemoveMember, AccountInv, AccountTyped
  <2>2. NoOverreach'
    BY <1>3, AskedWithin DEF AddMember, RemoveMember, NoOverreach, RowHandlers
  <2> QED
    BY <2>1, <2>2, AtOnce
<1>4. ASSUME NEW k \in Keys, Issue(c, k) \/ DeleteKey(c, k) PROVE AccountInv'
  <2>1. AccountTyped' /\ UNCHANGED asking
    BY <1>4 DEF Issue, DeleteKey, AccountInv, AccountTyped, KeyStates
  <2>2. NoOverreach'
    BY <1>4, AskedWithin DEF Issue, DeleteKey, NoOverreach, RowHandlers
  <2> QED
    BY <2>1, <2>2, AtOnce
<1> QED
  BY <1>1, <1>2, <1>3, <1>4

LEMMA Bootstrapping ==
  ASSUME AccountInv, NEW p \in People, Bootstrap(p) PROVE AccountInv'
<1>1. [role |-> "admin", is_active |-> TRUE] \in Rows
  BY DEF Rows, Role
<1>2. AccountTyped'
  BY <1>1 DEF Bootstrap, AccountInv, AccountTyped
<1> QED
  BY <1>2, AtOnce DEF Bootstrap, AccountInv, NoOverreach

LEMMA InitAccounts == AccountInit => AccountInv
<1> SUFFICES ASSUME AccountInit PROVE AccountInv
  OBVIOUS
<1>1. BagToSet(asking) = {} /\ IsABag(asking)
  BY DEF AccountInit, EmptyBag, SetToBag, BagToSet, IsABag
<1>2. AccountTyped
  BY DEF AccountInit, AccountTyped, NoRow, KeyStates
<1> QED
  BY <1>1, <1>2 DEF AccountInit, AccountInv, AskingTyped, NoOverreach

LEMMA NextAccounts == AccountInv /\ [AccountNext]_accountVars => AccountInv'
<1> SUFFICES ASSUME AccountInv, [AccountNext]_accountVars PROVE AccountInv'
  OBVIOUS
<1>1. CASE UNCHANGED accountVars
  BY <1>1, AtOnce DEF accountVars, AccountInv, AccountTyped, NoOverreach
<1>2. CASE AccountNext
  <2>1. CASE \E p \in People : Bootstrap(p)
    BY <2>1, Bootstrapping
  <2>2. CASE \E c \in Callers : Serve(c)
    BY <2>2, ServingAtOnce
  <2>3. ASSUME NEW c \in People, NEW p \in People,
               CreateUser(c, p) \/ AddMember(c, p) \/ RemoveMember(c, p)
        PROVE  AccountInv'
    BY <2>3, ServingAtOnce DEF Callers
  <2>4. ASSUME NEW c \in People, NEW k \in Keys, Issue(c, k) \/ DeleteKey(c, k)
        PROVE  AccountInv'
    BY <2>4, ServingAtOnce DEF Callers
  <2>5. CASE RequestNext
    BY <2>5, BeginningWithPeople, BeginningWithKeys, Finishing DEF RequestNext
  <2> QED
    BY <1>2, <2>1, <2>2, <2>3, <2>4, <2>5 DEF AccountNext
<1> QED
  BY <1>1, <1>2

-----------------------------------------------------------------------------
(* Accounts: the theorems.                                                 *)

THEOREM AccountInvariance == AccountSpec => []AccountInv
  BY InitAccounts, NextAccounts, PTL DEF AccountSpec

(* Nobody is ever served a request whose handler stores what their row, as *)
(* it was, did not allow, or in a workspace they are not in.               *)
THEOREM NoOverreachHolds == AccountSpec => []NoOverreach
<1>1. AccountInv => NoOverreach
  BY DEF AccountInv
<1> QED
  BY <1>1, AccountInvariance, PTL

LEMMA AdminsStay ==
  ASSUME AccountInv, [AccountNext]_accountVars, NEW asked \in BagToSet(asking),
         asking' = BagRemove(asking, asked), ActiveAdmins # {}, ActiveAdmins' = {}
  PROVE  asked.op = "patch" \/ asked.admins # ActiveAdmins
<1>1. PICK admin \in People : Exists(admin) /\ admin \in ActiveAdmins
  BY DEF ActiveAdmins, Admins
<1>2. account # account'
  BY <1>1 DEF ActiveAdmins, Admins, Exists
<1>3. ~ \E p \in People : Bootstrap(p)
  BY <1>1 DEF Bootstrap
<1>4. ~ \E c \in People, p \in People : CreateUser(c, p)
  <2> SUFFICES ASSUME NEW c \in People, NEW p \in People, CreateUser(c, p) PROVE FALSE
    OBVIOUS
  <2>1. p # admin
    BY <1>1 DEF CreateUser, Exists, NoRow
  <2>2. account'[admin] = account[admin]
    BY <2>1 DEF CreateUser, AccountInv, AccountTyped
  <2>3. admin \in ActiveAdmins'
    BY <1>1, <2>2 DEF ActiveAdmins, Admins, Exists
  <2> QED
    BY <2>3
<1>5. PICK q \in BagToSet(asking) : FinishAccount(q)
  BY <1>2, <1>3, <1>4
     DEF AccountNext, accountVars, RequestNext, Serve, AddMember, RemoveMember, Issue, DeleteKey,
         Login, ChangePassword, UpdateUser, DeleteUser, UseKey, RevokeKey, BeginRequest,
         FinishKey, Fail
<1>6. IsABag(asking) /\ Carried(asked)
  BY DEF AccountInv, AskingTyped
<1>7. asked = q
  BY <1>5, <1>6, BagTells DEF FinishAccount
<1> SUFFICES ASSUME asked.op \in {"update", "delete"}, asked.admins = ActiveAdmins PROVE FALSE
  BY <1>5, <1>7 DEF FinishAccount
<1>8. PICK p \in People : p = asked.of
  BY <1>6 DEF Carried
<1>9. \A o \in People \ {p} : account'[o] = account[o]
  BY <1>5, <1>7, <1>8 DEF FinishAccount, AccountInv, AccountTyped
<1>10. \A o \in ActiveAdmins \ {p} : o \in ActiveAdmins'
  BY <1>9 DEF ActiveAdmins, Admins, Exists
<1>11. CASE asked.op = "delete"
  BY <1>6, <1>8, <1>10, <1>11 DEF Carried
<1>12. CASE asked.op = "update"
  <2>1. admin = p
    BY <1>1, <1>10
  <2>2. account[p] \notin NoRow
    BY <1>1, <2>1 DEF Exists
  <2>3. account'[p] = asked.row
    BY <1>5, <1>7, <1>8, <1>12, <2>2 DEF FinishAccount, AccountInv, AccountTyped
  <2>4. Administrates(asked.row) /\ asked.row \in Rows
    BY <1>1, <1>6, <1>8, <1>12, <2>1 DEF Carried
  <2>5. asked.row.role = "admin" /\ asked.row.is_active
    BY <2>4 DEF Administrates
  <2>6. asked.row \notin NoRow
    BY <2>5 DEF NoRow, Absent, Deleted
  <2>7. p \in ActiveAdmins'
    BY <2>3, <2>5, <2>6 DEF ActiveAdmins, Admins, Exists
  <2> QED
    BY <2>7
<1> QED
  BY <1>11, <1>12

AdminsKept ==
  \A asked \in BagToSet(asking) :
    (asking' = BagRemove(asking, asked) /\ ActiveAdmins # {} /\ ActiveAdmins' = {}) =>
      \/ asked.op = "patch"
      \/ asked.admins # ActiveAdmins

(* The last administrator who can sign in goes by an update of theirs, or  *)
(* by a request that began when another could sign in.                     *)
THEOREM LastAdminLeavesHolds == AccountSpec => LastAdminLeaves
<1>1. AccountInv /\ [AccountNext]_accountVars => [AdminsKept]_accountVars
  BY AdminsStay DEF AdminsKept
<1>2. AccountSpec => [][AdminsKept]_accountVars
  BY <1>1, AccountInvariance, PTL DEF AccountSpec
<1> QED
  BY <1>2, PTL DEF LastAdminLeaves, AdminsKept

-----------------------------------------------------------------------------
(* Publishing and Reports.                                                 *)

USE PublishingAssumption, NoRowAssumption, ReportsAssumption

(* What an operation makes of a row: its token stays, goes, or is the next
   one, and goes whenever sharing is withdrawn. *)
LEMMA ChangedRows ==
  ASSUME NEW op \in Operations \ {"delete"}, NEW row \in ApplicationRows, made \in Nat,
         Changed(op, row).token \in Tokens \cup {NoToken}
  PROVE  /\ Changed(op, row) \in ApplicationRows
         /\ Changed(op, row).token \in {row.token, NoToken, made + 1}
         /\ op \in {"unpublish", "unshare"} => Changed(op, row).token = NoToken
         /\ (row.link <=> row.token # NoToken) =>
              (Changed(op, row).link <=> Changed(op, row).token # NoToken)
<1> USE DEF ApplicationRows, Tokens
<1>1. CASE op = "publish"
  BY <1>1 DEF Changed
<1>2. CASE op = "unpublish"
  BY <1>2 DEF Changed, Unshared
<1>3. CASE op = "share"
  <2>1. Changed(op, row) = Shared(row)
    BY <1>3 DEF Changed
  <2>2. Shared(row) =
          [row EXCEPT !.link = TRUE, !.token = IF row.token = NoToken THEN made + 1 ELSE row.token]
    BY DEF Shared
  <2>3. made + 1 # NoToken
    BY made + 1 \in Nat
  <2> QED
    BY <1>3, <2>1, <2>2, <2>3
<1>4. CASE op = "unshare"
  BY <1>4 DEF Changed, Unshared
<1>5. CASE op = "redraft"
  BY <1>5 DEF Changed
<1>6. CASE op = "archive"
  BY <1>6 DEF Changed
<1>7. CASE op = "empty"
  BY <1>7 DEF Changed
<1> QED
  BY <1>1, <1>2, <1>3, <1>4, <1>5, <1>6, <1>7 DEF Operations

(* The token of a row is one of the first n. *)
Drawn(row, n) == row.token = NoToken \/ row.token <= n

(* No row, stored or read, has a token that was not made; and as long as nobody
   wrote over what they had not read, the stored row has none that was revoked. *)
TokensKept ==
  /\ application # NoApplication => Drawn(application, made)
  /\ \A o \in Owners : requested[o] # NoRequest => Drawn(requested[o].seen, made)
  /\ \A t \in withdrawn : t <= made
  /\ stale \/ application = NoApplication \/ application.token \notin withdrawn

(* A request reads the link as it is: on exactly when there is a token. *)
ReadWhole ==
  \A o \in Owners : requested[o] # NoRequest =>
    (requested[o].seen.link <=> requested[o].seen.token # NoToken)

PublishingInv == PublishingTypeOK /\ ReadWhole /\ TokensKept

(* The invariant holds at the start. *)
LEMMA PublishingInvInit == PublishingInit => PublishingInv
<1> SUFFICES ASSUME PublishingInit PROVE PublishingInv
  OBVIOUS
<1>1. /\ application \in ApplicationRows /\ ~application.link /\ application.token = NoToken
      /\ requested = [o \in Owners |-> NoRequest]
      /\ made = 0 /\ withdrawn = {} /\ stale = FALSE
  BY DEF PublishingInit
<1>2. PublishingTypeOK
  <2>1. requested \in [Owners -> {NoRequest} \cup [op : Operations, seen : ApplicationRows]]
    BY <1>1
  <2>2. application \in ApplicationRows \cup {NoApplication}
    BY <1>1
  <2>3. application.link <=> application.token # NoToken
    BY <1>1 DEF ApplicationRows
  <2>4. made \in 0..MaxTokens /\ withdrawn \subseteq Tokens
    <3>1. made = 0 /\ withdrawn = {}
      BY <1>1
    <3> QED
      BY <3>1
  <2>5. stale \in BOOLEAN
    BY <1>1
  <2> QED
    BY <2>1, <2>2, <2>3, <2>4, <2>5 DEF PublishingTypeOK
<1>3. ReadWhole /\ TokensKept
  BY <1>1 DEF ReadWhole, TokensKept, Drawn
<1> QED
  BY <1>2, <1>3 DEF PublishingInv

(* Every step keeps it: what a write stores is what it read, changed. *)
LEMMA PublishingInvNext == PublishingInv /\ [PublishingNext]_publishingVars => PublishingInv'
<1> SUFFICES ASSUME PublishingInv, [PublishingNext]_publishingVars PROVE PublishingInv'
  OBVIOUS
<1>1. ASSUME NEW o \in Owners, NEW op \in Operations, Ask(o, op) PROVE PublishingInv'
  BY <1>1 DEF Ask, PublishingInv, PublishingTypeOK, ReadWhole, TokensKept, Drawn
<1>2. ASSUME NEW o \in Owners, WriteApplication(o) PROVE PublishingInv'
  <2> DEFINE op == requested[o].op
             seen == requested[o].seen
             row == Changed(op, seen)
  <2>1. requested[o] # NoRequest /\ op \in Operations \ {"delete"} /\ seen \in ApplicationRows
    BY <1>2 DEF WriteApplication, PublishingInv, PublishingTypeOK
  <2>2. /\ row.token \in Tokens \cup {NoToken}
        /\ application' = IF application = NoApplication THEN NoApplication ELSE row
        /\ made' = IF row.token = made + 1 THEN made + 1 ELSE made
        /\ withdrawn' = IF application # NoApplication /\ op \in {"unpublish", "unshare"}
                        THEN withdrawn \cup ({seen.token} \ {NoToken}) ELSE withdrawn
        /\ stale' = (stale \/ application # seen)
        /\ requested' = [requested EXCEPT ![o] = NoRequest]
    BY <1>2 DEF WriteApplication, Answered
  <2>3. /\ made \in 0..MaxTokens /\ withdrawn \subseteq Tokens
        /\ Drawn(seen, made) /\ \A t \in withdrawn : t <= made
    BY <2>1 DEF PublishingInv, PublishingTypeOK, TokensKept
  <2>9. stale \in BOOLEAN /\ (seen.link <=> seen.token # NoToken)
    BY <2>1 DEF PublishingInv, PublishingTypeOK, ReadWhole
  <2>4. /\ row \in ApplicationRows
        /\ row.token \in {seen.token, NoToken, made + 1}
        /\ op \in {"unpublish", "unshare"} => row.token = NoToken
        /\ row.link <=> row.token # NoToken
    <3> HIDE DEF op, seen
    <3> QED
      BY <2>1, <2>2, <2>3, <2>9, ChangedRows
  <2> HIDE DEF op, seen, row
  <2>5. made' \in 0..MaxTokens /\ made <= made' /\ (row.token = NoToken \/ row.token <= made')
    BY <2>2, <2>3, <2>4 DEF Drawn, Tokens
  <2>6. PublishingTypeOK'
    <3>1. withdrawn' \subseteq Tokens
      BY <2>1, <2>2, <2>3 DEF ApplicationRows
    <3>2. requested' \in [Owners -> {NoRequest} \cup [op : Operations, seen : ApplicationRows]]
      BY <2>2 DEF PublishingInv, PublishingTypeOK
    <3>3. stale' \in BOOLEAN
      BY <2>2, <2>9
    <3> QED
      BY <2>2, <2>4, <2>5, <3>1, <3>2, <3>3 DEF PublishingTypeOK
  <2>7. ReadWhole'
    BY <2>2 DEF ReadWhole, PublishingInv, PublishingTypeOK
  <2>8. TokensKept'
    <3>1. \A p \in Owners : requested'[p] # NoRequest =>
            requested'[p] = requested[p] /\ Drawn(requested[p].seen, made)
      BY <2>2 DEF PublishingInv, PublishingTypeOK, TokensKept
    <3>2. ASSUME NEW p \in Owners, requested'[p] # NoRequest
          PROVE  Drawn(requested'[p].seen, made')
      <4>1. requested[p].seen.token \in Nat \cup {NoToken}
        BY <3>1, <3>2 DEF PublishingInv, PublishingTypeOK, ApplicationRows, Tokens
      <4>2. Drawn(requested[p].seen, made) /\ requested'[p] = requested[p]
        BY <3>1, <3>2
      <4> QED
        BY <2>3, <2>5, <4>1, <4>2 DEF Drawn
    <3>3. \A t \in withdrawn' : t <= made'
      <4>1. withdrawn' \subseteq withdrawn \cup ({seen.token} \ {NoToken})
        BY <2>2
      <4>2. \A t \in withdrawn' : t \in Nat /\ t <= made
        BY <2>1, <2>3, <4>1 DEF Drawn, Tokens, ApplicationRows
      <4> QED
        BY <2>3, <2>5, <4>2
    <3>4. stale' \/ application' = NoApplication \/ application'.token \notin withdrawn'
      <4>1. CASE application = NoApplication \/ application # seen
        BY <2>2, <4>1
      <4>2. CASE application # NoApplication /\ application = seen
        <5>1. stale \/ seen.token \notin withdrawn
          BY <4>2 DEF PublishingInv, TokensKept
        <5>2. made + 1 \notin withdrawn
          BY <2>3
        <5>5. NoToken \notin withdrawn
          <6>1. \A t \in Tokens : t \in Nat
            BY DEF Tokens
          <6> QED
            BY <2>3, <6>1
        <5>3. CASE op \in {"unpublish", "unshare"}
          <6>1. row.token = NoToken
            BY <2>4, <5>3
          <6> QED
            BY <2>2, <2>3, <4>2, <5>5, <5>3, <6>1 DEF Tokens
        <5>4. CASE op \notin {"unpublish", "unshare"}
          BY <2>2, <2>4, <4>2, <5>1, <5>2, <5>5, <5>4
        <5> QED
          BY <5>3, <5>4
      <4> QED
        BY <4>1, <4>2
    <3> QED
      BY <2>2, <2>5, <3>2, <3>3, <3>4 DEF TokensKept, Drawn
  <2> QED
    BY <2>6, <2>7, <2>8 DEF PublishingInv
<1>3. ASSUME NEW o \in Owners, DeleteApplication(o) PROVE PublishingInv'
  BY <1>3 DEF DeleteApplication, Answered, PublishingInv, PublishingTypeOK, ReadWhole,
              TokensKept, Drawn
<1>4. CASE UNCHANGED publishingVars
  BY <1>4 DEF publishingVars, PublishingInv, PublishingTypeOK, ReadWhole, TokensKept, Drawn
<1> QED
  BY <1>1, <1>2, <1>3, <1>4 DEF PublishingNext

(* The invariant, at all times. *)
THEOREM TokensInvariant == PublishingSpec => []PublishingInv
BY PublishingInvInit, PublishingInvNext, PTL DEF PublishingSpec

(* Rows keep their type, and a shared application always has its token. *)
THEOREM PublishingTypeCorrect == PublishingSpec => []PublishingTypeOK
BY TokensInvariant, PTL DEF PublishingInv

(* A link revoked by unshare or unpublish opens nothing any more, however often
   the application is published and shared again, unless a request wrote back a
   row it had read before (unshare_application, publish_application). *)
THEOREM RevokedStaysDeadHolds == PublishingSpec => []RevokedStaysDead
<1>1. PublishingInv => RevokedStaysDead
  BY DEF PublishingInv, TokensKept, RevokedStaysDead, Opens
<1> QED
  BY <1>1, TokensInvariant, PTL

-----------------------------------------------------------------------------
(* Reports.                                                                *)

(* What is rendered is a file. *)
LEMMA RenderedIsFile ==
  ASSUME NEW sections \in Seq(Sections)
  PROVE  Rendered(sections) \in Seq({"shown", "error"}) /\ Rendered(sections) # NoFile
<1>1. DOMAIN sections = 1..Len(sections) /\ Len(sections) \in Nat
  OBVIOUS
<1>2. \A n \in DOMAIN sections : Resolved(sections[n]) \in {"shown", "error"}
  BY DEF Resolved
<1>3. Rendered(sections) \in [1..Len(sections) -> {"shown", "error"}]
  BY <1>1, <1>2 DEF Rendered
<1> QED
  BY <1>1, <1>3

(* A request that is on is a draft with the row it read. *)
LEMMA DraftsRead ==
  ASSUME ReportTypeOK, NEW o \in Authors, drafting[o].op # "none"
  PROVE  drafting[o] \in Drafts
  BY DEF ReportTypeOK, NoDraft

(* A revised row is a row. *)
LEMMA RevisedRow ==
  ASSUME NEW row \in ReportRows, NEW s \in Sections
  PROVE  [row EXCEPT !.sections = Append(@, s)] \in ReportRows
<1> DEFINE longer == Append(row.sections, s)
<1>1. longer \in Seq(Sections)
  BY DEF ReportRows
<1>2. [row EXCEPT !.sections = Append(@, s)] = [row EXCEPT !.sections = longer]
  OBVIOUS
<1> HIDE DEF longer
<1>3. [row EXCEPT !.sections = longer] \in ReportRows
  BY <1>1 DEF ReportRows
<1> QED
  BY <1>2, <1>3

(* Every step keeps the types. *)
LEMMA ReportTypeNext == ReportTypeOK /\ [ReportNext]_reportVars => ReportTypeOK'
<1> SUFFICES ASSUME ReportTypeOK, [ReportNext]_reportVars PROVE ReportTypeOK'
  OBVIOUS
<1>0. /\ drafting \in [Authors -> Drafts \cup {NoDraft}]
      /\ exported \in [Formats -> Seq({"shown", "error"}) \cup {NoFile}]
      /\ report = NoReport \/ report \in ReportRows
      /\ removed \subseteq Formats
  BY DEF ReportTypeOK
<1>1. ASSUME NEW o \in Authors, NEW op \in {"delete", "revise"} \cup Formats, BeginReport(o, op)
      PROVE  ReportTypeOK'
  <2>1. [op |-> op, seen |-> report] \in Drafts
    BY <1>0, <1>1 DEF BeginReport, Drafts
  <2> QED
    BY <1>0, <1>1, <2>1 DEF BeginReport, ReportTypeOK
<1>2. ASSUME NEW o \in Authors, NEW s \in Sections, ReviseReport(o, s) PROVE ReportTypeOK'
  <2>1. drafting[o].seen \in ReportRows
    BY <1>2, DraftsRead DEF ReviseReport, Drafts
  <2>2. [drafting[o].seen EXCEPT !.sections = Append(@, s)] \in ReportRows
    BY <2>1, RevisedRow
  <2>3. report' = NoReport \/ report' \in ReportRows
    BY <1>2, <2>2 DEF ReviseReport, WriteReport
  <2>4. drafting' \in [Authors -> Drafts \cup {NoDraft}]
    BY <1>0, <1>2 DEF ReviseReport, WriteReport
  <2> QED
    BY <1>2, <2>3, <2>4 DEF ReviseReport, ReportTypeOK
<1>3. ASSUME NEW o \in Authors, ExportReport(o) PROVE ReportTypeOK'
  <2> DEFINE row == drafting[o].seen
             format == drafting[o].op
  <2>1. row \in ReportRows /\ format \in Formats
    BY <1>3, DraftsRead DEF ExportReport, Drafts
  <2>2. [row EXCEPT !.last = format] \in ReportRows
    BY <2>1 DEF ReportRows
  <2>3. Rendered(row.sections) \in Seq({"shown", "error"})
    BY <2>1, RenderedIsFile DEF ReportRows
  <2>4. exported' \in [Formats -> Seq({"shown", "error"}) \cup {NoFile}]
    BY <1>0, <1>3, <2>3 DEF ExportReport
  <2>5. report' = NoReport \/ report' \in ReportRows
    BY <1>3, <2>2 DEF ExportReport, WriteReport
  <2>6. drafting' \in [Authors -> Drafts \cup {NoDraft}] /\ removed' \subseteq Formats
    BY <1>0, <1>3 DEF ExportReport, WriteReport
  <2> QED
    BY <1>3, <2>4, <2>5, <2>6 DEF ExportReport, ReportTypeOK
<1>4. ASSUME NEW o \in Authors, RemoveFile(o) PROVE ReportTypeOK'
  <2>1. drafting[o] \in Drafts
    BY <1>4, DraftsRead DEF RemoveFile
  <2>2. [drafting[o] EXCEPT !.op = "removed"] \in Drafts
    BY <2>1 DEF Drafts
  <2>3. drafting' \in [Authors -> Drafts \cup {NoDraft}]
    BY <1>0, <1>4, <2>2 DEF RemoveFile
  <2>4. removed' \subseteq Formats
    BY <1>0, <1>4, <2>1 DEF RemoveFile, Drafts, ReportRows
  <2>5. exported' \in [Formats -> Seq({"shown", "error"}) \cup {NoFile}]
    BY <1>0, <1>4 DEF RemoveFile
  <2> QED
    BY <1>4, <2>3, <2>4, <2>5 DEF RemoveFile, ReportTypeOK
<1>5. ASSUME NEW o \in Authors, DeleteReport(o) PROVE ReportTypeOK'
  BY <1>0, <1>5 DEF DeleteReport, ReportTypeOK
<1>6. ASSUME NEW c \in Cited, LoseCited(c) PROVE ReportTypeOK'
  BY <1>6 DEF LoseCited, ReportTypeOK
<1>7. CASE UNCHANGED reportVars
  BY <1>7 DEF reportVars, ReportTypeOK
<1> QED
  BY <1>1, <1>2, <1>3, <1>4, <1>5, <1>6, <1>7 DEF ReportNext

(* A last export has its file, unless a deletion took it. *)
HasFile(last) == last = NoFormat \/ exported[last] # NoFile \/ last \in removed

(* So it is with the row, and with every row a request has read. *)
ExportsKept ==
  /\ report # NoReport => HasFile(report.last)
  /\ \A o \in Authors : drafting[o] # NoDraft => HasFile(drafting[o].seen.last)

LEMMA ExportsKeptNext ==
  ReportTypeOK /\ ExportsKept /\ [ReportNext]_reportVars => ExportsKept'
<1> SUFFICES ASSUME ReportTypeOK, ExportsKept, [ReportNext]_reportVars PROVE ExportsKept'
  OBVIOUS
<1>0. /\ drafting \in [Authors -> Drafts \cup {NoDraft}]
      /\ exported \in [Formats -> Seq({"shown", "error"}) \cup {NoFile}]
  BY DEF ReportTypeOK
<1>1. ASSUME NEW o \in Authors, NEW op \in {"delete", "revise"} \cup Formats, BeginReport(o, op)
      PROVE  ExportsKept'
  BY <1>0, <1>1 DEF BeginReport, ExportsKept, HasFile
<1>2. ASSUME NEW o \in Authors, NEW s \in Sections, ReviseReport(o, s) PROVE ExportsKept'
  <2>1. drafting[o] \in Drafts
    BY <1>2, DraftsRead DEF ReviseReport
  <2>2. [drafting[o].seen EXCEPT !.sections = Append(@, s)].last = drafting[o].seen.last
    BY <2>1 DEF Drafts, ReportRows
  <2>3. HasFile(drafting[o].seen.last)
    BY <1>2 DEF ReviseReport, ExportsKept, NoDraft
  <2>4. report' # NoReport => HasFile(report'.last)
    BY <1>2, <2>2, <2>3 DEF ReviseReport, WriteReport
  <2> QED
    BY <1>0, <1>2, <2>4 DEF ReviseReport, WriteReport, ExportsKept, HasFile
<1>3. ASSUME NEW o \in Authors, ExportReport(o) PROVE ExportsKept'
  <2> DEFINE row == drafting[o].seen
             format == drafting[o].op
  <2>1. row \in ReportRows /\ format \in Formats
    BY <1>3, DraftsRead DEF ExportReport, Drafts
  <2>2. Rendered(row.sections) # NoFile
    BY <2>1, RenderedIsFile DEF ReportRows
  <2>3. exported' = [exported EXCEPT ![format] = Rendered(row.sections)]
        /\ removed' = removed \ {format}
    BY <1>3 DEF ExportReport
  <2>4. ASSUME NEW last \in Formats \cup {NoFormat}, HasFile(last) \/ last = format
        PROVE  last = NoFormat \/ exported'[last] # NoFile \/ last \in removed'
    BY <1>0, <2>2, <2>3, <2>4 DEF HasFile
  <2>5. report' # NoReport => report'.last = format
    BY <1>3, <2>1 DEF ExportReport, WriteReport, ReportRows
  <2>6. ASSUME NEW p \in Authors, drafting'[p] # NoDraft
        PROVE  /\ drafting'[p] = drafting[p] /\ HasFile(drafting[p].seen.last)
               /\ drafting[p].seen.last \in Formats \cup {NoFormat}
    <3>1. drafting'[p] = drafting[p]
      BY <1>0, <1>3, <2>6 DEF ExportReport, WriteReport
    <3>2. drafting[p] \in Drafts
      BY <1>0, <2>6, <3>1
    <3> QED
      BY <2>6, <3>1, <3>2 DEF ExportsKept, Drafts, ReportRows
  <2> QED
    BY <2>1, <2>4, <2>5, <2>6 DEF ExportsKept, HasFile
<1>4. ASSUME NEW o \in Authors, RemoveFile(o) PROVE ExportsKept'
  <2>1. drafting[o] \in Drafts
    BY <1>4, DraftsRead DEF RemoveFile
  <2>2. ASSUME NEW last \in Formats \cup {NoFormat}, HasFile(last)
        PROVE  last = NoFormat \/ exported'[last] # NoFile \/ last \in removed'
    BY <1>0, <1>4, <2>2 DEF RemoveFile, HasFile
  <2>3. report' # NoReport => HasFile(report'.last) /\ report'.last \in Formats \cup {NoFormat}
    BY <1>4 DEF RemoveFile, ExportsKept, ReportTypeOK, ReportRows
  <2>4. ASSUME NEW p \in Authors, drafting'[p] # NoDraft
        PROVE  /\ HasFile(drafting'[p].seen.last)
               /\ drafting'[p].seen.last \in Formats \cup {NoFormat}
    <3>1. drafting[p] \in Drafts /\ drafting'[p].seen = drafting[p].seen
      BY <1>0, <1>4, <2>1, <2>4 DEF RemoveFile, Drafts
    <3>2. drafting[p] # NoDraft
      BY <1>4, <2>4, <1>0, <2>1 DEF RemoveFile, Drafts, NoDraft
    <3> QED
      BY <3>1, <3>2 DEF ExportsKept, Drafts, ReportRows
  <2> QED
    BY <2>2, <2>3, <2>4 DEF ExportsKept, HasFile
<1>5. ASSUME NEW o \in Authors, DeleteReport(o) PROVE ExportsKept'
  BY <1>0, <1>5 DEF DeleteReport, ExportsKept, HasFile
<1>6. ASSUME NEW c \in Cited, LoseCited(c) PROVE ExportsKept'
  BY <1>6 DEF LoseCited, ExportsKept, HasFile
<1>7. CASE UNCHANGED reportVars
  BY <1>7 DEF reportVars, ExportsKept, HasFile
<1> QED
  BY <1>1, <1>2, <1>3, <1>4, <1>5, <1>6, <1>7 DEF ReportNext

(* Both hold at the start. *)
LEMMA ReportStart == ReportInit => ReportTypeOK /\ ExportsKept
<1> SUFFICES ASSUME ReportInit PROVE ReportTypeOK /\ ExportsKept
  OBVIOUS
<1>1. PICK s \in Sections : report = [sections |-> <<s>>, last |-> NoFormat]
  BY DEF ReportInit
<1>2. <<s>> \in Seq(Sections)
  OBVIOUS
<1>3. report \in ReportRows
  BY <1>1, <1>2 DEF ReportRows
<1> QED
  BY <1>1, <1>3 DEF ReportInit, ReportTypeOK, ExportsKept, HasFile

(* Type correctness of a report and its requests (ReportService). *)
THEOREM ReportTypeCorrect == ReportSpec => []ReportTypeOK
  BY ReportStart, ReportTypeNext, PTL DEF ReportSpec

(* A report's last export is in the store, however exports, edits and deletions
   cross, unless a deletion took it and did not go through (ReportService.export,
   update, delete). *)
THEOREM LastExportKeptHolds == ReportSpec => []LastExportKept
<1>1. ExportsKept => LastExportKept
  BY DEF ExportsKept, HasFile, LastExportKept
<1> QED
  BY <1>1, ReportStart, ReportTypeNext, ExportsKeptNext, PTL DEF ReportSpec
=============================================================================
