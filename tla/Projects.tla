------------------------------ MODULE Projects ------------------------------
(***************************************************************************)
(* The projects of one workspace: the directory each owns on disk, the     *)
(* resources filed under it, and the requests that create, rename, fill    *)
(* and delete them.  A request stands in a project (its X-Project header)  *)
(* or in none.                                                             *)
(*                                                                         *)
(* Nothing but services.py keeps rows and directories in step: no foreign  *)
(* key leads from a resource to its project, and files are moved before    *)
(* the row that names their directory is written.                          *)
(***************************************************************************)
EXTENDS Naturals, FiniteSets

CONSTANTS ProjectIds, DefaultProject, NoProject,
          Dirs,       \* directory names
          NoDir,      \* the directory of a project that is not there
          Resources,  \* datasets, models, pipelines ...
          Unfiled,    \* a resource that does not exist
          Clerks      \* requests in progress

ASSUME ProjectConstants ==
  /\ DefaultProject \in ProjectIds /\ NoProject \notin ProjectIds
  /\ NoDir \notin Dirs /\ Unfiled \notin ProjectIds \cup {NoProject}

VARIABLES
  directory,   \* committed rows: the directory of each project
  onDisk,      \* directories that exist
  filesIn,     \* the one each project's files are in
  filed,       \* the project each committed resource is filed under
  request,     \* what each request is about to do
  crowded,     \* two requests were in progress at once
  interrupted, \* a request ended between its file move and its commit
  fromElsewhere \* a project was deleted from inside another one

projectVars == <<directory, onDisk, filesIn, filed, request, crowded, interrupted, fromElsewhere>>

Idle == [op |-> "idle", project |-> NoProject, dir |-> NoDir, to |-> NoDir,
         resource |-> Unfiled]

ProjectTypeOK ==
  /\ directory \in [ProjectIds -> Dirs \cup {NoDir}]
  /\ onDisk \subseteq Dirs
  /\ filesIn \in [ProjectIds -> Dirs \cup {NoDir}]
  /\ filed \in [Resources -> ProjectIds \cup {NoProject, Unfiled}]
  /\ request \in [Clerks -> [op: {"idle", "create", "rename", "moved", "file", "delete"},
                             project: ProjectIds \cup {NoProject},
                             dir: Dirs \cup {NoDir}, to: Dirs \cup {NoDir},
                             resource: Resources \cup {Unfiled}]]
  /\ crowded \in BOOLEAN /\ interrupted \in BOOLEAN /\ fromElsewhere \in BOOLEAN

-----------------------------------------------------------------------------
Live == {p \in ProjectIds : directory[p] # NoDir}
Taken(d, p) == \E q \in Live \ {p} : directory[q] = d

\* Where a request stands: a project it cannot find is no project.
Standing == Live \cup {NoProject}

\* Mutated: what is filed somewhere is not listed.
ListedUnfiled(standing, r) == filed[r] = NoProject

\* A listing shows what is filed here and what is filed nowhere.
Listed(standing, r) ==
  /\ filed[r] # Unfiled
  /\ standing = NoProject \/ filed[r] \in {standing, NoProject}

\* What a project holds, counted through the caller's own listings.
Holdings(standing, p) == {r \in Resources : Listed(standing, r) /\ filed[r] = p}

Begin(c, what) ==
  /\ request[c] = Idle
  /\ request' = [request EXCEPT ![c] = what]
  /\ crowded' = (crowded \/ \E d \in Clerks : request[d] # Idle)
End(c) == request' = [request EXCEPT ![c] = Idle]

ProjectInit ==
  /\ \E d \in Dirs :
       /\ directory = [p \in ProjectIds |-> IF p = DefaultProject THEN d ELSE NoDir]
       /\ filesIn = directory /\ onDisk = {d}
  /\ filed = [r \in Resources |-> Unfiled]
  /\ request = [c \in Clerks |-> Idle]
  /\ crowded = FALSE /\ interrupted = FALSE /\ fromElsewhere = FALSE

-----------------------------------------------------------------------------
\* Names and directories are checked first and are unique in the database too.
AskCreate(c) ==
  /\ \E p \in ProjectIds \ Live, d \in Dirs :
       /\ ~ Taken(d, p)
       /\ Begin(c, [Idle EXCEPT !.op = "create", !.project = p, !.dir = d])
  /\ UNCHANGED <<directory, onDisk, filesIn, filed, interrupted, fromElsewhere>>

TakenInDatabase(d, p) == Taken(d, p)

CreateProject(c) ==
  LET p == request[c].project  d == request[c].dir IN
  /\ request[c].op = "create"
  /\ IF TakenInDatabase(d, p) \/ p \in Live
     THEN UNCHANGED <<directory, onDisk, filesIn>>
     ELSE /\ directory' = [directory EXCEPT ![p] = d]
          /\ onDisk' = onDisk \cup {d}
          /\ filesIn' = [filesIn EXCEPT ![p] = d]
  /\ End(c)
  /\ UNCHANGED <<filed, crowded, interrupted, fromElsewhere>>

\* Renaming the directory moves the files first.
AskRename(c) ==
  /\ \E p \in Live, d \in Dirs :
       /\ d # directory[p] /\ ~ Taken(d, p)
       /\ Begin(c, [Idle EXCEPT !.op = "rename", !.project = p,
                           !.dir = directory[p], !.to = d])
  /\ UNCHANGED <<directory, onDisk, filesIn, filed, interrupted, fromElsewhere>>

\* Mutated: the files stay where they are.
Renamed(old, new) == filesIn

\* Everything in a directory goes with it.
Moved(old, new) == [p \in ProjectIds |-> IF filesIn[p] = old THEN new ELSE filesIn[p]]

\* `_move_directory`: nothing to move is no error, a target on disk is one.
MoveFiles(c) ==
  LET old == request[c].dir  new == request[c].to IN
  /\ request[c].op = "rename"
  /\ IF old \in onDisk /\ new \in onDisk
     THEN End(c) /\ UNCHANGED <<onDisk, filesIn>>
     ELSE /\ request' = [request EXCEPT ![c].op = "moved"]
          /\ IF old \in onDisk
             THEN /\ onDisk' = (onDisk \ {old}) \cup {new}
                  /\ filesIn' = Moved(old, new)
             ELSE UNCHANGED <<onDisk, filesIn>>
  /\ UNCHANGED <<directory, filed, crowded, interrupted, fromElsewhere>>

\* The row follows; a project deleted meanwhile is added again.
RenameProject(c) ==
  LET p == request[c].project  d == request[c].to IN
  /\ request[c].op = "moved"
  /\ IF TakenInDatabase(d, p)
     THEN interrupted' = TRUE /\ UNCHANGED <<directory, onDisk>>
     ELSE /\ directory' = [directory EXCEPT ![p] = d]
          /\ onDisk' = onDisk \cup {d}
          /\ UNCHANGED interrupted
  /\ End(c)
  /\ UNCHANGED <<filesIn, filed, crowded, fromElsewhere>>

\* A request that stands in a project files what it creates there.
AskFile(c) ==
  /\ \E r \in Resources, p \in Standing :
       /\ filed[r] = Unfiled
       /\ Begin(c, [Idle EXCEPT !.op = "file", !.project = p, !.resource = r])
  /\ UNCHANGED <<directory, onDisk, filesIn, filed, interrupted, fromElsewhere>>

FileResource(c) ==
  /\ request[c].op = "file"
  /\ filed' = [filed EXCEPT ![request[c].resource] = request[c].project]
  /\ End(c)
  /\ UNCHANGED <<directory, onDisk, filesIn, crowded, interrupted, fromElsewhere>>

DropResource(r) ==
  /\ filed[r] # Unfiled
  /\ filed' = [filed EXCEPT ![r] = Unfiled]
  /\ UNCHANGED <<directory, onDisk, filesIn, request, crowded, interrupted, fromElsewhere>>

\* The default project and one that is seen to hold something are not deleted.
AskDelete(c) ==
  /\ \E p \in Live \ {DefaultProject}, standing \in Standing :
       /\ Holdings(standing, p) = {}
       /\ Begin(c, [Idle EXCEPT !.op = "delete", !.project = p])
       /\ fromElsewhere' = (fromElsewhere \/ standing \notin {p, NoProject})
  /\ UNCHANGED <<directory, onDisk, filesIn, filed, interrupted>>

\* The directory is left on disk, to whoever takes its name next.
DeleteProject(c) ==
  /\ request[c].op = "delete"
  /\ directory' = [directory EXCEPT ![request[c].project] = NoDir]
  /\ filesIn' = [filesIn EXCEPT ![request[c].project] = NoDir]
  /\ End(c)
  /\ UNCHANGED <<onDisk, filed, crowded, interrupted, fromElsewhere>>

\* A request is cut off, or its commit fails.
AbandonRequest(c) ==
  /\ request[c] # Idle
  /\ interrupted' = (interrupted \/ request[c].op = "moved")
  /\ End(c)
  /\ UNCHANGED <<directory, onDisk, filesIn, filed, crowded, fromElsewhere>>

ProjectNext ==
  \/ \E c \in Clerks :
       \/ AskCreate(c) \/ CreateProject(c)
       \/ AskRename(c) \/ MoveFiles(c) \/ RenameProject(c)
       \/ AskFile(c) \/ FileResource(c)
       \/ AskDelete(c) \/ DeleteProject(c)
       \/ AbandonRequest(c)
  \/ \E r \in Resources : DropResource(r)

ProjectSpec == ProjectInit /\ [][ProjectNext]_projectVars

-----------------------------------------------------------------------------
(* Properties.                                                             *)

\* Two projects never own one directory, also when both asked for it at once;
\* and requests made one after the other, none cut off half way, leave every
\* project's files in the directory its row names (create, update,
\* uq_project_directory, _move_directory).
FilesWhereTheRowSays ==
  /\ \A p, q \in Live : directory[p] = directory[q] => p = q
  /\ ~ crowded /\ ~ interrupted =>
       \A p \in Live : \/ filesIn[p] = directory[p]
                       \/ \E c \in Clerks :
                            request[c].op = "moved" /\ request[c].project = p

\* Nothing is left filed under a project that is gone, unless requests crossed
\* or the deletion was asked for from inside another project (delete, _holdings).
NothingOrphaned ==
  ~ crowded /\ ~ fromElsewhere =>
    \A r \in Resources : filed[r] \in Live \cup {NoProject, Unfiled}

\* The disk and the catalogue file a project's things under the same project.
FilesFollowRows == FilesWhereTheRowSays /\ NothingOrphaned

\* ProjectService.delete: "Refused rather than cascaded. Deleting a project
\* should not be a way to delete forty datasets by accident": a deletion that
\* is not refused finds the project empty.
OnlyEmptyProjectsGo ==
  [][\A c \in Clerks :
       AskDelete(c) => \A r \in Resources : filed[r] # request'[c].project]_projectVars
=============================================================================
