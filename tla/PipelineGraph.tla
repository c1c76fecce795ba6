---------------------------- MODULE PipelineGraph ----------------------------
(***************************************************************************)
(* Which pipelines run which: saving a pipeline with nested pipelines in   *)
(* it, several people saving at once, and runs descending through the      *)
(* nesting.                                                                *)
(*                                                                         *)
(* A save with steps reads the reachable pipelines, refuses a cycle and    *)
(* too many of them, and writes only afterwards.  Every other write of a   *)
(* pipeline puts the steps back as they were read, unchecked: the save of  *)
(* a description, and a run, which stores the pipeline it was started with *)
(* when it ends.  What stops a run in a loop is the depth it carries.      *)
(***************************************************************************)
EXTENDS Naturals, Sequences, FiniteSets

CONSTANTS Pipelines,        \* pipeline ids
          Editors,          \* people saving pipelines
          Runs,             \* outermost runs, each with a session of its own
          MaxNestingDepth,  \* MAX_NESTING_DEPTH
          MaxSaves          \* bound: saves made

ASSUME GraphConstants ==
  /\ MaxNestingDepth \in Nat \ {0} /\ MaxSaves \in Nat
  /\ Editors \cap Runs = {}

VARIABLES nests,     \* the pipelines each committed pipeline's steps run
          saves,     \* each editor's save: what it read or checked, not committed
          saveCount, \* saves begun
          descent,   \* each run: the frames of its nested runs
          flushed,   \* the rows its session has flushed and not committed
          crossed,   \* a write has changed the graph on an outdated reading
          outdated   \* until then: whose reading another's commit has outdated

graphVars == <<nests, saves, saveCount, descent, flushed, crossed, outdated>>

NoSave == <<>>

\* One frame per run(): the pipeline as it was read, the nested steps to come,
\* and whether its row, read again at the end, showed the same steps.
Frame == [pipeline: Pipelines, steps: SUBSET Pipelines, todo: SUBSET Pipelines,
          same: BOOLEAN]

\* Who has read and not committed.
Open == {e \in Editors : saves[e] # NoSave} \cup {r \in Runs : descent[r] # <<>>}

\* Rows a session has changed, each with the steps it has now.
FlushedRows == UNION {[rows -> SUBSET Pipelines] : rows \in SUBSET Pipelines}

NothingFlushed == [p \in {} |-> {}]

GraphTypeOK ==
  /\ nests \in [Pipelines -> SUBSET Pipelines]
  /\ saves \in [Editors -> {NoSave} \cup (Pipelines \X SUBSET Pipelines)]
  /\ saveCount \in 0..MaxSaves
  /\ descent \in [Runs -> Seq(Frame)]
  /\ flushed \in [Runs -> FlushedRows]
  /\ crossed \in BOOLEAN
  /\ outdated \subseteq Open

-----------------------------------------------------------------------------
\* Everything a set of pipelines runs, directly or through others: what is in
\* every set that nothing leads out of.
Closed(graph, S) == \A p \in S : graph[p] \subseteq S

Reachable(graph, from) ==
  {p \in Pipelines : \A S \in SUBSET Pipelines : (from \subseteq S /\ Closed(graph, S)) => p \in S}

\* Mutated: only the pipeline's own steps are looked at.
NestingDirect(graph, p, inner) ==
  /\ p \notin inner
  /\ Cardinality(Reachable(graph, inner)) <= MaxNestingDepth

\* _check_nesting: no way back to the pipeline being saved, and at most
\* MAX_NESTING_DEPTH pipelines below it.
NestingAllowed(graph, p, inner) ==
  /\ p \notin Reachable(graph, inner)
  /\ Cardinality(Reachable(graph, inner)) <= MaxNestingDepth

GraphInit ==
  /\ nests = [p \in Pipelines |-> {}]
  /\ saves = [e \in Editors |-> NoSave]
  /\ saveCount = 0
  /\ descent = [r \in Runs |-> <<>>]
  /\ flushed = [r \in Runs |-> NothingFlushed]
  /\ crossed = FALSE
  /\ outdated = {}

\* No run other than `except` has p's row flushed and uncommitted.
Unlocked(p, except) == \A r \in Runs \ except : p \notin DOMAIN flushed[r]

\* A save or a run leaves the graph as `graph`.
Commits(writer, graph) ==
  /\ nests' = graph
  /\ crossed' = (crossed \/ (writer \in outdated /\ graph # nests))
  /\ outdated' = IF crossed' THEN {}
                 ELSE (IF graph = nests THEN outdated ELSE Open) \ {writer}

-----------------------------------------------------------------------------
(* Saving.                                                                 *)

BeginSave(e, p, inner) ==
  /\ saves[e] = NoSave /\ saveCount < MaxSaves
  /\ saves' = [saves EXCEPT ![e] = <<p, inner>>]
  /\ saveCount' = saveCount + 1
  /\ UNCHANGED <<nests, descent, flushed, crossed, outdated>>

\* PATCH /pipelines/{id} with steps: the check, on what is committed now.
CheckSave(e, p, inner) == BeginSave(e, p, inner) /\ NestingAllowed(nests, p, inner)

\* The same of a description alone: the steps stay as they are read.
TouchSave(e, p) == BeginSave(e, p, nests[p])

\* repository.update() and the commit.  The row is read again, and the UPDATE has
\* the steps in it only if the row shows others: then it waits for a run that has
\* written the row.
CommitSave(e) ==
  /\ saves[e] # NoSave
  /\ LET p == saves[e][1]
         inner == saves[e][2]
     IN  /\ Unlocked(p, {}) \/ nests[p] = inner
         /\ Commits(e, [nests EXCEPT ![p] = inner])
  /\ saves' = [saves EXCEPT ![e] = NoSave]
  /\ UNCHANGED <<saveCount, descent, flushed>>

-----------------------------------------------------------------------------
(* Running.  A run and the runs nested in it share one session, which      *)
(* commits when the outermost ends.                                        *)

\* A row as that session reads it.
View(r, p) == IF p \in DOMAIN flushed[r] THEN flushed[r][p] ELSE nests[p]

Opened(r, p) ==
  [pipeline |-> p, steps |-> View(r, p), todo |-> View(r, p), same |-> FALSE]

\* run() at depth 0.
StartDescent(r, p) ==
  /\ descent[r] = <<>>
  /\ descent' = [descent EXCEPT ![r] = <<Opened(r, p)>>]
  /\ UNCHANGED <<nests, saves, saveCount, flushed, crossed, outdated>>

Innermost(r) == descent[r][Len(descent[r])]

Without(r, p) == [descent[r] EXCEPT ![Len(descent[r])].todo = @ \ {p}]

\* Mutated: a step that nests too deep waits instead of failing.
EnterWithinLimit(r, p) ==
  /\ descent[r] # <<>> /\ p \in Innermost(r).todo
  /\ Len(descent[r]) <= MaxNestingDepth
  /\ descent' = [descent EXCEPT ![r] = Append(Without(r, p), Opened(r, p))]
  /\ UNCHANGED <<nests, saves, saveCount, flushed, crossed, outdated>>

\* A nested step: one run() deeper.  Beyond the limit the call raises, which
\* the step around it records as its own failure.
EnterNested(r, p) ==
  /\ descent[r] # <<>> /\ p \in Innermost(r).todo
  /\ descent' = [descent EXCEPT ![r] =
                   IF Len(descent[r]) > MaxNestingDepth THEN Without(r, p)
                   ELSE Append(Without(r, p), Opened(r, p))]
  /\ UNCHANGED <<nests, saves, saveCount, flushed, crossed, outdated>>

\* A nested step whose input no earlier step produced is not run.
SkipNested(r, p) ==
  /\ descent[r] # <<>> /\ p \in Innermost(r).todo
  /\ descent' = [descent EXCEPT ![r] = Without(r, p)]
  /\ UNCHANGED <<nests, saves, saveCount, flushed, crossed, outdated>>

\* _finish() stores the pipeline as the run read it.  The row is read again, and
\* the UPDATE leaves the steps out if it shows the same;
ReadBack(r) ==
  /\ descent[r] # <<>> /\ Innermost(r).todo = {} /\ ~ Innermost(r).same
  /\ Innermost(r).steps = View(r, Innermost(r).pipeline)
  /\ descent' = [descent EXCEPT ![r][Len(descent[r])].same = TRUE]
  /\ UNCHANGED <<nests, saves, saveCount, flushed, crossed, outdated>>

\* it locks the row, which another run may have locked, until the session commits.
Updates(r) ==
  /\ descent[r] # <<>> /\ Innermost(r).todo = {}
  /\ Innermost(r).same \/ Innermost(r).steps # View(r, Innermost(r).pipeline)

WrittenBack(r) ==
  LET frame == Innermost(r)
  IN  [p \in DOMAIN flushed[r] \cup {frame.pipeline} |->
         IF p = frame.pipeline /\ ~ frame.same THEN frame.steps ELSE View(r, p)]

LeaveNested(r) ==
  /\ Updates(r) /\ Unlocked(Innermost(r).pipeline, {r}) /\ Len(descent[r]) > 1
  /\ flushed' = [flushed EXCEPT ![r] = WrittenBack(r)]
  /\ descent' = [descent EXCEPT ![r] = SubSeq(@, 1, Len(@) - 1)]
  /\ UNCHANGED <<nests, saves, saveCount, crossed, outdated>>

\* The outermost: everything the session wrote is committed.
FinishDescent(r) ==
  /\ Updates(r) /\ Unlocked(Innermost(r).pipeline, {r}) /\ Len(descent[r]) = 1
  /\ Commits(r, [p \in Pipelines |->
                  IF p \in DOMAIN WrittenBack(r) THEN WrittenBack(r)[p] ELSE nests[p]])
  /\ flushed' = [flushed EXCEPT ![r] = NothingFlushed]
  /\ descent' = [descent EXCEPT ![r] = <<>>]
  /\ UNCHANGED <<saves, saveCount>>

\* The request is cut off, or an error leaves its session unusable: rolled back.
LoseDescent(r) ==
  /\ descent[r] # <<>>
  /\ descent' = [descent EXCEPT ![r] = <<>>]
  /\ flushed' = [flushed EXCEPT ![r] = NothingFlushed]
  /\ outdated' = outdated \ {r}
  /\ UNCHANGED <<nests, saves, saveCount, crossed>>

\* Runs waiting for rows of one another: the database ends one of them.
BlockedBy(r, o) ==
  /\ r # o /\ Updates(r) /\ Innermost(r).pipeline \in DOMAIN flushed[o]

BreakDeadlock ==
  \E stuck \in SUBSET Runs :
    /\ \A r \in stuck : \E o \in stuck : BlockedBy(r, o)
    /\ \E r \in stuck : LoseDescent(r)

Descend(r) ==
  \/ \E p \in Pipelines : EnterNested(r, p)
  \/ ReadBack(r)
  \/ LeaveNested(r)
  \/ FinishDescent(r)

GraphNext ==
  \/ \E e \in Editors, p \in Pipelines, inner \in SUBSET Pipelines :
       CheckSave(e, p, inner)
  \/ \E e \in Editors, p \in Pipelines : TouchSave(e, p)
  \/ \E e \in Editors : CommitSave(e)
  \/ \E r \in Runs, p \in Pipelines : StartDescent(r, p) \/ SkipNested(r, p)
  \/ \E r \in Runs : Descend(r) \/ LoseDescent(r)

GraphSpec == GraphInit /\ [][GraphNext]_graphVars

-----------------------------------------------------------------------------
(* Properties.                                                             *)

\* A pipeline can only have come to lead back to itself through a write based
\* on a reading that another's commit had outdated: a save checked before, or
\* a pipeline put back as a run or a change of its description once read it.
\* As long as no two writes cross so, the check (_check_nesting) keeps the
\* graph free of loops, whatever the order of the saves and the runs between.
LoopNeedsCrossing ==
  (\E p \in Pipelines : p \in Reachable(nests, nests[p])) => crossed

\* A run through a loop of pipelines ends all the same.
DescentEnds == \A r \in Runs : descent[r] # <<>> ~> descent[r] = <<>>
=============================================================================
