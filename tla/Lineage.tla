------------------------------- MODULE Lineage -------------------------------
(***************************************************************************)
(* Where data came from and what depends on it: a graph walked over the    *)
(* rows of the catalogue when somebody asks (lineage/application).  A step *)
(* is the edge to draw at a row and the row to walk on to; an edge points  *)
(* the way the data went.                                                  *)
(***************************************************************************)
EXTENDS Catalogue

CONSTANTS MaxDepth  \* how many hops a question follows at most
ASSUME LineageAssumption == MaxDepth \in Nat \ {0}

FromEach(sources, i) == {[at |-> i, edge |-> <<j, i>>, next |-> j] : j \in sources}
ToEach(targets, i) == {[at |-> i, edge |-> <<i, j>>, next |-> j] : j \in targets}

\* Mutated: only the current version of a dataset is followed.
CurrentVersionOnly(d) == FromEach(Named(d, "version"), d)

\* A dataset's versions, followed whichever way the walk goes.
DatasetVersions(d) == FromEach(Naming("dataset_version", "dataset", d), d)

\* Where a row came from; a row that is gone leads nowhere.
Upstream(i) ==
  IF ~rows[i].live THEN {} ELSE
  CASE Kind(i) = "dataset" -> DatasetVersions(i) \cup FromEach(Named(i, "source"), i)
    [] Kind(i) = "dataset_version" ->
         ToEach(Named(i, "dataset"), i)
           \cup FromEach(Named(i, "execution") \cup Named(i, "source"), i)
    [] Kind(i) = "execution" ->
         FromEach(Named(i, "version") \cup Named(i, "model") \cup Named(i, "pipeline"), i)
    [] Kind(i) = "result" -> FromEach(Named(i, "execution"), i)
    [] Kind(i) = "pipeline" -> FromEach(Named(i, "dataset"), i)
    [] Kind(i) = "visualization" ->
         FromEach(Named(i, "version") \cup Named(i, "result"), i)
    [] Kind(i) = "dashboard" -> FromEach(rows[i].tiles, i)
    [] OTHER -> {}

\* What depends on a row.  Those that are found by listing are found for a row
\* that is gone as well.
Downstream(i) ==
  CASE Kind(i) = "source" -> ToEach(Naming("dataset", "source", i), i)
    [] Kind(i) = "dataset" -> IF rows[i].live THEN DatasetVersions(i) ELSE {}
    [] Kind(i) = "dataset_version" ->
         ToEach(Naming("execution", "version", i)
                  \cup Naming("visualization", "version", i), i)
    [] Kind(i) = "execution" -> ToEach(Named(i, "result"), i)
    [] Kind(i) = "result" ->
         IF rows[i].live
         THEN ToEach(Named(i, "version") \cup Naming("visualization", "result", i), i)
         ELSE {}
    [] Kind(i) = "model" -> ToEach(Naming("execution", "model", i), i)
    [] Kind(i) = "visualization" ->
         ToEach({b \in Kept("dashboard") : i \in rows[b].tiles}, i)
    [] OTHER -> {}

Followed(i, direction) == IF direction = "up" THEN Upstream(i) ELSE Downstream(i)

\* The walk, breadth first, at most `hops` more of them along the steps there
\* are; it is cut off when the last one still found rows.
RECURSIVE Walk(_, _, _)
Walk(graph, steps, hops) ==
  IF hops = 0 \/ graph.frontier = {} THEN graph ELSE
  LET taken == {s \in steps : s.at \in graph.frontier}
      found == {s.next : s \in taken}
  IN Walk([nodes |-> graph.nodes \cup found,
           edges |-> graph.edges \cup {s.edge : s \in taken},
           frontier |-> found \ graph.nodes], steps, hops - 1)

LineageGraph(root, steps, depth) ==
  Walk([nodes |-> {root}, edges |-> {}, frontier |-> {root}], steps, depth)

-----------------------------------------------------------------------------
\* The rows that fed these, through rows that are all still there.
RECURSIVE Feeding(_)
Feeding(fed) ==
  LET more == {j \in Ids \ fed : rows[j].live /\ \E k \in fed : <<j, k>> \in flowed}
  IN IF more = {} THEN fed ELSE Feeding(fed \cup more)

\* And those they fed.
RECURSIVE Fed(_)
Fed(feeding) ==
  LET more == {j \in Ids \ feeding : rows[j].live /\ \E k \in feeding : <<k, j>> \in flowed}
  IN IF more = {} THEN feeding ELSE Fed(feeding \cup more)

\* A graph has both ends of every edge it draws, and says it is cut off unless
\* every step from its nodes is in it.
WholeGraph(graph, steps) ==
  /\ \A edge \in graph.edges : {edge[1], edge[2]} \subseteq graph.nodes
  /\ graph.frontier # {}
     \/ \A s \in steps : s.at \in graph.nodes => s.edge \in graph.edges /\ s.next \in graph.nodes

\* The two questions lineage answers: "where did this come from" names every
\* row that fed the asked one (but results, which only the other question
\* passes), and "what depends on this" every row it fed (but the datasets that
\* hold its versions, and nothing at all for a pipeline).  Both as far as the
\* rows on the way are still there, and however many were materialised,
\* refreshed or deleted in the meantime; and either answer is a whole graph,
\* at any depth.
LineageAgrees ==
  LET live == {i \in Ids : rows[i].live}
      up == UNION {Followed(i, "up") : i \in Ids}
      down == UNION {Followed(i, "down") : i \in Ids}
  IN \A i \in live :
       LET origins == LineageGraph(i, up, MaxDepth)
           dependents == LineageGraph(i, down, MaxDepth)
       IN /\ WholeGraph(origins, up) /\ WholeGraph(LineageGraph(i, up, 2), up)
          /\ WholeGraph(dependents, down) /\ WholeGraph(LineageGraph(i, down, 2), down)
          /\ \A j \in Feeding({i}) :
               Kind(j) = "result" \/ j \in origins.nodes \/ origins.frontier # {}
          /\ \A j \in Fed({i}) :
               \/ Kind(j) = "dataset" \/ Kind(i) = "pipeline"
               \/ j \in dependents.nodes \/ dependents.frontier # {}

\* Where anything came from and what depends on it can be asked at any time,
\* and what the answer names as kept can be read.
TraceableAndReadable == LineageAgrees /\ RecordsReadable
=============================================================================
