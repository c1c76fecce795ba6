--------------------------- MODULE TrackMatching ---------------------------
(***************************************************************************)
(* How the typhoon provider finds the historical typhoons that a track     *)
(* resembles (typhoon_analog/algorithms): rankings by position, by summary *)
(* features, by dynamic time warping, by rule and by rainfall, fused by    *)
(* reciprocal rank, and the vote of the closest ones.                      *)
(*                                                                         *)
(* A typhoon is where it passed, its features, its path, its class by the  *)
(* rules, the category forecasters gave it, and the rain of each region.   *)
(* Positions and features are points on a line, the kilometres and the     *)
(* normalised vectors of the code; ids are numbers, in the order of the    *)
(* dataset.                                                                *)
(***************************************************************************)
EXTENDS Integers, Sequences, FiniteSets, SequencesExt, FiniteSetsExt, Functions

CONSTANTS Typhoons,      \* 1 .. how many
          Regions,
          DefaultRegion,
          Far,           \* a position outside the buffer
          NoRain, NoCategory,
          Analogs,       \* k
          PoolFactor,    \* pool_size_factor
          RrfK,          \* rrf_k
          WarpBand           \* SAKOE_CHIBA_RATIO, in percent

ASSUME MatchingAssumption ==
  /\ DefaultRegion \in Regions /\ Analogs \in Nat \ {0} /\ PoolFactor \in Nat \ {0}
  /\ RrfK \in Nat \ {0} /\ WarpBand \in Nat
  /\ Cardinality(Typhoons) \in Nat \ {0} /\ Typhoons = 1 .. Cardinality(Typhoons)

Infinite == 1000000
PathParts == 60     \* every number of points of two paths divides it
Gap(x, y) == IF x < y THEN y - x ELSE x - y
Count == Cardinality(Typhoons)
Query == 0

-----------------------------------------------------------------------------
(* Dynamic time warping.                                                   *)

\* How far the clocks of two paths may run apart: a share of the longer.
BandOf(p, q) == Max({1, (WarpBand * Max({Len(p), Len(q)})) \div 100})

InBand(i, j, band) == i - band <= j /\ j <= i + band

Apart(x, y) == (x - y) * (x - y)

\* Into a cell from the one above, the one beside and the one between the two.
Stepped(p, q, i, j, above, beside) ==
  IF ~InBand(i, j, BandOf(p, q)) THEN Infinite
  ELSE Min({Infinite, Apart(p[i], q[j]) + Min({above[j], beside, above[j - 1]})})

RowBelow(p, q, i, above) ==
  LET cost[j \in 0 .. Len(q)] ==
        IF j = 0 THEN Infinite ELSE Stepped(p, q, i, j, above, cost[j - 1])
  IN cost

\* The cheapest way to walk along both paths together, row by row.  No way leads
\* from or to a path without a point.
DtwCost(p, q) ==
  LET cost[i \in 0 .. Len(p)] ==
        IF i = 0 THEN [j \in 0 .. Len(q) |-> IF j = 0 THEN 0 ELSE Infinite]
                 ELSE RowBelow(p, q, i, cost[i - 1])
  IN IF p = <<>> \/ q = <<>> THEN Infinite ELSE cost[Len(p)][Len(q)]

\* Per point of the two paths; the root of it is of the same order.
DtwDistance(p, q) ==
  IF DtwCost(p, q) = Infinite THEN Infinite
                              ELSE (DtwCost(p, q) * PathParts) \div (Len(p) + Len(q))

-----------------------------------------------------------------------------
(* Rankings.                                                               *)

\* By distance, ties in the order of the dataset.
Closer(distance, t, u) ==
  distance[t] < distance[u] \/ (distance[t] = distance[u] /\ t < u)

Nearest(distance) ==
  [i \in 1 .. Cardinality(DOMAIN distance) |->
     CHOOSE t \in DOMAIN distance :
       Cardinality({u \in DOMAIN distance : Closer(distance, u, t)}) = i - 1]

Pool(list, size) == SubSeq(list, 1, Min({size, Len(list)}))

\* Counted from zero; who is not in the list ranks as stated.
Rank(list, t, otherwise) ==
  IF t \in Range(list) THEN (CHOOSE i \in DOMAIN list : list[i] = t) - 1 ELSE otherwise

\* Typhoons, and the track asked about, that never came near are not compared.
ByCoast(catalogue, pool, track) ==
  Nearest([t \in {t \in pool : catalogue[t].coast # Far /\ track.coast # Far} |->
             Gap(catalogue[t].coast, track.coast)])
ByFeatures(catalogue, pool, track) ==
  Nearest([t \in pool |-> Gap(catalogue[t].features, track.features)])
ByPath(catalogue, pool, track) ==
  Nearest([t \in pool |-> DtwDistance(catalogue[t].path, track.path)])
ByRule(catalogue, pool, class) ==
  Nearest([t \in pool |-> IF catalogue[t].class = class THEN 0 ELSE 1])

\* _rainfall_ranks: typhoons without a measurement last.
ByRain(table, rain) ==
  IF rain = NoRain \/ DOMAIN table = {} THEN <<>>
  ELSE Nearest([t \in Typhoons |-> IF table[t] = NoRain THEN Infinite ELSE Gap(table[t], rain)])

-----------------------------------------------------------------------------
(* Reciprocal rank fusion.                                                 *)

Signal(list, weight, otherwise) == [list |-> list, weight |-> weight, otherwise |-> otherwise]

\* Every reciprocal of a rank is a whole number of these.
Parts == FoldSet(LAMBDA i, n : n * (RrfK + i), 1, 0 .. Count)

\* Mutated: a typhoon a list does not know counts as its first.
UnknownFirst(signals, t) ==
  MapThenSumSet(LAMBDA s : signals[s].weight * (Parts \div (RrfK + Rank(signals[s].list, t, 0))),
                DOMAIN signals)

FusedScore(signals, t) ==
  MapThenSumSet(LAMBDA s : signals[s].weight
                             * (Parts \div (RrfK + Rank(signals[s].list, t, signals[s].otherwise))),
                DOMAIN signals)

\* The k best; those of one score in any order (they come out of a set).
BestOf(signals, candidates) ==
  LET score == [t \in candidates |-> FusedScore(signals, t)]
      n == Min({Analogs, Cardinality(candidates)})
  IN {best \in [1 .. n -> candidates] :
        /\ IsInjective(best)
        /\ \A i \in 1 .. n : /\ i < n => score[best[i]] >= score[best[i + 1]]
                             /\ \A t \in candidates \ Range(best) : score[best[i]] >= score[t]}

\* What a similarity is set to is whether it ranks by rain, with what weight and
\* by which table of rain; one of them looks at the weight alone.
RainedBy(method, settings, rain) ==
  IF (IF method = "coastline_rrf" THEN settings.weight > 0 ELSE settings.use)
  THEN ByRain(settings.table, rain) ELSE <<>>

\* CoastlineRRFSimilarity.  A typhoon of the record is compared with the others
\* and by its own rain, a new track with all and by the rain expected of it.
CoastSignals(catalogue, settings, asked, track, rain) ==
  LET others == Typhoons \ {asked}
      size == Min({Cardinality(others), Analogs * PoolFactor})
      near == Pool(ByCoast(catalogue, others, track), size)
      alike == Pool(ByFeatures(catalogue, others, track), size)
      rained == RainedBy("coastline_rrf", settings, rain)
      fused == << Signal(near, 80, size), Signal(alike, 20, size) >>
  IN [signals |-> IF rained = <<>> THEN fused
                  ELSE Append(fused, Signal(rained, settings.weight, Count)),
      candidates |-> (Range(near) \cup Range(alike) \cup Range(Pool(rained, size))) \ {asked}]

\* CombinedSimilarity.  A new track is of the class of the typhoon whose
\* features come closest.
CombinedSignals(catalogue, settings, asked, track, rain) ==
  LET others == Typhoons \ {asked}
      size == Min({Cardinality(others), Analogs * PoolFactor})
      alike == Pool(ByFeatures(catalogue, others, track), size)
      along == Pool(ByPath(catalogue, others, track), size)
      class == IF asked = Query THEN catalogue[alike[1]].class ELSE track.class
      ruled == ByRule(catalogue, others, class)
      rained == RainedBy("combined_rainfall", settings, rain)
      weight == IF rained = <<>> THEN 0 ELSE settings.weight
      fused == << Signal(alike, 10, size), Signal(along, Max({0, 50 - weight}), size),
                  Signal(ruled, 40, Count) >>
  IN [signals |-> IF weight = 0 THEN fused ELSE Append(fused, Signal(rained, weight, Count)),
      candidates |->
        (Range(alike) \cup Range(along) \cup Range(Pool(rained, size))
           \cup {t \in Range(Pool(ruled, size)) : asked = Query \/ catalogue[t].class = class})
        \ {asked}]

\* find_similar, find_similar_by_track, find_similar_by_vector: the answers that
\* may come out.
Fused == {"coastline_rrf", "combined_rainfall"}

Fusion(method, catalogue, settings, asked, track, rain) ==
  IF method = "coastline_rrf" THEN CoastSignals(catalogue, settings, asked, track, rain)
                              ELSE CombinedSignals(catalogue, settings, asked, track, rain)

Similar(method, catalogue, settings, asked, track, rain) ==
  LET others == Typhoons \ {asked}
      fusion == Fusion(method, catalogue, settings, asked, track, rain)
  IN CASE method \in Fused -> BestOf(fusion.signals, fusion.candidates)
       [] method = "coastline" -> {Pool(ByCoast(catalogue, others, track), Analogs)}
       [] method = "knn_optimized" -> {Pool(ByFeatures(catalogue, others, track), Analogs)}

\* A track that never comes near cannot be asked about by position.
Answerable(method, track) == method \in {"coastline", "coastline_rrf"} => track.coast # Far

-----------------------------------------------------------------------------
(* The vote, and how often it is right.                                    *)

\* AnalogModel.predict.  Analogs without a category do not vote, a vote weighs
\* less the further it comes from: a category is out when another has as many
\* votes among the closest, however many of them are looked at, and more of some.
VotesUpTo(catalogue, best, category, n) ==
  Cardinality({i \in 1 .. n : catalogue[best[i]].category = category})

Outvotes(catalogue, best, c, d) ==
  LET votes(x, n) == VotesUpTo(catalogue, best, x, n)
  IN /\ \A n \in DOMAIN best : votes(c, n) >= votes(d, n)
     /\ \E n \in DOMAIN best : votes(c, n) > votes(d, n)

\* The categories that may win, one of them by its votes.
Winners(catalogue, best) ==
  LET voted == {catalogue[t].category : t \in Range(best)} \ {NoCategory}
  IN IF voted = {} THEN {NoCategory}
     ELSE {d \in voted : \A c \in voted : ~Outvotes(catalogue, best, c, d)}

\* compute_category_accuracy, of what was predicted of each.
Accuracy(catalogue, predicted) ==
  LET counted == {t \in DOMAIN predicted : predicted[t] # NoCategory}
      fell(c, guess) == {t \in counted : catalogue[t].category = c /\ predicted[t] = guess}
      of(c) == {t \in counted : catalogue[t].category = c}
  IN [total |-> Cardinality(counted),
      correct |-> Cardinality({t \in counted : catalogue[t].category = predicted[t]}),
      per_category |-> [c \in {catalogue[t].category : t \in counted} |->
                          [total |-> Cardinality(of(c)), correct |-> Cardinality(fell(c, c))]],
      confusion |-> [pair \in {<<catalogue[t].category, predicted[t]>> : t \in counted} |->
                       Cardinality(fell(pair[1], pair[2]))]]
=============================================================================
