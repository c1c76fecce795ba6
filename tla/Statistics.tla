----------------------------- MODULE Statistics -----------------------------
(***************************************************************************)
(* Sums over sequences of numbers.  What is divided by is left to whoever  *)
(* asks: a deviation is n times the sum of products around the means.      *)
(***************************************************************************)
EXTENDS SequencesExt, FiniteSetsExt, Integers, TLC

Total(ys) == LET sum[i \in 0 .. Len(ys)] == IF i = 0 THEN 0 ELSE sum[i - 1] + ys[i]
             IN sum[Len(ys)]
Abs(x) == Max({x, -x})
Products(xs, ys) == [i \in DOMAIN xs |-> xs[i] * ys[i]]
Deviations(xs, ys) == Len(xs) * Total(Products(xs, ys)) - Total(xs) * Total(ys)
Median(ys) == LET s == SortSeq(ys, <)
              IN <<s[(Len(s) + 1) \div 2] + s[Len(s) \div 2 + 1], 2>>
=============================================================================
