---------------------------- MODULE ContentProofs ----------------------------
(***************************************************************************)
(* What is built by going through a declared sequence: what the starts of  *)
(* Seeding leave behind, the tables of the worked example, the places a    *)
(* dashboard gives its tiles; and what is said of an asset's record.  The  *)
(* first section is about folds, for any step and any sequence; the others *)
(* bring their components' inductive invariants to the theorems.           *)
(***************************************************************************)
EXTENDS Seeding, WorkedExample, Charts, AssetEngine, SequenceTheorems, WellFoundedInduction, TLAPS

-----------------------------------------------------------------------------
(* Folds.                                                                  *)

LEMMA ElementOf ==
  ASSUME NEW S, NEW q \in Seq(S), NEW i \in 1..Len(q)
  PROVE  q[i] \in S
OBVIOUS

(* A set of numbers that is not empty has a least.                         *)
LEMMA HasLeast ==
  ASSUME NEW T, T \subseteq Nat, T # {}
  PROVE  \E m \in T : \A k \in T : m <= k
<1>1. PICK m \in T : \A k \in T : ~ (<<k, m>> \in OpToRel(<, Nat))
  BY WFMin, NatLessThanWellFounded
<1>2. \A k \in T : k < m => <<k, m>> \in OpToRel(<, Nat)
  BY DEF OpToRel
<1>3. \A k \in T : ~ (k < m)
  BY <1>1, <1>2, Zenon
<1> QED
  BY <1>3

(* What holds of 0 and, up to n, of a number if of the one before, holds up
   to n.                                                                   *)
LEMMA CountingUp ==
  ASSUME NEW n \in Nat, NEW T, 0 \in T, \A i \in 1..n : i - 1 \in T => i \in T
  PROVE  \A i \in 0..n : i \in T
<1> DEFINE Short == {i \in 0..n : i \notin T}
<1> SUFFICES ASSUME Short # {} PROVE FALSE
  OBVIOUS
<1>1. PICK m \in Short : \A k \in Short : m <= k
  <2>1. Short \subseteq Nat
    OBVIOUS
  <2> HIDE DEF Short
  <2> QED
    BY <2>1, HasLeast
<1>2. m \in 1..n /\ m - 1 \in 0..n
  BY <1>1
<1>3. m - 1 \in T
  BY <1>1, <1>2
<1> QED
  BY <1>1, <1>2, <1>3

(* The greatest element of a set of numbers up to n that has n is n.       *)
LEMMA GreatestIsLast ==
  ASSUME NEW n \in Nat \ {0}, NEW s \in SUBSET (1..n), n \in s
  PROVE  Max(s) = n
<1>1. \A x \in s : n >= x
  OBVIOUS
<1>2. Max(s) \in s /\ \A y \in s : Max(s) >= y
  BY <1>1 DEF Max
<1>3. Max(s) \in 1..n
  BY <1>2
<1> QED
  BY <1>2, <1>3

(* The table a fold of n steps looks its result up in: step i is H[i], and
   keeps within V.                                                         *)
IsTable(g, n, base, H) ==
  g = [s \in SUBSET (1..n) |-> IF s = {} THEN base ELSE H[Max(s)][g[s \ {Max(s)}]]]

LEMMA FoldTable ==
  ASSUME NEW n \in Nat, NEW V, NEW base \in V, NEW H \in [1..n -> [V -> V]]
  PROVE  \E g \in [SUBSET (1..n) -> V] : IsTable(g, n, base, H)
<1> DEFINE Tabled == {k \in Nat : k <= n => \E g \in [SUBSET (1..k) -> V] : IsTable(g, k, base, H)}
<1>1. 0 \in Tabled
  <2> DEFINE g == [s \in SUBSET (1..0) |-> base]
  <2>1. \A s \in SUBSET (1..0) : s = {}
    OBVIOUS
  <2>2. g \in [SUBSET (1..0) -> V] /\ IsTable(g, 0, base, H)
    BY <2>1 DEF IsTable
  <2> QED
    BY <2>2
<1>2. ASSUME NEW k \in 1..n, k - 1 \in Tabled PROVE k \in Tabled
  <2>1. PICK g \in [SUBSET (1..(k - 1)) -> V] : IsTable(g, k - 1, base, H)
    <3>1. k - 1 <= n /\ k - 1 \in Nat
      OBVIOUS
    <3> QED
      BY <1>2, <3>1
  <2> DEFINE h == [s \in SUBSET (1..k) |-> IF k \in s THEN H[k][g[s \ {k}]] ELSE g[s]]
  <2>2. \A s \in SUBSET (1..k) : s \ {k} \in SUBSET (1..(k - 1))
    OBVIOUS
  <2>3. \A s \in SUBSET (1..k) : k \notin s => s \in SUBSET (1..(k - 1))
    OBVIOUS
  <2>4. \A s \in SUBSET (1..(k - 1)) : g[s] \in V
    OBVIOUS
  <2>5. \A v \in V : H[k][v] \in V
    OBVIOUS
  <2>6. h \in [SUBSET (1..k) -> V]
    BY <2>2, <2>3, <2>4, <2>5
  <2>7. ASSUME NEW s \in SUBSET (1..k)
        PROVE  h[s] = IF s = {} THEN base ELSE H[Max(s)][h[s \ {Max(s)}]]
    <3>1. CASE k \in s
      <4>1. Max(s) = k
        BY <3>1, GreatestIsLast
      <4>2. s \ {k} \in SUBSET (1..k) /\ h[s \ {k}] = g[s \ {k}]
        BY <2>2
      <4> QED
        BY <3>1, <4>1, <4>2
    <3>2. CASE k \notin s
      <4>1. s \in SUBSET (1..(k - 1)) /\ h[s] = g[s]
        BY <3>2, <2>3
      <4>2. g[s] = IF s = {} THEN base ELSE H[Max(s)][g[s \ {Max(s)}]]
        BY <2>1, <4>1 DEF IsTable
      <4>3. ASSUME NEW x PROVE h[s \ {x}] = g[s \ {x}]
        <5>1. s \ {x} \in SUBSET (1..k) /\ k \notin s \ {x}
          BY <3>2
        <5> QED
          BY <5>1
      <4>4. h[s \ {Max(s)}] = g[s \ {Max(s)}]
        BY <4>3
      <4> QED
        BY <4>1, <4>2, <4>4
    <3> QED
      BY <3>1, <3>2
  <2>8. IsTable(h, k, base, H)
    BY <2>7 DEF IsTable
  <2> HIDE DEF h
  <2>9. \E f \in [SUBSET (1..k) -> V] : IsTable(f, k, base, H)
    BY <2>6, <2>8
  <2>10. k \in Nat
    OBVIOUS
  <2> QED
    BY <2>9, <2>10
<1>3. \A k \in 0..n : k \in Tabled
  <2> HIDE DEF Tabled
  <2> QED
    BY <1>1, <1>2, CountingUp
<1>4. n \in 0..n /\ n <= n
  OBVIOUS
<1>5. n \in Tabled
  <2> HIDE DEF Tabled
  <2> QED
    BY <1>3, <1>4
<1> QED
  BY <1>4, <1>5

(* A set of numbers that is not empty has a greatest.                      *)
LEMMA GreatestIsIn ==
  ASSUME NEW n \in Nat, NEW s \in SUBSET (1..n), s # {}
  PROVE  Max(s) \in s
<1>1. PICK m \in {n - x : x \in s} : \A k \in {n - x : x \in s} : m <= k
  <2> DEFINE Turned == {n - x : x \in s}
  <2>1. \A x \in s : n - x \in Nat /\ n - x \in Turned
    OBVIOUS
  <2>2. Turned \subseteq Nat /\ Turned # {}
    BY <2>1
  <2> HIDE DEF Turned
  <2>3. \E m \in Turned : \A k \in Turned : m <= k
    BY <2>2, HasLeast
  <2> QED
    BY <2>3 DEF Turned
<1>2. PICK x \in s : m = n - x
  BY <1>1
<1>3. \A y \in s : m <= n - y
  BY <1>1
<1>4. \A y \in s : x >= y
  BY <1>2, <1>3
<1> QED
  BY <1>4 DEF Max

(* A table read along the sequence stays where its steps stay.             *)
LEMMA TableStays ==
  ASSUME NEW n \in Nat, NEW V, NEW g, g[{}] \in V,
         \A i \in 1..n : g[1..(i - 1)] \in V => g[1..i] \in V
  PROVE  \A i \in 0..n : g[1..i] \in V
<1> DEFINE T == {i \in 0..n : g[1..i] \in V}
<1>1. 0 \in T
  <2>1. 1..0 = {}
    OBVIOUS
  <2> QED
    BY <2>1
<1>2. \A i \in 1..n : i - 1 \in T => i \in T
  OBVIOUS
<1>3. \A i \in 0..n : i \in T
  <2> HIDE DEF T
  <2> QED
    BY <1>1, <1>2, CountingUp
<1> QED
  BY <1>3

LEMMA UpTo ==
  ASSUME NEW n \in Nat, NEW i \in 1..n
  PROVE  /\ 1..i \in SUBSET (1..n) /\ 1..i # {}
         /\ Max(1..i) = i /\ (1..i) \ {i} = 1..(i - 1)
<1>1. 1..i \in SUBSET (1..i) /\ i \in 1..i /\ i \in Nat \ {0}
  OBVIOUS
<1>2. Max(1..i) = i
  BY <1>1, GreatestIsLast
<1>3. (1..i) \ {i} = 1..(i - 1) /\ 1..i \in SUBSET (1..n) /\ 1..i # {}
  OBVIOUS
<1> QED
  BY <1>2, <1>3

-----------------------------------------------------------------------------
(* What is made.                                                           *)

Rows == [copies : Nat, parts : SUBSET Everything, published : BOOLEAN]
Catalogues == [Everything -> Rows]

(* The catalogues in which some of N is there that was not, once each, or has
   been given other parts.                                                 *)
Filled(db, N) ==
  {after \in Catalogues :
     \A n \in Everything :
       /\ n \notin N => after[n] = db[n]
       /\ \/ after[n].copies = db[n].copies
          \/ db[n].copies = 0 /\ after[n].copies = 1}

LEMMA FilledAgain ==
  ASSUME NEW db \in Catalogues, NEW N, NEW M, NEW K, N \subseteq K, M \subseteq K,
         NEW a \in Filled(db, N), NEW b \in Filled(a, M)
  PROVE  b \in Filled(db, K)
<1>1. a \in Catalogues /\ b \in Catalogues
  BY DEF Filled
<1>2. ASSUME NEW n \in Everything
      PROVE  /\ n \notin K => b[n] = db[n]
             /\ \/ b[n].copies = db[n].copies
                \/ db[n].copies = 0 /\ b[n].copies = 1
  BY DEF Filled
<1> QED
  BY <1>1, <1>2 DEF Filled

LEMMA NothingFilled ==
  ASSUME NEW db \in Catalogues, NEW N
  PROVE  db \in Filled(db, N)
BY DEF Filled

LEMMA MadeRow ==
  ASSUME NEW db \in Catalogues, NEW n \in Everything, NEW parts \in SUBSET Everything,
         NEW published \in BOOLEAN
  PROVE  LET made == Made(db, n, parts, published) IN
         /\ made \in Catalogues /\ made[n].copies = db[n].copies + 1
         /\ \A m \in Everything : m # n => made[m] = db[m]
<1>1. db[n] \in Rows
  BY DEF Catalogues
<1>2. [copies |-> db[n].copies + 1, parts |-> parts, published |-> published] \in Rows
  BY <1>1 DEF Rows
<1> QED
  BY <1>2 DEF Made, Catalogues

LEMMA MadeHas ==
  ASSUME NEW db \in Catalogues, NEW n \in Everything, NEW parts \in SUBSET Everything
  PROVE  Has(Made(db, n, parts, FALSE), n)
<1>1. db[n].copies \in Nat
  BY DEF Catalogues, Rows
<1>2. Made(db, n, parts, FALSE)[n].copies = db[n].copies + 1
  BY MadeRow
<1> DEFINE made == Made(db, n, parts, FALSE)
<1>3. made[n].copies > 0
  <2> HIDE DEF made
  <2>1. made[n].copies = db[n].copies + 1
    BY <1>2 DEF made
  <2> QED
    BY <1>1, <2>1
<1> QED
  BY <1>3 DEF Has

LEMMA MadeFills ==
  ASSUME NEW db \in Catalogues, NEW N, NEW n \in Everything, n \in N, ~Has(db, n),
         NEW parts \in SUBSET Everything, NEW published \in BOOLEAN
  PROVE  /\ Made(db, n, parts, published) \in Filled(db, N)
         /\ Made(db, n, parts, published)[n] = [copies |-> 1, parts |-> parts, published |-> published]
<1>1. db[n] \in Rows /\ db[n].copies = 0
  BY DEF Catalogues, Rows, Has
<1>2. Made(db, n, parts, published) =
        [db EXCEPT ![n] = [copies |-> 1, parts |-> parts, published |-> published]]
  BY <1>1 DEF Made
<1>3. [copies |-> 1, parts |-> parts, published |-> published] \in Rows
  BY DEF Rows
<1>4. Made(db, n, parts, published) \in Catalogues
  BY <1>2, <1>3 DEF Catalogues
<1> QED
  BY <1>1, <1>2, <1>4 DEF Filled, Catalogues

(* One declaration of a fixture fills in no more than its own name.        *)
LEMMA LoadSpecFills ==
  ASSUME NEW db \in Catalogues, NEW broken \in SUBSET FixtureSections, NEW loading,
         loading = [db |-> db, broken |-> broken], NEW spec \in Declared, NEW bad
  PROVE  LET after == LoadSpec(loading, spec, bad) IN
         after \in [db : Filled(db, {spec.name}), broken : SUBSET FixtureSections]
<1> DEFINE after == LoadSpec(loading, spec, bad)
           parts == There(db, spec.parts)
<1>1. spec.name \in Everything /\ parts \in SUBSET Everything /\ spec.kind \in FixtureSections
  BY DEF Declared, There
<1>2. CASE after = loading
  BY <1>2, NothingFilled
<1>3. CASE after = [loading EXCEPT !.broken = @ \cup {spec.kind}]
  BY <1>1, <1>3, NothingFilled
<1>4. CASE Found(db, spec) /\ after = [loading EXCEPT !.db =
             [db EXCEPT ![spec.name].parts = parts, ![spec.name].published = TRUE]]
  <2> DEFINE new == [db EXCEPT ![spec.name].parts = parts, ![spec.name].published = TRUE]
  <2>1. db[spec.name] \in Rows
    BY <1>1 DEF Catalogues
  <2>2. [db[spec.name] EXCEPT !.parts = parts, !.published = TRUE] \in Rows
    BY <1>1, <2>1 DEF Rows
  <2>3. new = [db EXCEPT ![spec.name] = [db[spec.name] EXCEPT !.parts = parts, !.published = TRUE]]
    BY <1>1, <2>1 DEF Catalogues, Rows
  <2>4. new \in Catalogues
    BY <2>2, <2>3 DEF Catalogues
  <2>5. new \in Filled(db, {spec.name})
    BY <2>1, <2>3, <2>4, <1>1 DEF Filled, Catalogues, Rows
  <2>6. after = [db |-> new, broken |-> broken]
    BY <1>4
  <2> HIDE DEF new, after
  <2> QED
    BY <2>5, <2>6 DEF after
<1>5. CASE ~Found(db, spec) /\ after = [loading EXCEPT !.db =
             Made(db, spec.name, parts, spec.kind = "applications")]
  <2>1. Made(db, spec.name, parts, spec.kind = "applications") \in Filled(db, {spec.name})
    BY <1>1, <1>5, MadeFills DEF Found
  <2> QED
    BY <1>5, <2>1
<1>6. \/ after = loading
      \/ after = [loading EXCEPT !.broken = @ \cup {spec.kind}]
      \/ Found(db, spec) /\ after = [loading EXCEPT !.db =
             [db EXCEPT ![spec.name].parts = parts, ![spec.name].published = TRUE]]
      \/ ~Found(db, spec) /\ after = [loading EXCEPT !.db =
             Made(db, spec.name, parts, spec.kind = "applications")]
  BY DEF LoadSpec
<1> QED
  BY <1>2, <1>3, <1>4, <1>5, <1>6

-----------------------------------------------------------------------------
(* The folds of a start, step by step.                                     *)

Opened(db) == [db |-> db, broken |-> {}]

LoadStays(V, fixture, n, bad) == \A v \in V, i \in 1..n : LoadSpec(v, fixture[i], bad) \in V
LoadGoes(t, db, fixture, n, bad) ==
  /\ t[0] = Opened(db)
  /\ \A i \in 1..n : t[i] = LoadSpec(t[i - 1], fixture[i], bad)
  /\ Load(db, fixture, bad) = t[n].db

(* Loading a fixture goes through one state for each of its declarations,
   within any set the declarations do not lead out of.                     *)
LEMMA LoadTrace ==
  ASSUME NEW db, NEW fixture, NEW bad, NEW n \in Nat, DOMAIN fixture = 1..n,
         NEW V, Opened(db) \in V,
         LoadStays(V, fixture, n, bad)
  PROVE  \E t \in [0..n -> V] : LoadGoes(t, db, fixture, n, bad)
<1> DEFINE H == [i \in 1..n |-> [v \in V |-> LoadSpec(v, fixture[i], bad)]]
           Table(g) == g = [s \in SUBSET (DOMAIN fixture) |->
                              IF s = {} THEN Opened(db)
                              ELSE LoadSpec(g[s \ {Max(s)}], fixture[Max(s)], bad)]
<1>1. DOMAIN fixture = 1..n /\ H \in [1..n -> [V -> V]]
  BY DEF LoadStays
<1>2. PICK f \in [SUBSET (1..n) -> V] : IsTable(f, n, Opened(db), H)
  <2> HIDE DEF H
  <2> QED
    BY <1>1, FoldTable
<1>3. Table(f)
  <2>1. ASSUME NEW s \in SUBSET (1..n), s # {}
        PROVE  H[Max(s)][f[s \ {Max(s)}]] = LoadSpec(f[s \ {Max(s)}], fixture[Max(s)], bad)
    <3>1. Max(s) \in 1..n
      BY <1>1, <2>1, GreatestIsIn
    <3>2. f[s \ {Max(s)}] \in V
      OBVIOUS
    <3> QED
      BY <3>1, <3>2
  <2> HIDE DEF H
  <2> QED
    BY <1>1, <1>2, <2>1 DEF IsTable
<1>4. PICK g : Table(g) /\ Load(db, fixture, bad) = g[DOMAIN fixture].db
  BY <1>3 DEF Load, FoldLeft, MapThenFoldSet, Opened
<1>5. g[{}] = Opened(db)
  BY <1>4
<1>6. ASSUME NEW i \in 1..n PROVE g[1..i] = LoadSpec(g[1..(i - 1)], fixture[i], bad)
  BY <1>1, <1>4, UpTo
<1>7. \A i \in 0..n : g[1..i] \in V
  <2>1. \A i \in 1..n : g[1..(i - 1)] \in V => g[1..i] \in V
    BY <1>6 DEF LoadStays
  <2> QED
    BY <1>1, <1>5, <2>1, TableStays
<1> DEFINE t == [i \in 0..n |-> g[1..i]]
<1>8. t \in [0..n -> V] /\ t[n] = g[DOMAIN fixture]
  BY <1>1, <1>7
<1>9. t[0] = Opened(db)
  <2>1. 1..0 = {}
    OBVIOUS
  <2> QED
    BY <1>1, <1>5, <2>1
<1>10. \A i \in 1..n : t[i] = LoadSpec(t[i - 1], fixture[i], bad)
  BY <1>1, <1>6
<1> QED
  BY <1>4, <1>8, <1>9, <1>10 DEF LoadGoes

BuildStays(V, built, n, bad) == \A v \in V, i \in 1..n : BuildSpec(v, built[i], bad) \in V
BuildGoes(t, db, built, n, bad) ==
  /\ t[0] = db
  /\ \A i \in 1..n : t[i] = BuildSpec(t[i - 1], built[i], bad)
  /\ Build(db, built, bad) = t[n]

(* So does the code half.                                                  *)
LEMMA BuildTrace ==
  ASSUME NEW db, NEW built, NEW bad, NEW n \in Nat, DOMAIN built = 1..n,
         NEW V, db \in V,
         BuildStays(V, built, n, bad)
  PROVE  \E t \in [0..n -> V] : BuildGoes(t, db, built, n, bad)
<1> DEFINE H == [i \in 1..n |-> [v \in V |-> BuildSpec(v, built[i], bad)]]
           Table(g) == g = [s \in SUBSET (DOMAIN built) |->
                              IF s = {} THEN db
                              ELSE BuildSpec(g[s \ {Max(s)}], built[Max(s)], bad)]
<1>1. DOMAIN built = 1..n /\ H \in [1..n -> [V -> V]]
  BY DEF BuildStays
<1>2. PICK f \in [SUBSET (1..n) -> V] : IsTable(f, n, db, H)
  <2> HIDE DEF H
  <2> QED
    BY <1>1, FoldTable
<1>3. Table(f)
  <2>1. ASSUME NEW s \in SUBSET (1..n), s # {}
        PROVE  H[Max(s)][f[s \ {Max(s)}]] = BuildSpec(f[s \ {Max(s)}], built[Max(s)], bad)
    <3>1. Max(s) \in 1..n
      BY <1>1, <2>1, GreatestIsIn
    <3>2. f[s \ {Max(s)}] \in V
      OBVIOUS
    <3> QED
      BY <3>1, <3>2
  <2> HIDE DEF H
  <2> QED
    BY <1>1, <1>2, <2>1 DEF IsTable
<1>4. PICK g : Table(g) /\ Build(db, built, bad) = g[DOMAIN built]
  BY <1>3 DEF Build, FoldLeft, MapThenFoldSet
<1>5. g[{}] = db
  BY <1>4
<1>6. ASSUME NEW i \in 1..n PROVE g[1..i] = BuildSpec(g[1..(i - 1)], built[i], bad)
  BY <1>1, <1>4, UpTo
<1>7. \A i \in 0..n : g[1..i] \in V
  <2>1. \A i \in 1..n : g[1..(i - 1)] \in V => g[1..i] \in V
    BY <1>6 DEF BuildStays
  <2> QED
    BY <1>1, <1>5, <2>1, TableStays
<1> DEFINE t == [i \in 0..n |-> g[1..i]]
<1>8. t \in [0..n -> V] /\ t[n] = g[DOMAIN built]
  BY <1>1, <1>7
<1>9. t[0] = db
  <2>1. 1..0 = {}
    OBVIOUS
  <2> QED
    BY <1>1, <1>5, <2>1
<1>10. \A i \in 1..n : t[i] = BuildSpec(t[i - 1], built[i], bad)
  BY <1>1, <1>6
<1> QED
  BY <1>4, <1>8, <1>9, <1>10 DEF BuildGoes

(* So do the plugins, in their order.                                      *)
LEMMA ContributionsTrace ==
  ASSUME NEW db, NEW bad, NEW failing,
         NEW V, db \in V,
         \A v \in V, i \in 1..Len(Contributions) : Contribute(v, i, bad, failing) \in V
  PROVE  \E t \in [0..Len(Contributions) -> V] :
           /\ t[0] = db
           /\ \A i \in 1..Len(Contributions) : t[i] = Contribute(t[i - 1], i, bad, failing)
           /\ SeedContributions(db, bad, failing) = t[Len(Contributions)]
<1> DEFINE n == Len(Contributions)
           H == [i \in 1..n |-> [v \in V |-> Contribute(v, i, bad, failing)]]
           order == [c \in Plugins |-> c]
           Table(g) == g = [s \in SUBSET DOMAIN order |->
                              IF s = {} THEN db
                              ELSE Contribute(g[s \ {Max(s)}], order[Max(s)], bad, failing)]
<1>1. n \in Nat /\ Plugins = 1..n /\ DOMAIN order = 1..n /\ H \in [1..n -> [V -> V]]
  BY ContributionsAssumption DEF Plugins
<1>2. PICK f \in [SUBSET (1..n) -> V] : IsTable(f, n, db, H)
  <2> HIDE DEF n, H
  <2> QED
    BY <1>1, FoldTable
<1>3. Table(f)
  <2>1. ASSUME NEW s \in SUBSET (1..n), s # {}
        PROVE  H[Max(s)][f[s \ {Max(s)}]]
                 = Contribute(f[s \ {Max(s)}], order[Max(s)], bad, failing)
    <3>1. Max(s) \in 1..n
      BY <1>1, <2>1, GreatestIsIn
    <3>2. order[Max(s)] = Max(s) /\ f[s \ {Max(s)}] \in V
      BY <1>1, <3>1
    <3> QED
      BY <3>1, <3>2
  <2> HIDE DEF H
  <2> QED
    BY <1>1, <1>2, <2>1 DEF IsTable
<1>4. PICK g : Table(g) /\ SeedContributions(db, bad, failing) = g[DOMAIN order]
  BY <1>3 DEF SeedContributions, FoldLeft, MapThenFoldSet
<1>5. g[{}] = db
  BY <1>4
<1>6. ASSUME NEW i \in 1..n PROVE g[1..i] = Contribute(g[1..(i - 1)], i, bad, failing)
  <2>1. order[i] = i
    BY <1>1
  <2>2. 1..i \in SUBSET (1..n) /\ 1..i # {} /\ Max(1..i) = i /\ (1..i) \ {i} = 1..(i - 1)
    BY <1>1, UpTo
  <2>3. 1..i \in SUBSET DOMAIN order
    BY <1>1, <2>2
  <2> HIDE DEF order
  <2> QED
    BY <1>4, <2>1, <2>2, <2>3
<1>7. \A i \in 0..n : g[1..i] \in V
  <2>1. \A i \in 1..n : g[1..(i - 1)] \in V => g[1..i] \in V
    BY <1>6
  <2> HIDE DEF n
  <2> QED
    BY <1>1, <1>5, <2>1, TableStays
<1> DEFINE t == [i \in 0..n |-> g[1..i]]
<1>8. t \in [0..n -> V] /\ t[n] = g[DOMAIN order]
  BY <1>1, <1>7
<1>9. t[0] = db
  <2>1. 1..0 = {}
    OBVIOUS
  <2> QED
    BY <1>1, <1>5, <2>1
<1>10. \A i \in 1..n : t[i] = Contribute(t[i - 1], i, bad, failing)
  BY <1>1, <1>6
<1> QED
  BY <1>4, <1>8, <1>9, <1>10

-----------------------------------------------------------------------------
(* What a start fills in.                                                  *)

FixtureNames(specs) == {specs[i].name : i \in DOMAIN specs}
Lists(specs, n) ==
  n \in Nat /\ DOMAIN specs = 1..n /\ \A i \in 1..n : specs[i] \in Declared

LEMMA FilledFurther ==
  ASSUME NEW db \in Catalogues, NEW K, NEW a \in Filled(db, K), NEW M, M \subseteq K,
         NEW b \in Filled(a, M)
  PROVE  b \in Filled(db, K)
BY FilledAgain

(* Loading a fixture fills in no more than what it declares.               *)
LEMMA LoadFills ==
  ASSUME NEW db \in Catalogues, NEW fixture, NEW n, Lists(fixture, n), NEW bad
  PROVE  Load(db, fixture, bad) \in Filled(db, FixtureNames(fixture))
<1> DEFINE K == FixtureNames(fixture)
           V == [db : Filled(db, K), broken : SUBSET FixtureSections]
<1>1. Opened(db) \in V
  BY NothingFilled DEF Opened
<1>2. ASSUME NEW v \in V, NEW i \in 1..n PROVE LoadSpec(v, fixture[i], bad) \in V
  <2> DEFINE spec == fixture[i]
             after == LoadSpec(v, spec, bad)
  <2>1. spec \in Declared /\ {spec.name} \subseteq K
    BY DEF FixtureNames, Lists
  <2>2. v.db \in Catalogues /\ v.db \in Filled(db, K) /\ v.broken \in SUBSET FixtureSections
        /\ v = [db |-> v.db, broken |-> v.broken]
    BY DEF Filled
  <2>3. after \in [db : Filled(v.db, {spec.name}), broken : SUBSET FixtureSections]
    BY <2>1, <2>2, LoadSpecFills
  <2> HIDE DEF after, K
  <2>4. after.db \in Filled(db, K)
    BY <2>1, <2>2, <2>3, FilledFurther
  <2>5. after \in V
    BY <2>3, <2>4
  <2> QED
    BY <2>5 DEF after
<1>3. PICK t \in [0..n -> V] : Load(db, fixture, bad) = t[n].db
  <2>1. LoadStays(V, fixture, n, bad)
    BY <1>2 DEF LoadStays
  <2>3. n \in Nat /\ DOMAIN fixture = 1..n
    BY DEF Lists
  <2> HIDE DEF V
  <2>2. \E t \in [0..n -> V] : LoadGoes(t, db, fixture, n, bad)
    BY <1>1, <2>1, <2>3, LoadTrace
  <2> QED
    BY <2>2 DEF LoadGoes
<1>4. t[n] \in V
  BY DEF Lists
<1> QED
  BY <1>3, <1>4

(* Nor does the code half.                                                 *)
LEMMA BuildSpecFills ==
  ASSUME NEW db \in Catalogues, NEW spec \in Declared, NEW bad
  PROVE  BuildSpec(db, spec, bad) \in Filled(db, {spec.name})
<1>1. spec.name \in Everything /\ There(db, spec.parts) \in SUBSET Everything
  BY DEF Declared, There
<1> QED
  BY <1>1, MadeFills, NothingFilled DEF BuildSpec

LEMMA BuildFills ==
  ASSUME NEW db \in Catalogues, NEW built, NEW n, Lists(built, n), NEW bad
  PROVE  Build(db, built, bad) \in Filled(db, FixtureNames(built))
<1> DEFINE K == FixtureNames(built)
           V == Filled(db, K)
<1>1. db \in V
  BY NothingFilled
<1>2. ASSUME NEW v \in V, NEW i \in 1..n PROVE BuildSpec(v, built[i], bad) \in V
  <2>1. built[i] \in Declared /\ {built[i].name} \subseteq K
    BY DEF FixtureNames, Lists
  <2>2. v \in Catalogues
    BY DEF Filled
  <2>3. BuildSpec(v, built[i], bad) \in Filled(v, {built[i].name})
    BY <2>1, <2>2, BuildSpecFills
  <2> HIDE DEF K
  <2> QED
    BY <2>1, <2>3, FilledFurther
<1>3. PICK t \in [0..n -> V] : Build(db, built, bad) = t[n]
  <2>1. BuildStays(V, built, n, bad)
    BY <1>2 DEF BuildStays
  <2>3. n \in Nat /\ DOMAIN built = 1..n
    BY DEF Lists
  <2> HIDE DEF V
  <2>2. \E t \in [0..n -> V] : BuildGoes(t, db, built, n, bad)
    BY <1>1, <2>1, <2>3, BuildTrace
  <2> QED
    BY <2>2 DEF BuildGoes
<1> QED
  BY <1>3 DEF Lists

LEMMA ContributionParts ==
  ASSUME NEW c \in Plugins
  PROVE  /\ Contributions[c].project \in Everything \cap PluginNames(c)
         /\ Lists(Contributions[c].fixture, Len(Contributions[c].fixture))
         /\ Lists(Contributions[c].built, Len(Contributions[c].built))
         /\ FixtureNames(Contributions[c].fixture) \subseteq PluginNames(c)
         /\ FixtureNames(Contributions[c].built) \subseteq PluginNames(c)
<1> DEFINE F == Contributions[c].fixture
           B == Contributions[c].built
<1>1. Contributions[c] \in [project : Everything, fixture : Seq(Declared), built : Seq(Declared)]
  <2>1. c \in 1..Len(Contributions)
    BY ContributionsAssumption DEF Plugins
  <2> QED
    BY <2>1, ContributionsAssumption, ElementOf
<1>2. F \in Seq(Declared) /\ B \in Seq(Declared) /\ Specs(c) = F \o B
  BY <1>1 DEF Specs
<1> HIDE DEF F, B
<1>3. Len(F \o B) = Len(F) + Len(B) /\ DOMAIN (F \o B) = 1..(Len(F) + Len(B))
  BY <1>2
<1>4. ASSUME NEW i \in 1..Len(F) PROVE F[i] \in SpecsOf(c)
  <2>1. i \in DOMAIN Specs(c) /\ Specs(c)[i] = F[i]
    BY <1>2, <1>3
  <2> QED
    BY <2>1 DEF SpecsOf
<1>5. ASSUME NEW i \in 1..Len(B) PROVE B[i] \in SpecsOf(c)
  <2>1. i + Len(F) \in DOMAIN Specs(c) /\ Specs(c)[i + Len(F)] = B[i]
    BY <1>2, <1>3
  <2> QED
    BY <2>1 DEF SpecsOf
<1> QED
  BY <1>1, <1>2, <1>4, <1>5 DEF PluginNames, FixtureNames, Lists, F, B

(* Setting up a plugin fills in no more than the plugin brings.            *)
LEMMA PluginFills ==
  ASSUME NEW db \in Catalogues, NEW c \in Plugins, NEW bad
  PROVE  SeedPlugin(db, c, bad) \in Filled(db, PluginNames(c))
<1> DEFINE p == Contributions[c]
           filed == IF Has(db, p.project) THEN db ELSE Made(db, p.project, {}, FALSE)
           loaded == Load(filed, p.fixture, bad)
           built == Build(loaded, p.built, bad)
           again == Load(built, p.fixture, bad)
           K == PluginNames(c)
<1> USE ContributionParts
<1>1. filed \in Filled(db, K)
  BY MadeFills, NothingFilled
<1>2. loaded \in Filled(db, K)
  <2>1. filed \in Catalogues
    BY <1>1 DEF Filled
  <2> HIDE DEF filed, K
  <2>2. loaded \in Filled(filed, FixtureNames(p.fixture))
    BY <2>1, LoadFills
  <2> QED
    BY <1>1, <2>2, FilledFurther DEF K
<1>3. built \in Filled(db, K)
  <2>1. loaded \in Catalogues
    BY <1>2 DEF Filled
  <2> HIDE DEF loaded, K
  <2>2. built \in Filled(loaded, FixtureNames(p.built))
    BY <2>1, BuildFills
  <2> QED
    BY <1>2, <2>2, FilledFurther DEF K
<1>4. again \in Filled(db, K)
  <2>1. built \in Catalogues
    BY <1>3 DEF Filled
  <2> HIDE DEF built, K
  <2>2. again \in Filled(built, FixtureNames(p.fixture))
    BY <2>1, LoadFills
  <2> QED
    BY <1>3, <2>2, FilledFurther DEF K
<1> QED
  BY <1>4 DEF SeedPlugin

LEMMA ContributionsFill ==
  ASSUME NEW db \in Catalogues, NEW bad, NEW failing
  PROVE  SeedContributions(db, bad, failing) \in Filled(db, UNION {PluginNames(c) : c \in Plugins})
<1> DEFINE K == UNION {PluginNames(c) : c \in Plugins}
           V == Filled(db, K)
           n == Len(Contributions)
<1>1. db \in V
  BY NothingFilled
<1>2. ASSUME NEW v \in V, NEW i \in 1..n PROVE Contribute(v, i, bad, failing) \in V
  <2>1. i \in Plugins /\ PluginNames(i) \subseteq K
    BY ContributionsAssumption DEF Plugins
  <2>2. v \in Catalogues
    BY DEF Filled
  <2> HIDE DEF K
  <2> QED
    BY <2>1, <2>2, PluginFills, FilledFurther DEF Contribute
<1>3. PICK t \in [0..n -> V] : SeedContributions(db, bad, failing) = t[n]
  <2>1. \A v \in V, i \in 1..n : Contribute(v, i, bad, failing) \in V
    BY <1>2
  <2> HIDE DEF V
  <2>2. \E t \in [0..Len(Contributions) -> V] :
          /\ t[0] = db
          /\ \A i \in 1..Len(Contributions) : t[i] = Contribute(t[i - 1], i, bad, failing)
          /\ SeedContributions(db, bad, failing) = t[Len(Contributions)]
    BY <1>1, <2>1, ContributionsTrace
  <2> QED
    BY <2>2
<1>4. n \in Nat
  BY ContributionsAssumption
<1> QED
  BY <1>3, <1>4

(* The walkthrough fills in what is not unchecked; what is, only together
   with the first chart.                                                   *)
Checked == Everything \ Unchecked
Grown(db) ==
  {after \in Catalogues :
     /\ \A n \in Checked : \/ after[n].copies = db[n].copies
                           \/ db[n].copies = 0 /\ after[n].copies = 1
     /\ \A n \in Unchecked :
          \/ after[n] = db[n]
          \/ /\ ~Has(db, Core.byProduct) /\ Has(after, Core.byProduct)
             /\ after[n].copies = db[n].copies + 1}

LEMMA CoreParts ==
  /\ Core.byProduct \in Checked /\ Core.overTime \notin Checked /\ Core.overview \notin Checked
  /\ Core.sales \in Checked /\ Core.app \in Checked /\ Core.models \subseteq Checked
  /\ Core.overTime \in Everything /\ Core.overview \in Everything
  /\ Core.byProduct # Core.overTime /\ Core.byProduct # Core.overview /\ Core.overTime # Core.overview
  /\ Checked \subseteq Everything /\ Unchecked \subseteq Everything
  /\ \A c \in Plugins : PluginNames(c) \subseteq Checked
<1>1. ASSUME NEW c \in Plugins PROVE PluginNames(c) \subseteq Checked
  BY UncheckedAssumption DEF Checked, Everything
<1> QED
  BY <1>1, UncheckedAssumption DEF Checked, Everything, CoreNames, Unchecked

LEMMA FilledGrown ==
  ASSUME NEW db \in Catalogues, NEW a \in Filled(db, Checked), NEW b \in Grown(a)
  PROVE  b \in Grown(db)
<1>1. a \in Catalogues /\ b \in Catalogues
  BY DEF Filled, Grown
<1>2. \A n \in Everything : db[n].copies \in Nat /\ a[n].copies \in Nat /\ b[n].copies \in Nat
  BY <1>1 DEF Catalogues, Rows
<1>3. ASSUME NEW n \in Checked
      PROVE  b[n].copies = db[n].copies \/ (db[n].copies = 0 /\ b[n].copies = 1)
  <2>1. n \in Everything
    BY CoreParts
  <2>2. a[n].copies = db[n].copies \/ (db[n].copies = 0 /\ a[n].copies = 1)
    BY <2>1 DEF Filled
  <2>3. b[n].copies = a[n].copies \/ (a[n].copies = 0 /\ b[n].copies = 1)
    BY <2>1 DEF Grown
  <2> QED
    BY <1>2, <2>1, <2>2, <2>3
<1>4. Has(db, Core.byProduct) => Has(a, Core.byProduct)
  <2>1. Core.byProduct \in Everything
    BY CoreParts
  <2> QED
    BY <1>2, <2>1 DEF Filled, Has
<1>5. ASSUME NEW n \in Unchecked PROVE a[n] = db[n]
  BY CoreParts DEF Filled, Checked
<1> QED
  BY <1>1, <1>3, <1>4, <1>5 DEF Grown

LEMMA GrownFilled ==
  ASSUME NEW db \in Catalogues, NEW a \in Grown(db), NEW b \in Filled(a, Checked)
  PROVE  b \in Grown(db)
<1>1. a \in Catalogues /\ b \in Catalogues
  BY DEF Filled, Grown
<1>2. \A n \in Everything : db[n].copies \in Nat /\ a[n].copies \in Nat /\ b[n].copies \in Nat
  BY <1>1 DEF Catalogues, Rows
<1>3. ASSUME NEW n \in Checked
      PROVE  b[n].copies = db[n].copies \/ (db[n].copies = 0 /\ b[n].copies = 1)
  <2>1. n \in Everything
    BY CoreParts
  <2>2. a[n].copies = db[n].copies \/ (db[n].copies = 0 /\ a[n].copies = 1)
    BY <2>1 DEF Grown
  <2>3. b[n].copies = a[n].copies \/ (a[n].copies = 0 /\ b[n].copies = 1)
    BY <2>1 DEF Filled
  <2> QED
    BY <1>2, <2>1, <2>2, <2>3
<1>4. Has(a, Core.byProduct) => Has(b, Core.byProduct)
  <2>1. Core.byProduct \in Everything
    BY CoreParts
  <2> QED
    BY <1>2, <2>1 DEF Filled, Has
<1>5. ASSUME NEW n \in Unchecked PROVE b[n] = a[n]
  BY CoreParts DEF Filled, Checked
<1> QED
  BY <1>1, <1>3, <1>4, <1>5 DEF Grown

LEMMA GoldenPathGrows ==
  ASSUME NEW db \in Catalogues, NEW bad
  PROVE  SeedGoldenPath(db, bad) \in Grown(db)
<1> DEFINE one == Made(db, Core.byProduct, {}, FALSE)
           two == Made(one, Core.overTime, {}, FALSE)
           all == Made(two, Core.overview, {Core.byProduct, Core.overTime}, FALSE)
<1> USE CoreParts
<1>1. CASE SeedGoldenPath(db, bad) = db
  BY <1>1 DEF Grown
<1>2. CASE ~Has(db, Core.byProduct) /\ SeedGoldenPath(db, bad) = all
  <2>1. Core.byProduct \in Everything /\ {} \in SUBSET Everything /\ FALSE \in BOOLEAN
    OBVIOUS
  <2>2. /\ one \in Catalogues /\ one[Core.byProduct].copies = db[Core.byProduct].copies + 1
        /\ \A n \in Everything : n # Core.byProduct => one[n] = db[n]
    BY <2>1, MadeRow
  <2> HIDE DEF one
  <2>3. /\ two \in Catalogues /\ two[Core.overTime].copies = one[Core.overTime].copies + 1
        /\ \A n \in Everything : n # Core.overTime => two[n] = one[n]
    BY <2>1, <2>2, MadeRow
  <2> HIDE DEF two
  <2>4. /\ all \in Catalogues /\ all[Core.overview].copies = two[Core.overview].copies + 1
        /\ \A n \in Everything : n # Core.overview => all[n] = two[n]
    <3> DEFINE pair == {Core.byProduct, Core.overTime}
    <3>1. /\ two \in Catalogues /\ Core.overview \in Everything
          /\ pair \in SUBSET Everything /\ FALSE \in BOOLEAN
      BY <2>1, <2>3
    <3>2. all = Made(two, Core.overview, pair, FALSE)
      OBVIOUS
    <3> HIDE CoreParts DEF pair, all
    <3> QED
      BY <3>1, <3>2, MadeRow
  <2> HIDE DEF all
  <2>5. \A n \in Checked : n # Core.byProduct => all[n] = db[n]
    BY <2>2, <2>3, <2>4
  <2>6. all[Core.byProduct].copies = 1 /\ db[Core.byProduct].copies = 0
    <3>1. all[Core.byProduct] = one[Core.byProduct]
      BY <2>1, <2>3, <2>4
    <3>2. db[Core.byProduct].copies = 0
      BY <1>2, <2>1 DEF Catalogues, Has, Rows
    <3> QED
      BY <2>2, <3>1, <3>2
  <2>7. /\ all[Core.overTime].copies = db[Core.overTime].copies + 1
        /\ all[Core.overview].copies = db[Core.overview].copies + 1
    BY <2>2, <2>3, <2>4
  <2>8. all \in Grown(db)
    BY <1>2, <2>4, <2>5, <2>6, <2>7 DEF Grown, Has, Unchecked
  <2> QED
    BY <1>2, <2>8
<1> QED
  BY <1>1, <1>2 DEF SeedGoldenPath

LEMMA SalesFill ==
  ASSUME NEW db \in Catalogues
  PROVE  SeedSales(db) \in Filled(db, Checked)
<1>1. Core.sales \in Everything /\ Core.sales \in Checked /\ {} \in SUBSET Everything /\ FALSE \in BOOLEAN
  BY CoreParts
<1> QED
  BY <1>1, MadeFills, NothingFilled DEF SeedSales

LEMMA ModelsFill ==
  ASSUME NEW db \in Catalogues, NEW bad
  PROVE  SeedModels(db, bad) \in Filled(db, Checked)
<1> DEFINE after == SeedModels(db, bad)
<1>1. ASSUME NEW n \in Everything
      PROVE  /\ after[n] \in Rows
             /\ n \notin Checked => after[n] = db[n]
             /\ \/ after[n].copies = db[n].copies
                \/ db[n].copies = 0 /\ after[n].copies = 1
  <2>1. db[n] \in Rows
    BY DEF Catalogues
  <2>2. CASE n \in Core.models \ bad /\ ~Has(db, n)
    <3>1. after[n] = [copies |-> 1, parts |-> {}, published |-> FALSE]
      BY <2>2 DEF SeedModels, NotThere
    <3>2. db[n].copies = 0
      BY <2>1, <2>2 DEF Has, Rows
    <3> QED
      BY <2>2, <3>1, <3>2, CoreParts DEF Rows
  <2>3. CASE ~(n \in Core.models \ bad /\ ~Has(db, n))
    <3>1. after[n] = db[n]
      BY <2>3 DEF SeedModels
    <3> QED
      BY <2>1, <3>1
  <2> QED
    BY <2>2, <2>3
<1>2. after \in Catalogues
  <2>1. after = [n \in Everything |-> after[n]]
    BY DEF SeedModels
  <2> HIDE DEF after
  <2> QED
    BY <1>1, <2>1 DEF Catalogues
<1> QED
  BY <1>1, <1>2 DEF Filled

LEMMA ApplicationsFill ==
  ASSUME NEW db \in Catalogues
  PROVE  SeedApplications(db) \in Filled(db, Checked)
<1> DEFINE parts == There(db, Core.models \cup {Core.sales, Core.overview})
           more == There(db, {Core.overview})
<1>1. parts \in SUBSET Everything /\ more \in SUBSET Everything /\ Core.app \in Everything
      /\ Core.app \in Checked /\ TRUE \in BOOLEAN
  BY CoreParts DEF There
<1>2. ~Has(db, Core.app) => Made(db, Core.app, parts, TRUE) \in Filled(db, Checked)
  BY <1>1, MadeFills
<1>3. [db EXCEPT ![Core.app].parts = @ \cup more] \in Filled(db, Checked)
  <2> DEFINE row == [db[Core.app] EXCEPT !.parts = @ \cup more]
             new == [db EXCEPT ![Core.app] = row]
  <2>1. db[Core.app] \in Rows
    BY <1>1 DEF Catalogues
  <2>2. row \in Rows /\ row.copies = db[Core.app].copies
    BY <1>1, <2>1 DEF Rows
  <2>3. [db EXCEPT ![Core.app].parts = @ \cup more] = new
    BY <1>1, <2>1 DEF Catalogues, Rows
  <2> HIDE DEF row
  <2>4. new \in Catalogues
    BY <2>2 DEF Catalogues
  <2>5. new \in Filled(db, Checked)
    BY <1>1, <2>2, <2>4 DEF Filled, Catalogues
  <2> QED
    BY <2>3, <2>5
<1> QED
  BY <1>2, <1>3, NothingFilled DEF SeedApplications

LEMMA CoreGrows ==
  ASSUME NEW db \in Catalogues, NEW bad, NEW failing
  PROVE  SeedCore(db, bad, failing) \in Grown(db)
<1> DEFINE sold == IF "sales" \in failing THEN db ELSE SeedSales(db)
           modelled == IF "models" \in failing THEN sold ELSE SeedModels(sold, bad)
           shown == IF "golden path" \in failing THEN modelled ELSE SeedGoldenPath(modelled, bad)
           offered == IF "applications" \in failing THEN shown ELSE SeedApplications(shown)
<1>1. sold \in Filled(db, Checked)
  BY SalesFill, NothingFilled
<1>2. modelled \in Filled(db, Checked)
  <2>1. sold \in Catalogues
    BY <1>1 DEF Filled
  <2> HIDE DEF sold
  <2>2. SeedModels(sold, bad) \in Filled(sold, Checked)
    BY <2>1, ModelsFill
  <2> QED
    BY <1>1, <2>2, FilledFurther
<1>3. shown \in Grown(db)
  <2>1. modelled \in Catalogues
    BY <1>2 DEF Filled
  <2> HIDE DEF modelled
  <2>2. modelled \in Grown(modelled)
    BY <2>1 DEF Grown
  <2>3. shown \in Grown(modelled)
    BY <2>1, <2>2, GoldenPathGrows
  <2> HIDE DEF shown
  <2> QED
    BY <1>2, <2>3, FilledGrown
<1>4. offered \in Grown(db)
  <2>1. shown \in Catalogues
    BY <1>3 DEF Grown
  <2> HIDE DEF shown
  <2>2. SeedApplications(shown) \in Filled(shown, Checked)
    BY <2>1, ApplicationsFill
  <2> QED
    BY <1>3, <2>2, GrownFilled
<1> QED
  BY <1>4 DEF SeedCore

(* A whole start makes nothing that is there, save what follows the first
   chart.                                                                  *)
LEMMA SeededGrows ==
  ASSUME NEW db \in Catalogues, NEW bad, NEW failing
  PROVE  Seeded(db, bad, failing) \in Grown(db)
<1> DEFINE core == SeedCore(db, bad, failing)
           after == SeedContributions(core, bad, failing)
           K == UNION {PluginNames(c) : c \in Plugins}
<1>1. core \in Grown(db) /\ core \in Catalogues
  BY CoreGrows DEF Grown
<1> HIDE DEF core
<1>2. after \in Filled(core, K)
  BY <1>1, ContributionsFill
<1>3. K \subseteq Checked
  BY CoreParts
<1> HIDE DEF after, K
<1>4. after \in Filled(core, Checked)
  BY <1>1, <1>2, <1>3, NothingFilled, FilledFurther
<1>5. after \in Grown(db)
  BY <1>1, <1>4, GrownFilled
<1> QED
  BY <1>5 DEF Seeded, core, after

-----------------------------------------------------------------------------
(* One of everything.                                                      *)

Before(s) == starting[s][1].catalogue

SeedingTyped ==
  /\ catalogued \in Catalogues
  /\ DOMAIN starting = Servers
  /\ \A s \in Servers : starting[s] # NotStarting => Before(s) \in Catalogues
  /\ raced \in BOOLEAN

OneOfEach(db) ==
  \A n \in Everything : (n \in Unchecked => Core.byProduct \notin discarded) => db[n].copies <= 1

FollowsChart(db) ==
  Core.byProduct \notin discarded => \A n \in Unchecked : Has(db, n) => Has(db, Core.byProduct)

(* What people have done since a start began is to discard.                *)
StillThere(db) ==
  \A n \in Everything : /\ catalogued[n].copies <= db[n].copies
                        /\ n \notin discarded => catalogued[n].copies = db[n].copies

(* While no two starts have overlapped, one server at most is starting, and
   what it started from is what there is but for what was discarded.       *)
StartsAlone ==
  /\ OneOfEach(catalogued) /\ FollowsChart(catalogued)
  /\ \A s \in Servers : starting[s] # NotStarting =>
       OneOfEach(Before(s)) /\ FollowsChart(Before(s)) /\ StillThere(Before(s))
  /\ \A s, t \in Servers : starting[s] # NotStarting /\ starting[t] # NotStarting => s = t

SeedsInv == SeedingTyped /\ (~raced => StartsAlone)

LEMMA SeedsInvInit == SeedingInit => SeedsInv
<1> SUFFICES ASSUME SeedingInit PROVE SeedsInv
  OBVIOUS
<1>1. NotThere \in Rows /\ NotThere.copies = 0
  BY DEF NotThere, Rows
<1>2. catalogued \in Catalogues /\ \A n \in Everything : catalogued[n].copies = 0
  BY <1>1 DEF SeedingInit, Catalogues
<1>3. \A s \in Servers : starting[s] = NotStarting
  BY DEF SeedingInit
<1>4. FollowsChart(catalogued)
  BY <1>2, CoreParts DEF FollowsChart, Has
<1>5. OneOfEach(catalogued)
  BY <1>2 DEF OneOfEach
<1>6. DOMAIN starting = Servers /\ raced = FALSE
  BY DEF SeedingInit
<1> QED
  BY <1>2, <1>3, <1>4, <1>5, <1>6 DEF SeedsInv, SeedingTyped, StartsAlone

LEMMA StartKeepsSeeds ==
  ASSUME SeedsInv, NEW s \in Servers, NEW bad, NEW failing, StartServer(s, bad, failing)
  PROVE  SeedsInv'
<1> DEFINE begun == [catalogue |-> catalogued, bad |-> bad, failing |-> failing]
<1>1. /\ catalogued' = catalogued /\ discarded' = discarded /\ DOMAIN starting = Servers
      /\ starting' = [starting EXCEPT ![s] = <<begun>>]
      /\ raced' = (raced \/ \E other \in Servers : starting[other] # NotStarting)
  BY DEF StartServer, SeedsInv, SeedingTyped
<1>2. Before(s)' = catalogued
  BY <1>1 DEF Before
<1>3. \A t \in Servers : t # s => starting'[t] = starting[t]
  BY <1>1
<1>4. SeedingTyped'
  <2>1. \A t \in Servers : starting'[t] # NotStarting => Before(t)' \in Catalogues
    BY <1>2, <1>3 DEF SeedsInv, SeedingTyped, Before
  <2> QED
    BY <1>1, <2>1 DEF SeedsInv, SeedingTyped
<1>5. ASSUME ~raced' PROVE StartsAlone'
  <2>1. ~raced /\ \A t \in Servers : starting[t] = NotStarting
    BY <1>1, <1>5 DEF SeedsInv, SeedingTyped
  <2>2. OneOfEach(catalogued)' /\ FollowsChart(catalogued)'
    BY <1>1, <2>1 DEF SeedsInv, StartsAlone, OneOfEach, FollowsChart
  <2>3. \A t \in Servers : starting'[t] # NotStarting => t = s
    BY <1>3, <2>1
  <2>4. StillThere(catalogued)'
    <3>1. \A n \in Everything : catalogued[n].copies \in Nat
      BY DEF SeedsInv, SeedingTyped, Catalogues, Rows
    <3> QED
      BY <1>1, <3>1 DEF StillThere
  <2>5. OneOfEach(Before(s))' /\ FollowsChart(Before(s))' /\ StillThere(Before(s))'
    BY <1>1, <1>2, <2>2, <2>4 DEF OneOfEach, FollowsChart, StillThere, Has
  <2> QED
    BY <2>2, <2>3, <2>5 DEF StartsAlone
<1> QED
  BY <1>4, <1>5 DEF SeedsInv

(* What is committed: what is there, and what the start added to what it
   saw.                                                                    *)
Merged(now, before, after) ==
  [n \in Everything |->
     IF after[n] = before[n] THEN now[n]
     ELSE [after[n] EXCEPT !.copies = now[n].copies + @ - before[n].copies]]

LEMMA MergedRows ==
  ASSUME NEW now \in Catalogues, NEW before \in Catalogues, NEW after \in Grown(before)
  PROVE  LET db == Merged(now, before, after) IN
         /\ db \in Catalogues
         /\ \A n \in Everything :
              /\ db[n].copies = now[n].copies + (after[n].copies - before[n].copies)
              /\ after[n].copies >= before[n].copies
              /\ now[n].copies \in Nat /\ before[n].copies \in Nat /\ after[n].copies \in Nat
<1> DEFINE db == Merged(now, before, after)
<1>1. ASSUME NEW n \in Everything
      PROVE  /\ db[n] \in Rows
             /\ db[n].copies = now[n].copies + (after[n].copies - before[n].copies)
             /\ after[n].copies >= before[n].copies
             /\ now[n].copies \in Nat /\ before[n].copies \in Nat /\ after[n].copies \in Nat
  <2>1. now[n] \in Rows /\ before[n] \in Rows /\ after[n] \in Rows
    BY DEF Catalogues, Grown
  <2>2. after[n].copies >= before[n].copies
    <3>1. n \in Checked \/ n \in Unchecked
      BY DEF Checked
    <3> QED
      BY <2>1, <3>1 DEF Grown, Rows
  <2>3. CASE after[n] = before[n]
    BY <2>1, <2>2, <2>3 DEF Merged, Rows
  <2>4. CASE after[n] # before[n]
    <3>1. db[n] = [after[n] EXCEPT !.copies = now[n].copies + after[n].copies - before[n].copies]
      BY <2>1, <2>4 DEF Merged, Rows
    <3>2. now[n].copies + after[n].copies - before[n].copies \in Nat
      BY <2>1, <2>2 DEF Rows
    <3> HIDE DEF db
    <3> QED
      BY <2>1, <2>2, <3>1, <3>2 DEF Rows
  <2> QED
    BY <2>3, <2>4
<1>2. db = [n \in Everything |-> db[n]]
  BY DEF Merged
<1> HIDE DEF db
<1>3. db \in Catalogues
  BY <1>1, <1>2 DEF Catalogues
<1> QED
  BY <1>1, <1>3 DEF db

LEMMA MergedOnce ==
  ASSUME NEW now \in Catalogues, NEW before \in Catalogues, NEW after \in Grown(before),
         now = catalogued, OneOfEach(now), FollowsChart(now),
         OneOfEach(before), FollowsChart(before), StillThere(before)
  PROVE  OneOfEach(Merged(now, before, after)) /\ FollowsChart(Merged(now, before, after))
<1> DEFINE db == Merged(now, before, after)
<1>1. \A n \in Everything :
        /\ db[n].copies = now[n].copies + (after[n].copies - before[n].copies)
        /\ after[n].copies >= before[n].copies
        /\ now[n].copies \in Nat /\ before[n].copies \in Nat /\ after[n].copies \in Nat
  BY MergedRows
<1> HIDE DEF db
<1>2. ASSUME NEW n \in Everything, n \in Unchecked => Core.byProduct \notin discarded
      PROVE  db[n].copies <= 1
  <2>1. now[n].copies <= 1 /\ now[n].copies <= before[n].copies
    BY <1>2 DEF OneOfEach, StillThere
  <2>2. CASE after[n].copies = before[n].copies
    BY <1>1, <2>1, <2>2
  <2>3. CASE before[n].copies = 0 /\ after[n].copies = 1
    BY <1>1, <2>1, <2>3
  <2>4. CASE n \in Unchecked /\ after[n] # before[n]
    <3>1. ~Has(before, Core.byProduct) /\ after[n].copies = before[n].copies + 1
      BY <2>4 DEF Grown
    <3>2. ~Has(before, n)
      BY <1>2, <2>4, <3>1 DEF FollowsChart
    <3> QED
      BY <1>1, <2>1, <3>1, <3>2 DEF Has
  <2> QED
    BY <2>2, <2>3, <2>4 DEF Grown, Checked
<1>3. ASSUME Core.byProduct \notin discarded, NEW n \in Unchecked, Has(db, n)
      PROVE  Has(db, Core.byProduct)
  <2>1. n \in Everything /\ Core.byProduct \in Everything
    BY CoreParts
  <2>2. now[Core.byProduct].copies = before[Core.byProduct].copies
    BY <1>3, <2>1 DEF StillThere
  <2>3. CASE after[n] = before[n]
    <3>1. Has(now, n)
      BY <1>1, <1>3, <2>1, <2>3 DEF Has
    <3>2. Has(now, Core.byProduct)
      BY <1>3, <3>1 DEF FollowsChart
    <3> QED
      BY <1>1, <2>1, <3>2 DEF Has
  <2>4. CASE after[n] # before[n]
    <3>1. Has(after, Core.byProduct)
      BY <2>4 DEF Grown
    <3> QED
      BY <1>1, <2>1, <2>2, <3>1 DEF Has
  <2> QED
    BY <2>3, <2>4
<1> QED
  BY <1>2, <1>3 DEF OneOfEach, FollowsChart, db

LEMMA CommitKeepsSeeds ==
  ASSUME SeedsInv, NEW s \in Servers, Commit(s)
  PROVE  SeedsInv'
<1> DEFINE after == Seeded(Before(s), starting[s][1].bad,
                           starting[s][1].failing \cup {Contributions[c].project : c \in Lost(s)})
<1>1. /\ catalogued' = Merged(catalogued, Before(s), after)
      /\ starting[s] # NotStarting /\ starting' = [starting EXCEPT ![s] = NotStarting]
      /\ discarded' = discarded /\ raced' = raced /\ DOMAIN starting = Servers
  BY DEF Commit, Merged, Before, SeedsInv, SeedingTyped
<1>2. catalogued \in Catalogues /\ Before(s) \in Catalogues
  BY <1>1 DEF SeedsInv, SeedingTyped
<1>3. after \in Grown(Before(s))
  BY <1>2, SeededGrows
<1> HIDE DEF after
<1>4. \A t \in Servers : starting'[t] # NotStarting => t # s /\ starting'[t] = starting[t]
  BY <1>1
<1>5. SeedingTyped'
  <2>1. catalogued' \in Catalogues
    BY <1>1, <1>2, <1>3, MergedRows
  <2>2. \A t \in Servers : starting'[t] # NotStarting => Before(t)' \in Catalogues
    BY <1>4 DEF Before, SeedsInv, SeedingTyped
  <2> QED
    BY <1>1, <2>1, <2>2 DEF SeedsInv, SeedingTyped
<1>6. ASSUME ~raced' PROVE StartsAlone'
  <2>1. StartsAlone
    BY <1>1, <1>6 DEF SeedsInv
  <2>2. OneOfEach(catalogued') /\ FollowsChart(catalogued')
    BY <1>1, <1>2, <1>3, <2>1, MergedOnce DEF StartsAlone
  <2>3. \A t \in Servers : starting'[t] = NotStarting
    BY <1>1, <1>4, <2>1 DEF StartsAlone
  <2> QED
    BY <1>1, <2>2, <2>3 DEF StartsAlone, OneOfEach, FollowsChart
<1> QED
  BY <1>5, <1>6 DEF SeedsInv

LEMMA DieKeepsSeeds ==
  ASSUME SeedsInv, NEW s \in Servers, Die(s)
  PROVE  SeedsInv'
<1>1. /\ catalogued' = catalogued /\ discarded' = discarded /\ raced' = raced
      /\ starting' = [starting EXCEPT ![s] = NotStarting] /\ DOMAIN starting = Servers
  BY DEF Die, SeedsInv, SeedingTyped
<1>2. \A t \in Servers : starting'[t] # NotStarting =>
        starting'[t] = starting[t] /\ Before(t)' = Before(t)
  BY <1>1 DEF Before
<1>3. SeedingTyped'
  BY <1>1, <1>2 DEF SeedsInv, SeedingTyped
<1>4. ASSUME ~raced' PROVE StartsAlone'
  <2>1. StartsAlone
    BY <1>1, <1>4 DEF SeedsInv
  <2>2. \A t \in Servers : starting'[t] # NotStarting =>
          OneOfEach(Before(t))' /\ FollowsChart(Before(t))' /\ StillThere(Before(t))'
    BY <1>1, <1>2, <2>1 DEF StartsAlone, OneOfEach, FollowsChart, StillThere
  <2>3. OneOfEach(catalogued)' /\ FollowsChart(catalogued)'
    BY <1>1, <2>1 DEF StartsAlone, OneOfEach, FollowsChart
  <2>4. \A t, u \in Servers : starting'[t] # NotStarting /\ starting'[u] # NotStarting => t = u
    BY <1>2, <2>1 DEF StartsAlone
  <2> QED
    BY <2>2, <2>3, <2>4 DEF StartsAlone
<1> QED
  BY <1>3, <1>4 DEF SeedsInv

(* People discard one and say so, or leave the number as it is.            *)
LEMMA EditKeepsSeeds ==
  ASSUME SeedsInv, NEW n \in Everything, NEW row \in Rows, Edit(n, row),
         \/ row.copies = catalogued[n].copies /\ discarded' = discarded
         \/ row.copies = catalogued[n].copies - 1 /\ discarded' = discarded \cup {n}
  PROVE  SeedsInv'
<1>1. /\ catalogued' = [catalogued EXCEPT ![n] = row] /\ starting' = starting /\ raced' = raced
      /\ catalogued \in Catalogues /\ discarded \subseteq discarded'
  BY DEF Edit, SeedsInv, SeedingTyped
<1>2. \A t \in Servers : Before(t)' = Before(t)
  BY <1>1 DEF Before
<1>3. catalogued' \in Catalogues
  BY <1>1 DEF Catalogues
<1>4. SeedingTyped'
  BY <1>1, <1>2, <1>3 DEF SeedsInv, SeedingTyped
<1>5. \A m \in Everything :
        /\ catalogued'[m].copies \in Nat /\ catalogued[m].copies \in Nat
        /\ catalogued'[m].copies <= catalogued[m].copies
        /\ m \notin discarded' => catalogued'[m].copies = catalogued[m].copies
  <2>1. \A m \in Everything : catalogued'[m].copies \in Nat /\ catalogued[m].copies \in Nat
    BY <1>1, <1>3 DEF Catalogues, Rows
  <2>2. catalogued'[n] = row /\ \A m \in Everything : m # n => catalogued'[m] = catalogued[m]
    BY <1>1 DEF Catalogues
  <2>3. catalogued'[n].copies <= catalogued[n].copies
        /\ (n \notin discarded' => catalogued'[n].copies = catalogued[n].copies)
    BY <2>1, <2>2
  <2> QED
    BY <2>1, <2>2, <2>3
<1>6. ASSUME ~raced' PROVE StartsAlone'
  <2>1. StartsAlone
    BY <1>1, <1>6 DEF SeedsInv
  <2>2. ASSUME NEW t \in Servers, starting'[t] # NotStarting
        PROVE  OneOfEach(Before(t))' /\ FollowsChart(Before(t))' /\ StillThere(Before(t))'
    <3>1. OneOfEach(Before(t)) /\ FollowsChart(Before(t)) /\ StillThere(Before(t))
          /\ Before(t)' = Before(t) /\ Before(t) \in Catalogues
      BY <1>1, <1>2, <2>1, <2>2 DEF StartsAlone, SeedsInv, SeedingTyped
    <3>2. OneOfEach(Before(t))' /\ FollowsChart(Before(t))'
      BY <1>1, <3>1 DEF OneOfEach, FollowsChart
    <3>3. \A m \in Everything : Before(t)[m].copies \in Nat
      BY <3>1 DEF Catalogues, Rows
    <3>4. StillThere(Before(t))'
      BY <1>1, <1>5, <3>1, <3>3 DEF StillThere
    <3> QED
      BY <3>2, <3>4
  <2>3. OneOfEach(catalogued)'
    BY <1>1, <1>5, <2>1 DEF StartsAlone, OneOfEach
  <2>4. FollowsChart(catalogued)'
    BY <1>1, <1>5, <2>1, CoreParts DEF StartsAlone, FollowsChart, Has
  <2>5. \A t, u \in Servers : starting'[t] # NotStarting /\ starting'[u] # NotStarting => t = u
    BY <1>1, <2>1 DEF StartsAlone
  <2> QED
    BY <2>2, <2>3, <2>4, <2>5 DEF StartsAlone
<1> QED
  BY <1>4, <1>6 DEF SeedsInv

LEMMA ApplicationNames == Applications \subseteq Everything
<1>1. ASSUME NEW c \in Plugins, NEW spec \in SpecsOf(c) PROVE spec.name \in Everything
  BY DEF Everything, PluginNames
<1>2. Core.app \in Everything
  BY DEF Everything, CoreNames
<1> QED
  BY <1>1, <1>2 DEF Applications

LEMMA SeedsInvNext == SeedsInv /\ [SeedingNext]_seedVars => SeedsInv'
<1> SUFFICES ASSUME SeedsInv, [SeedingNext]_seedVars PROVE SeedsInv'
  OBVIOUS
<1>1. ASSUME NEW s \in Servers, NEW bad, NEW failing, StartServer(s, bad, failing) PROVE SeedsInv'
  BY <1>1, StartKeepsSeeds
<1>2. ASSUME NEW s \in Servers, Commit(s) PROVE SeedsInv'
  BY <1>2, CommitKeepsSeeds
<1>3. ASSUME NEW s \in Servers, Die(s) PROVE SeedsInv'
  BY <1>3, DieKeepsSeeds
<1>4. ASSUME NEW n \in Everything PROVE catalogued[n] \in Rows
  BY DEF SeedsInv, SeedingTyped, Catalogues
<1>5. ASSUME NEW n \in Everything, Discard(n) PROVE SeedsInv'
  <2> DEFINE row == [catalogued[n] EXCEPT !.copies = @ - 1]
  <2>1. Edit(n, row) /\ discarded' = discarded \cup {n} /\ Has(catalogued, n)
    BY <1>5 DEF Discard, Edit
  <2>2. row \in Rows /\ row.copies = catalogued[n].copies - 1
    BY <1>4, <2>1 DEF Rows, Has
  <2> HIDE DEF row
  <2> QED
    BY <2>1, <2>2, EditKeepsSeeds
<1>6. ASSUME NEW n \in Applications, EditApplication(n) \/ Unpublish(n) PROVE SeedsInv'
  <2>1. n \in Everything
    BY ApplicationNames, <1>6
  <2>2. PICK row : /\ Edit(n, row) /\ discarded' = discarded
                   /\ row \in {[catalogued[n] EXCEPT !.parts = {}], [catalogued[n] EXCEPT !.published = FALSE]}
    BY <1>6 DEF EditApplication, Unpublish
  <2>3. row \in Rows /\ row.copies = catalogued[n].copies
    BY <1>4, <2>1, <2>2 DEF Rows
  <2> QED
    BY <2>1, <2>2, <2>3, EditKeepsSeeds
<1>7. ASSUME UNCHANGED seedVars PROVE SeedsInv'
  BY <1>7 DEF seedVars, SeedsInv, SeedingTyped, StartsAlone, Before, OneOfEach, FollowsChart, StillThere
<1> QED
  BY <1>1, <1>2, <1>3, <1>5, <1>6, <1>7 DEF SeedingNext

THEOREM SeedingInvariance == SeedingSpec => []SeedsInv
<1> QED
  BY SeedsInvInit, SeedsInvNext, PTL DEF SeedingSpec

(* Running the seed on a seeded database makes nothing twice: there is one of
   everything, unless two starts overlapped, or somebody deleted the chart the
   walkthrough goes by (seed.py:3, fixtures.py:13).                        *)
THEOREM SeedsOnceHolds == SeedingSpec => []SeedsOnce
<1>1. SeedsInv => SeedsOnce
  <2> SUFFICES ASSUME SeedsInv, ~raced, NEW n \in Everything,
                      ~(n \in Unchecked /\ Core.byProduct \in discarded)
               PROVE  catalogued[n].copies <= 1
    BY DEF SeedsOnce
  <2> QED
    BY DEF SeedsInv, StartsAlone, OneOfEach
<1> QED
  BY <1>1, SeedingInvariance, PTL

-----------------------------------------------------------------------------
(* A start that nothing fails in leaves a plugin whole.                    *)

LEMMA HasKept ==
  ASSUME NEW a \in Catalogues, NEW N, NEW b \in Filled(a, N), NEW n \in Everything, Has(a, n)
  PROVE  Has(b, n)
<1>1. a[n] \in Rows /\ b[n] \in Rows
  BY DEF Filled, Catalogues
<1>2. b[n].copies = a[n].copies \/ a[n].copies = 0
  BY DEF Filled
<1> QED
  BY <1>1, <1>2 DEF Has, Rows

LEMMA AllThere ==
  ASSUME NEW db, NEW names
  PROVE  There(db, names) = names <=> \A n \in names : Has(db, n)
BY DEF There

(* A declaration that can be loaded is, an application with its parts.     *)
LEMMA LoadSpecMakes ==
  ASSUME NEW db \in Catalogues, NEW spec \in Declared, NEW bad, spec.name \notin bad
  PROVE  LET after == LoadSpec([db |-> db, broken |-> {}], spec, bad) IN
         /\ after.broken = {}
         /\ (\A n \in spec.needs : Has(db, n)) =>
              /\ Has(after.db, spec.name)
              /\ spec.kind = "applications" /\ (\A n \in spec.parts : Has(db, n)) =>
                   after.db[spec.name].published /\ after.db[spec.name].parts = spec.parts
<1> DEFINE start == [db |-> db, broken |-> {}]
           after == LoadSpec(start, spec, bad)
           parts == There(db, spec.parts)
<1>1. spec.name \in Everything /\ parts \in SUBSET Everything /\ spec.kind \in FixtureSections
      /\ db[spec.name] \in Rows
  BY DEF Declared, There, Catalogues
<1>2. after.broken = {}
  BY DEF LoadSpec
<1>3. ASSUME \A n \in spec.needs : Has(db, n)
      PROVE  /\ Has(after.db, spec.name)
             /\ spec.kind = "applications" /\ (\A n \in spec.parts : Has(db, n)) =>
                  after.db[spec.name].published /\ after.db[spec.name].parts = spec.parts
  <2>1. There(db, spec.needs) = spec.needs
    BY <1>3, AllThere
  <2>2. CASE Found(db, spec) /\ spec.kind # "applications"
    <3>1. after = start
      BY <2>2 DEF LoadSpec
    <3> QED
      BY <2>2, <3>1 DEF Found
  <2>3. CASE Found(db, spec) /\ spec.kind = "applications"
    <3>1. after.db = [db EXCEPT ![spec.name].parts = parts, ![spec.name].published = TRUE]
      BY <2>1, <2>3 DEF LoadSpec
    <3>2. after.db[spec.name] = [db[spec.name] EXCEPT !.parts = parts, !.published = TRUE]
      BY <1>1, <3>1 DEF Catalogues
    <3>3. after.db[spec.name].published /\ after.db[spec.name].parts = parts
          /\ after.db[spec.name].copies = db[spec.name].copies
      BY <1>1, <3>2 DEF Rows
    <3> QED
      BY <2>3, <3>3, AllThere DEF Found, Has
  <2>4. CASE ~Found(db, spec)
    <3> DEFINE shown == spec.kind = "applications"
    <3>1. after.db = Made(db, spec.name, parts, shown) /\ shown \in BOOLEAN
      BY <2>1, <2>4 DEF LoadSpec
    <3>2. spec.kind = "applications" => shown
      OBVIOUS
    <3> HIDE DEF shown, after
    <3>3. after.db[spec.name] = [copies |-> 1, parts |-> parts, published |-> shown]
      <4>1. spec.name \in {spec.name} /\ ~Has(db, spec.name)
        BY <2>4 DEF Found
      <4>2. Made(db, spec.name, parts, shown)[spec.name] =
              [copies |-> 1, parts |-> parts, published |-> shown]
        BY <1>1, <3>1, <4>1, MadeFills
      <4> QED
        BY <3>1, <4>2
    <3>4. /\ after.db[spec.name].copies = 1 /\ after.db[spec.name].parts = parts
          /\ after.db[spec.name].published = shown
      BY <3>3
    <3>5. Has(after.db, spec.name)
      BY <3>4 DEF Has
    <3>6. (\A n \in spec.parts : Has(db, n)) => parts = spec.parts
      BY AllThere
    <3>7. spec.kind = "applications" /\ (\A n \in spec.parts : Has(db, n)) =>
            after.db[spec.name].published /\ after.db[spec.name].parts = spec.parts
      BY <3>2, <3>4, <3>6
    <3> QED
      BY <3>5, <3>7 DEF after
  <2> QED
    BY <2>2, <2>3, <2>4
<1> QED
  BY <1>2, <1>3

LoadWalk(t, db, fixture, n, bad) ==
  /\ t[0] = db /\ t[n] = Load(db, fixture, bad)
  /\ \A i \in 1..n :
       LET was == t[i - 1]
           spec == fixture[i]
       IN /\ was \in Catalogues /\ t[i] \in Filled(was, {spec.name})
          /\ t[i] = LoadSpec([db |-> was, broken |-> {}], spec, bad).db

(* Loading a fixture none of whose names is refused goes on with nothing
   broken, a declaration at a time.                                        *)
LEMMA LoadPath ==
  ASSUME NEW db \in Catalogues, NEW fixture, NEW n, Lists(fixture, n), NEW bad,
         FixtureNames(fixture) \cap bad = {}
  PROVE  \E t \in [0..n -> Filled(db, FixtureNames(fixture))] : LoadWalk(t, db, fixture, n, bad)
<1> DEFINE K == FixtureNames(fixture)
           V == [db : Filled(db, K), broken : {{}}]
<1>1. n \in Nat /\ DOMAIN fixture = 1..n /\ \A i \in 1..n : fixture[i] \in Declared
  BY DEF Lists
<1>2. Opened(db) \in V
  BY NothingFilled DEF Opened
<1>3. ASSUME NEW v \in V, NEW i \in 1..n
      PROVE  /\ v = [db |-> v.db, broken |-> {}] /\ v.db \in Catalogues
             /\ LoadSpec(v, fixture[i], bad).db \in Filled(v.db, {fixture[i].name})
             /\ LoadSpec(v, fixture[i], bad) \in V
  <2> DEFINE spec == fixture[i]
             after == LoadSpec(v, spec, bad)
  <2>1. spec \in Declared /\ {spec.name} \subseteq K /\ spec.name \notin bad
    BY <1>1 DEF FixtureNames
  <2>2. v.db \in Catalogues /\ v.db \in Filled(db, K) /\ v = [db |-> v.db, broken |-> {}]
        /\ {} \in SUBSET FixtureSections
    BY DEF Filled
  <2>3. after \in [db : Filled(v.db, {spec.name}), broken : SUBSET FixtureSections]
    BY <2>1, <2>2, LoadSpecFills
  <2>4. after.broken = {}
    BY <2>1, <2>2, LoadSpecMakes
  <2> HIDE DEF after, K
  <2>5. after.db \in Filled(db, K)
    BY <2>1, <2>2, <2>3, FilledFurther
  <2>6. after \in V /\ after.db \in Filled(v.db, {spec.name})
    BY <2>3, <2>4, <2>5
  <2> QED
    BY <2>2, <2>6 DEF after
<1>4. PICK t \in [0..n -> V] : LoadGoes(t, db, fixture, n, bad)
  <2>1. LoadStays(V, fixture, n, bad)
    BY <1>3 DEF LoadStays
  <2> HIDE DEF V
  <2> QED
    BY <1>1, <1>2, <2>1, LoadTrace
<1> DEFINE u == [i \in 0..n |-> t[i].db]
<1>5. \A i \in 0..n : t[i] \in V /\ u[i] = t[i].db /\ u[i] \in Filled(db, K)
  OBVIOUS
<1>6. u \in [0..n -> Filled(db, K)]
  BY <1>5
<1>7. u[0] = db /\ u[n] = Load(db, fixture, bad)
  BY <1>1, <1>4 DEF LoadGoes, Opened
<1>8. ASSUME NEW i \in 1..n
      PROVE  /\ u[i - 1] \in Catalogues /\ u[i] \in Filled(u[i - 1], {fixture[i].name})
             /\ u[i] = LoadSpec([db |-> u[i - 1], broken |-> {}], fixture[i], bad).db
  <2>1. i \in 0..n /\ i - 1 \in 0..n
    BY <1>1
  <2>2. t[i - 1] \in V /\ u[i - 1] = t[i - 1].db /\ u[i] = t[i].db
    BY <1>5, <2>1
  <2>3. t[i] = LoadSpec(t[i - 1], fixture[i], bad)
    BY <1>4 DEF LoadGoes
  <2> HIDE DEF V, u
  <2> QED
    BY <1>3, <2>2, <2>3
<1> HIDE DEF u
<1>9. LoadWalk(u, db, fixture, n, bad)
  BY <1>7, <1>8 DEF LoadWalk
<1> QED
  BY <1>6, <1>9

(* The first pass makes what needs only what it makes.                     *)
LEMMA FirstPass ==
  ASSUME NEW db \in Catalogues, NEW fixture, NEW n, Lists(fixture, n), NEW bad,
         FixtureNames(fixture) \cap bad = {}, NEW first \in SUBSET (1..n),
         \A i \in first : fixture[i].needs \subseteq NamesAt(fixture, {j \in first : j < i})
  PROVE  \A i \in first : Has(Load(db, fixture, bad), fixture[i].name)
<1>1. n \in Nat /\ \A i \in 1..n : fixture[i] \in Declared
  BY DEF Lists
<1>2. PICK t \in [0..n -> Filled(db, FixtureNames(fixture))] : LoadWalk(t, db, fixture, n, bad)
  BY LoadPath
<1> DEFINE T == {i \in 0..n : \A j \in first : j <= i => Has(t[i], fixture[j].name)}
<1>3. 0 \in T
  <2>1. \A j \in first : ~(j <= 0)
    BY <1>1
  <2>2. 0 \in 0..n
    BY <1>1
  <2> QED
    BY <2>1, <2>2
<1>4. ASSUME NEW i \in 1..n, i - 1 \in T PROVE i \in T
  <2> SUFFICES ASSUME NEW j \in first, j <= i PROVE Has(t[i], fixture[j].name)
    BY <1>1
  <2>1. t[i - 1] \in Catalogues /\ t[i] \in Filled(t[i - 1], {fixture[i].name})
        /\ t[i] = LoadSpec([db |-> t[i - 1], broken |-> {}], fixture[i], bad).db
    BY <1>2 DEF LoadWalk
  <2>2. \A k \in first : k < i => Has(t[i - 1], fixture[k].name)
    BY <1>1, <1>4
  <2>3. CASE j < i
    <3>1. fixture[j].name \in Everything
      BY <1>1 DEF Declared
    <3> QED
      BY <2>1, <2>2, <2>3, <3>1, HasKept
  <2>4. CASE j = i
    <3>1. \A m \in fixture[i].needs : Has(t[i - 1], m)
      BY <2>2, <2>4 DEF NamesAt
    <3>2. fixture[i] \in Declared /\ fixture[i].name \notin bad
      BY <1>1 DEF FixtureNames, Lists
    <3>3. Has(LoadSpec([db |-> t[i - 1], broken |-> {}], fixture[i], bad).db, fixture[i].name)
      BY <2>1, <3>1, <3>2, LoadSpecMakes
    <3> QED
      BY <2>1, <2>4, <3>3
  <2> QED
    BY <1>1, <2>3, <2>4
<1>5. n \in T
  <2>1. n \in 0..n
    BY <1>1
  <2> HIDE DEF T
  <2> QED
    BY <1>1, <1>3, <1>4, <2>1, CountingUp
<1> QED
  BY <1>1, <1>2, <1>5 DEF LoadWalk

(* The code half makes everything, if the first pass left what it needs.   *)
LEMMA BuildPass ==
  ASSUME NEW db \in Catalogues, NEW built, NEW n, Lists(built, n), NEW bad,
         FixtureNames(built) \cap bad = {}, NEW had, \A m \in had : m \in Everything /\ Has(db, m),
         \A i \in 1..n : built[i].needs \subseteq had \cup NamesAt(built, 1..(i - 1))
  PROVE  \A i \in 1..n : Has(Build(db, built, bad), built[i].name)
<1> DEFINE K == FixtureNames(built)
           V == Filled(db, K)
<1>1. n \in Nat /\ DOMAIN built = 1..n /\ \A i \in 1..n : built[i] \in Declared
  BY DEF Lists
<1>2. ASSUME NEW v \in V, NEW i \in 1..n
      PROVE  /\ v \in Catalogues /\ BuildSpec(v, built[i], bad) \in Filled(v, {built[i].name})
             /\ BuildSpec(v, built[i], bad) \in V
  <2>1. built[i] \in Declared /\ {built[i].name} \subseteq K
    BY <1>1 DEF FixtureNames
  <2>2. v \in Catalogues
    BY DEF Filled
  <2>3. BuildSpec(v, built[i], bad) \in Filled(v, {built[i].name})
    BY <2>1, <2>2, BuildSpecFills
  <2> HIDE DEF K
  <2> QED
    BY <2>1, <2>2, <2>3, FilledFurther
<1>3. PICK t \in [0..n -> V] : BuildGoes(t, db, built, n, bad)
  <2>1. BuildStays(V, built, n, bad)
    BY <1>2 DEF BuildStays
  <2>2. db \in V
    BY NothingFilled
  <2> HIDE DEF V
  <2> QED
    BY <1>1, <2>1, <2>2, BuildTrace
<1> DEFINE T == {i \in 0..n : \A j \in 1..i : Has(t[i], built[j].name)}
<1>4. 0 \in T
  BY <1>1
<1>5. ASSUME NEW i \in 1..n, i - 1 \in T PROVE i \in T
  <2> SUFFICES ASSUME NEW j \in 1..i PROVE Has(t[i], built[j].name)
    BY <1>1
  <2>1. t[i - 1] \in V /\ t[i] = BuildSpec(t[i - 1], built[i], bad)
    BY <1>1, <1>3 DEF BuildGoes
  <2>2. t[i - 1] \in Catalogues /\ t[i] \in Filled(t[i - 1], {built[i].name})
    BY <1>2, <2>1
  <2>3. \A k \in 1..(i - 1) : Has(t[i - 1], built[k].name)
    BY <1>5
  <2>4. CASE j < i
    <3>1. built[j].name \in Everything
      BY <1>1 DEF Declared
    <3> QED
      BY <2>2, <2>3, <2>4, <3>1, HasKept
  <2>5. CASE j = i
    <3>1. \A m \in had : Has(t[i - 1], m)
      BY <2>1, HasKept
    <3>2. \A m \in built[i].needs : Has(t[i - 1], m)
      BY <2>3, <3>1 DEF NamesAt
    <3>3. There(t[i - 1], built[i].needs) = built[i].needs /\ built[i].name \notin bad
      BY <1>1, <3>2, AllThere DEF FixtureNames
    <3>4. CASE Has(t[i - 1], built[i].name)
      BY <2>1, <2>5, <3>4 DEF BuildSpec
    <3>5. CASE ~Has(t[i - 1], built[i].name)
      <4> DEFINE was == t[i - 1]
                 name == built[i].name
                 parts == There(was, built[i].parts)
      <4>1. t[i] = Made(was, name, parts, FALSE)
        BY <2>1, <3>3, <3>5 DEF BuildSpec
      <4>2. was \in Catalogues /\ name \in Everything /\ parts \in SUBSET Everything
        BY <1>1, <2>2 DEF Declared, There
      <4>3. Has(t[i], name) = Has(Made(was, name, parts, FALSE), name)
        BY <4>1
      <4> HIDE DEF was, parts
      <4>4. \A q \in {name} : Has(Made(was, q, parts, FALSE), q)
        BY <4>2, MadeHas
      <4> QED
        BY <2>5, <4>3, <4>4
    <3> QED
      BY <3>4, <3>5
  <2> QED
    BY <1>1, <2>4, <2>5
<1>6. n \in T
  <2>1. n \in 0..n
    BY <1>1
  <2> HIDE DEF T
  <2> QED
    BY <1>1, <1>4, <1>5, <2>1, CountingUp
<1>7. t[n] = Build(db, built, bad)
  BY <1>3 DEF BuildGoes
<1> QED
  BY <1>1, <1>6, <1>7

(* The second pass makes the rest, and gives applications their parts.     *)
InPlace(db, spec) ==
  /\ Has(db, spec.name)
  /\ spec.kind = "applications" => db[spec.name].published /\ db[spec.name].parts = spec.parts

LEMMA SecondPass ==
  ASSUME NEW db \in Catalogues, NEW fixture, NEW n, Lists(fixture, n), NEW bad,
         FixtureNames(fixture) \cap bad = {}, NEW had, \A m \in had : m \in Everything /\ Has(db, m),
         \A i, j \in 1..n : i # j => fixture[i].name # fixture[j].name,
         \A i \in 1..n :
           /\ fixture[i].needs \subseteq NamesAt(fixture, 1..(i - 1)) \cup had
           /\ fixture[i].kind = "applications" =>
                fixture[i].parts \subseteq NamesAt(fixture, 1..(i - 1)) \cup had
  PROVE  \A i \in 1..n : InPlace(Load(db, fixture, bad), fixture[i])
<1>1. n \in Nat /\ \A i \in 1..n : fixture[i] \in Declared
  BY DEF Lists
<1>2. PICK t \in [0..n -> Filled(db, FixtureNames(fixture))] : LoadWalk(t, db, fixture, n, bad)
  BY LoadPath
<1> DEFINE T == {i \in 0..n : \A j \in 1..i : InPlace(t[i], fixture[j])}
<1>3. 0 \in T
  BY <1>1
<1>4. ASSUME NEW i \in 1..n, i - 1 \in T PROVE i \in T
  <2> SUFFICES ASSUME NEW j \in 1..i PROVE InPlace(t[i], fixture[j])
    BY <1>1
  <2>1. t[i - 1] \in Catalogues /\ t[i] \in Filled(t[i - 1], {fixture[i].name})
        /\ t[i] = LoadSpec([db |-> t[i - 1], broken |-> {}], fixture[i], bad).db
    BY <1>2 DEF LoadWalk
  <2>5. t[i - 1] \in Filled(db, FixtureNames(fixture))
    <3>1. i - 1 \in 0..n
      BY <1>1
    <3> QED
      BY <3>1
  <2>2. \A k \in 1..(i - 1) : InPlace(t[i - 1], fixture[k])
    BY <1>4
  <2>3. CASE j < i
    <3>1. fixture[j].name \in Everything /\ fixture[j].name # fixture[i].name
      BY <1>1, <2>3 DEF Declared
    <3>2. t[i][fixture[j].name] = t[i - 1][fixture[j].name]
      BY <2>1, <3>1 DEF Filled
    <3> QED
      BY <2>2, <2>3, <3>2 DEF InPlace, Has
  <2>4. CASE j = i
    <3>1. \A m \in had : Has(t[i - 1], m)
      BY <2>5, HasKept
    <3>2. \A m \in NamesAt(fixture, 1..(i - 1)) \cup had : Has(t[i - 1], m)
      BY <2>2, <3>1 DEF NamesAt, InPlace
    <3>3. \A m \in fixture[i].needs : Has(t[i - 1], m)
      BY <3>2
    <3>4. fixture[i].kind = "applications" => \A m \in fixture[i].parts : Has(t[i - 1], m)
      BY <3>2
    <3>5. fixture[i] \in Declared /\ fixture[i].name \notin bad
      BY <1>1 DEF FixtureNames, Lists
    <3>6. InPlace(t[i], fixture[i])
      BY <2>1, <3>3, <3>4, <3>5, LoadSpecMakes DEF InPlace
    <3> QED
      BY <2>4, <3>6
  <2> QED
    BY <1>1, <2>3, <2>4
<1>5. n \in T
  <2>1. n \in 0..n
    BY <1>1
  <2> HIDE DEF T
  <2> QED
    BY <1>1, <1>3, <1>4, <2>1, CountingUp
<1> QED
  BY <1>1, <1>2, <1>5 DEF LoadWalk

(* A plugin none of whose names is refused is whole once it is set up.     *)
LEMMA PluginWhole ==
  ASSUME NEW db \in Catalogues, NEW c \in Plugins, NEW bad, bad \cap PluginNames(c) = {}
  PROVE  Whole(SeedPlugin(db, c, bad), c)
<1> DEFINE p == Contributions[c]
           F == p.fixture
           B == p.built
           filed == IF Has(db, p.project) THEN db ELSE Made(db, p.project, {}, FALSE)
           loaded == Load(filed, F, bad)
           made == Build(loaded, B, bad)
           again == Load(made, F, bad)
<1>1. /\ Lists(F, Len(F)) /\ Lists(B, Len(B)) /\ p.project \in Everything
      /\ FixtureNames(F) \cap bad = {} /\ FixtureNames(B) \cap bad = {}
  BY ContributionParts
<1>2. /\ Len(F) \in Nat /\ DOMAIN F = 1..Len(F) /\ Len(B) \in Nat /\ DOMAIN B = 1..Len(B)
      /\ \A i \in 1..Len(F) : F[i] \in Declared
      /\ \A i \in 1..Len(B) : B[i] \in Declared
  BY <1>1 DEF Lists
<1>3. PICK first \in SUBSET (1..Len(F)) :
        /\ \A i \in first : F[i].needs \subseteq NamesAt(F, {j \in first : j < i})
        /\ \A i \in 1..Len(B) : B[i].needs \subseteq NamesAt(F, first) \cup NamesAt(B, 1..(i - 1))
  BY <1>2, OrderAssumption
<1>4. \A i \in 1..Len(F) :
        /\ F[i].needs \subseteq NamesAt(F, 1..(i - 1)) \cup NamesAt(B, 1..Len(B))
        /\ F[i].kind = "applications" =>
             F[i].parts \subseteq NamesAt(F, 1..(i - 1)) \cup NamesAt(B, 1..Len(B))
  BY <1>2, OrderAssumption
<1>5. \A i \in 1..Len(B) : B[i].kind # "applications"
  BY <1>2, OrderAssumption
<1>6. \A i, j \in 1..Len(F) : i # j => F[i].name # F[j].name
  BY <1>2, ApartAssumption
<1>7. filed \in Catalogues
  <2>1. {} \in SUBSET Everything /\ FALSE \in BOOLEAN
    OBVIOUS
  <2> QED
    BY <1>1, <2>1, MadeRow
<1> HIDE DEF F, B, filed
<1>8. loaded \in Catalogues /\ \A m \in NamesAt(F, first) : m \in Everything /\ Has(loaded, m)
  <2>1. \A i \in first : Has(loaded, F[i].name)
    BY <1>1, <1>3, <1>7, FirstPass
  <2>2. loaded \in Catalogues
    BY <1>1, <1>7, LoadFills DEF Filled
  <2> QED
    BY <1>2, <2>1, <2>2 DEF NamesAt, Declared
<1> HIDE DEF loaded
<1>9. made \in Catalogues /\ \A m \in NamesAt(B, 1..Len(B)) : m \in Everything /\ Has(made, m)
  <2>1. \A i \in 1..Len(B) : Has(made, B[i].name)
    BY <1>1, <1>3, <1>8, BuildPass
  <2>2. made \in Catalogues
    BY <1>1, <1>8, BuildFills DEF Filled
  <2> QED
    BY <1>2, <2>1, <2>2 DEF NamesAt, Declared
<1> HIDE DEF made
<1>10. \A i \in 1..Len(F) : InPlace(again, F[i])
  BY <1>1, <1>4, <1>6, <1>9, SecondPass
<1>11. \A i \in 1..Len(B) : InPlace(again, B[i])
  <2>1. again \in Filled(made, FixtureNames(F))
    BY <1>1, <1>9, LoadFills
  <2> HIDE DEF again
  <2> QED
    BY <1>2, <1>5, <1>9, <2>1, HasKept DEF InPlace, NamesAt
<1> HIDE DEF again
<1>12. ASSUME NEW spec \in SpecsOf(c) PROVE InPlace(again, spec)
  <2>1. PICK i \in DOMAIN (F \o B) : spec = (F \o B)[i]
    BY DEF SpecsOf, Specs, F, B
  <2>2. F \in Seq(Declared) /\ B \in Seq(Declared)
    <3>1. c \in 1..Len(Contributions)
      BY ContributionsAssumption DEF Plugins
    <3>2. Contributions[c] \in [project : Everything, fixture : Seq(Declared), built : Seq(Declared)]
      BY <3>1, ContributionsAssumption, ElementOf
    <3> QED
      BY <3>2 DEF F, B
  <2>3. i \in 1..(Len(F) + Len(B))
        /\ (F \o B)[i] = IF i <= Len(F) THEN F[i] ELSE B[i - Len(F)]
    BY <2>1, <2>2
  <2>4. CASE i <= Len(F)
    <3>1. i \in 1..Len(F) /\ spec = F[i]
      BY <1>2, <2>1, <2>3, <2>4
    <3> QED
      BY <1>10, <3>1
  <2>5. CASE ~(i <= Len(F))
    <3>1. i - Len(F) \in 1..Len(B) /\ spec = B[i - Len(F)]
      BY <1>2, <2>1, <2>3, <2>5
    <3> QED
      BY <1>11, <3>1
  <2> QED
    BY <2>4, <2>5
<1>13. SeedPlugin(db, c, bad) = again
  BY DEF SeedPlugin, F, B, filed, loaded, made, again
<1> QED
  BY <1>12, <1>13 DEF Whole, InPlace

(* What other plugins bring is not a plugin's own.                         *)
LEMMA WholeKept ==
  ASSUME NEW db \in Catalogues, NEW c \in Plugins, Whole(db, c), NEW d \in Plugins, d # c,
         NEW after \in Filled(db, PluginNames(d))
  PROVE  Whole(after, c)
<1>1. ASSUME NEW spec \in SpecsOf(c) PROVE after[spec.name] = db[spec.name]
  <2>1. spec.name \in PluginNames(c) /\ spec.name \in Everything
    BY DEF PluginNames, Everything
  <2>2. spec.name \notin PluginNames(d)
    BY <2>1, ApartAssumption
  <2> QED
    BY <2>1, <2>2 DEF Filled
<1> QED
  BY <1>1 DEF Whole, Has

ContributionsGo(t, db, bad, failing) ==
  /\ t \in [0..Len(Contributions) -> Catalogues] /\ t[0] = db
  /\ \A i \in 1..Len(Contributions) : t[i] = Contribute(t[i - 1], i, bad, failing)
  /\ SeedContributions(db, bad, failing) = t[Len(Contributions)]

LEMMA ContributionsPath ==
  ASSUME NEW db, NEW bad, NEW failing, db \in Catalogues
  PROVE  \E t : ContributionsGo(t, db, bad, failing)
<1> DEFINE V == Catalogues
<1>1. db \in V
  OBVIOUS
<1>2. ASSUME NEW v \in V, NEW i \in 1..Len(Contributions)
      PROVE  Contribute(v, i, bad, failing) \in V
  <2>1. i \in Plugins
    BY ContributionsAssumption DEF Plugins
  <2>2. Contribute(v, i, bad, failing) \in Filled(v, PluginNames(i))
    BY <2>1, PluginFills, NothingFilled DEF Contribute
  <2> QED
    BY <2>2 DEF Filled
<1> HIDE DEF V
<1>3. \E t \in [0..Len(Contributions) -> V] :
        /\ t[0] = db
        /\ \A i \in 1..Len(Contributions) : t[i] = Contribute(t[i - 1], i, bad, failing)
        /\ SeedContributions(db, bad, failing) = t[Len(Contributions)]
  BY <1>1, <1>2, ContributionsTrace
<1> QED
  BY <1>3 DEF V, ContributionsGo

LEMMA ContributionsWhole ==
  ASSUME NEW db \in Catalogues, NEW bad, NEW failing, NEW c \in Plugins,
         Contributions[c].project \notin failing, bad \cap PluginNames(c) = {}
  PROVE  Whole(SeedContributions(db, bad, failing), c)
<1> DEFINE n == Len(Contributions)
<1>1. n \in Nat /\ Plugins = 1..n
  BY ContributionsAssumption DEF Plugins
<1>2. ASSUME NEW v \in Catalogues, NEW i \in 1..n
      PROVE  /\ Contribute(v, i, bad, failing) \in Filled(v, PluginNames(i))
             /\ Contribute(v, i, bad, failing) \in Catalogues
  <2>1. Contribute(v, i, bad, failing) \in Filled(v, PluginNames(i))
    BY <1>1, PluginFills, NothingFilled DEF Contribute
  <2> QED
    BY <2>1 DEF Filled
<1>3. PICK t \in [0..n -> Catalogues] :
        /\ t[0] = db
        /\ \A i \in 1..n : t[i] = Contribute(t[i - 1], i, bad, failing)
        /\ SeedContributions(db, bad, failing) = t[n]
  <2>1. PICK t : ContributionsGo(t, db, bad, failing)
    BY ContributionsPath
  <2> QED
    BY <2>1 DEF ContributionsGo
<1> DEFINE T == {i \in 0..n : i >= c => Whole(t[i], c)}
<1>4. 0 \in T
  BY <1>1
<1>5. ASSUME NEW i \in 1..n, i - 1 \in T PROVE i \in T
  <2> SUFFICES ASSUME i >= c PROVE Whole(t[i], c)
    BY <1>1
  <2>1. i - 1 \in 0..n /\ t[i - 1] \in Catalogues /\ t[i] = Contribute(t[i - 1], i, bad, failing)
    BY <1>1, <1>3
  <2>2. CASE i = c
    BY <2>1, <2>2, PluginWhole DEF Contribute
  <2>3. CASE i # c
    <3>1. i - 1 >= c
      BY <1>1, <2>3
    <3>2. Whole(t[i - 1], c)
      BY <1>5, <3>1
    <3>3. t[i] \in Filled(t[i - 1], PluginNames(i)) /\ i \in Plugins
      BY <1>1, <1>2, <2>1
    <3> QED
      BY <2>1, <2>3, <3>2, <3>3, WholeKept
  <2> QED
    BY <2>2, <2>3
<1>6. n \in T
  <2>1. n \in 0..n
    BY <1>1
  <2> HIDE DEF T
  <2> QED
    BY <1>1, <1>4, <1>5, <2>1, CountingUp
<1> QED
  BY <1>1, <1>3, <1>6

(* Whatever was deleted, edited or cut short before: after a start alone, a
   plugin in which nothing failed is in place, its applications published and
   holding what is declared of them (fixtures.py:233, seed.py:404).        *)
LEMMA CommitHeals ==
  ASSUME SeedsInv, NEW s \in Servers, Commit(s), starting[s][1].catalogue = catalogued,
         NEW c \in Plugins, Contributions[c].project \notin starting[s][1].failing,
         starting[s][1].bad \cap PluginNames(c) = {}
  PROVE  Whole(catalogued', c)
<1> DEFINE bad == starting[s][1].bad
           failing == starting[s][1].failing \cup {Contributions[d].project : d \in Lost(s)}
           core == SeedCore(catalogued, bad, failing)
           after == SeedContributions(core, bad, failing)
<1>1. Lost(s) = {}
  BY DEF Lost
<1>2. Contributions[c].project \notin failing
  BY <1>1
<1>3. catalogued \in Catalogues
  BY DEF SeedsInv, SeedingTyped
<1>4. core \in Catalogues
  BY <1>3, CoreGrows DEF Grown
<1>5. after \in Catalogues /\ after = Seeded(catalogued, bad, failing)
  BY <1>3, SeededGrows DEF Grown, Seeded
<1>6. Whole(after, c)
  <2> HIDE DEF bad, failing, core
  <2> USE DEF bad
  <2> QED
    BY <1>2, <1>4, ContributionsWhole
<1>7. catalogued' = Merged(catalogued, catalogued, after)
  BY <1>5 DEF Commit, Merged
<1> HIDE DEF after, failing
<1>8. ASSUME NEW n \in Everything PROVE catalogued'[n] = after[n]
  <2>1. after[n] \in Rows /\ catalogued[n] \in Rows
    BY <1>3, <1>5 DEF Catalogues
  <2>2. CASE after[n] = catalogued[n]
    BY <1>7, <2>2 DEF Merged
  <2>3. CASE after[n] # catalogued[n]
    <3>1. catalogued'[n] = [after[n] EXCEPT !.copies =
                              catalogued[n].copies + after[n].copies - catalogued[n].copies]
      BY <1>7, <2>1, <2>3 DEF Merged, Rows
    <3>2. catalogued[n].copies + after[n].copies - catalogued[n].copies = after[n].copies
      BY <2>1 DEF Rows
    <3> QED
      BY <2>1, <3>1, <3>2 DEF Rows
  <2> QED
    BY <2>2, <2>3
<1>9. \A spec \in SpecsOf(c) : spec.name \in Everything
  BY DEF PluginNames, Everything
<1> QED
  BY <1>6, <1>8, <1>9 DEF Whole, Has

THEOREM SeedingHealsHolds == SeedingSpec => SeedingHeals
<1>1. SeedsInv /\ [SeedingNext]_seedVars =>
        [\A s \in Servers :
           (Commit(s) /\ starting[s][1].catalogue = catalogued) =>
             \A c \in Plugins :
               (/\ Contributions[c].project \notin starting[s][1].failing
                /\ starting[s][1].bad \cap PluginNames(c) = {}) => Whole(catalogued', c)]_seedVars
  BY CommitHeals
<1> QED
  BY <1>1, SeedingInvariance, PTL DEF SeedingSpec, SeedingHeals

-----------------------------------------------------------------------------
(* The worked example.                                                     *)

LEMMA Shapes ==
  /\ \A link \in ChainLinks :
       /\ link.name \in LinkNames /\ link.name \in ExampleTables /\ link.name # Telemetry
       /\ link.input \in ExampleTables /\ link.input # link.name
       /\ link.model \in BOOLEAN
  /\ \A a, b \in ChainLinks : a.name = b.name => a = b
  /\ Telemetry \in ExampleTables /\ LinkNames \subseteq ExampleTables
<1>1. Len(Chain) \in Nat /\ DOMAIN Chain = 1..Len(Chain)
  BY ChainAssumption
<1>2. ASSUME NEW link \in ChainLinks
      PROVE  /\ link.name \in LinkNames /\ link.name \in ExampleTables /\ link.name # Telemetry
             /\ link.input \in ExampleTables /\ link.input # link.name
             /\ link.model \in BOOLEAN
  <2>1. PICK i \in 1..Len(Chain) : link = Chain[i]
    BY <1>1 DEF ChainLinks
  <2>2. link \in [name : LinkNames, input : ExampleTables, model : BOOLEAN, needed : BOOLEAN]
    BY <2>1, ChainAssumption, ElementOf
  <2>3. /\ link.name \notin {Telemetry} \cup {Chain[j].name : j \in 1..(i - 1)}
        /\ link.input \in {Telemetry} \cup {Chain[j].name : j \in 1..(i - 1)}
    BY <1>1, <2>1, ChainAssumption
  <2> QED
    BY <2>2, <2>3 DEF ExampleTables
<1>3. ASSUME NEW a \in ChainLinks, NEW b \in ChainLinks, a.name = b.name PROVE a = b
  <2>1. PICK i, j \in 1..Len(Chain) : a = Chain[i] /\ b = Chain[j]
    BY <1>1 DEF ChainLinks
  <2>2. \A x, y \in 1..Len(Chain) : x < y => Chain[x].name # Chain[y].name
    <3>1. ASSUME NEW x \in 1..Len(Chain), NEW y \in 1..Len(Chain), x < y
          PROVE  Chain[x].name # Chain[y].name
      <4>1. x \in 1..(y - 1)
        BY <3>1
      <4>2. Chain[y].name \notin {Chain[k].name : k \in 1..(y - 1)}
        BY <1>1, ChainAssumption
      <4> QED
        BY <4>1, <4>2
    <3> QED
      BY <3>1
  <2>3. ~(i < j) /\ ~(j < i)
    BY <1>3, <2>1, <2>2
  <2> QED
    BY <2>1, <2>3
<1> QED
  BY <1>2, <1>3 DEF ExampleTables

(* What a start works on, and the runs that are in the air.                *)
Stamped == [at : Nat, of : Nat]
ExampleStates ==
  [clock : Nat, version : [ExampleTables -> Stamped], runs : [LinkNames -> [at : Nat, ok : BOOLEAN]],
   comparison : [pinned : Nat, ran : Nat, failed : BOOLEAN],
   late : SUBSET LinkNames, fetched : Nat, gone : SUBSET LinkNames, over : BOOLEAN]
Flights == [link : ChainLinks, began : Nat, read : Nat]

(* Everything is of the past.                                              *)
Past(it, written, flying) ==
  /\ written < it.clock
  /\ \A t \in ExampleTables : it.version[t].of <= it.version[t].at /\ it.version[t].at < it.clock
  /\ \A l \in LinkNames : it.runs[l].at < it.clock
  /\ \A run \in flying : run.began < it.clock /\ run.read < it.clock

(* What is young enough to be reused of its own accord, is of what it would
   be made of again: a table that is not older than its input was made of the
   version that is there, and so was that of a pipeline's latest run if it
   succeeded and began no earlier.                                         *)
Young(it, link) ==
  IF link.model THEN it.version[link.name].at >= it.version[link.input].at
                ELSE it.runs[link.name].ok /\ it.runs[link.name].at >= it.version[link.input].at
Current(it, link) == it.version[link.name].of = it.version[link.input].at

(* A run in the air read what is there, or what was replaced after it began. *)
Reading(it, run) ==
  run.read = it.version[run.link.input].at \/ run.began < it.version[run.link.input].at

Sound(written, flying) ==
  {it \in ExampleStates :
     /\ Past(it, written, flying)
     /\ it.version[Telemetry].at >= written => it.version[Telemetry].of = written
     /\ \A link \in ChainLinks : link.name \notin it.late /\ Young(it, link) => Current(it, link)
     /\ \A run \in flying : Reading(it, run)
     /\ it.comparison.ran # 0 => it.comparison.ran = it.comparison.pinned \/ it.comparison.failed}

LEMMA Another ==
  ASSUME NEW it \in ExampleStates, NEW clocked \in Nat, NEW versions \in [ExampleTables -> Stamped],
         NEW ran \in [LinkNames -> [at : Nat, ok : BOOLEAN]], NEW lately \in SUBSET LinkNames
  PROVE  [it EXCEPT !.clock = clocked, !.version = versions, !.runs = ran, !.late = lately]
           \in ExampleStates
BY DEF ExampleStates

(* One table gets a new version: what reads it is no longer young, and what
   is in the air and read it is shown to have begun before.                *)
LEMMA Rewritten ==
  ASSUME NEW written \in Nat, NEW flying \in SUBSET Flights, NEW it \in Sound(written, flying),
         NEW after \in ExampleStates, NEW t \in ExampleTables,
         after.version[t].at >= it.clock, after.version[t].at < after.clock,
         after.version[t].of <= after.version[t].at,
         \A u \in ExampleTables : u # t => after.version[u] = it.version[u],
         \A l \in LinkNames :
           l # t => after.runs[l] = it.runs[l] /\ (l \in it.late => l \in after.late),
         t = Telemetry => after.version[t].of = written,
         t \in LinkNames => after.runs[t].at < after.clock,
         \A link \in ChainLinks :
           link.name = t /\ t \notin after.late /\ Young(after, link) => Current(after, link),
         after.comparison = it.comparison,
         NEW aloft \in SUBSET flying
  PROVE  after \in Sound(written, aloft)
<1>1. it \in ExampleStates /\ Past(it, written, flying)
  BY DEF Sound
<1>2. it.clock \in Nat /\ after.clock \in Nat /\ it.clock < after.clock
  BY <1>1 DEF ExampleStates, Stamped
<1>3. \A u \in ExampleTables : /\ it.version[u].at \in Nat /\ it.version[u].of \in Nat
                               /\ after.version[u].at \in Nat /\ after.version[u].of \in Nat
  BY <1>1 DEF ExampleStates, Stamped
<1>4. \A l \in LinkNames : it.runs[l].at \in Nat /\ after.runs[l].at \in Nat
  BY <1>1 DEF ExampleStates
<1>5. ASSUME NEW run \in aloft
      PROVE  /\ run.began \in Nat /\ run.read \in Nat /\ run.link \in ChainLinks
             /\ run.began < it.clock /\ run.read < it.clock /\ Reading(it, run)
  BY <1>1 DEF Sound, Past, Flights
<1>6. Past(after, written, aloft)
  <2>1. written < after.clock
    BY <1>1, <1>2 DEF Past
  <2>2. ASSUME NEW u \in ExampleTables
        PROVE  after.version[u].of <= after.version[u].at /\ after.version[u].at < after.clock
    BY <1>1, <1>2, <1>3 DEF Past
  <2>3. ASSUME NEW l \in LinkNames PROVE after.runs[l].at < after.clock
    BY <1>1, <1>2, <1>4 DEF Past
  <2>4. ASSUME NEW run \in aloft PROVE run.began < after.clock /\ run.read < after.clock
    BY <1>2, <1>5
  <2> QED
    BY <2>1, <2>2, <2>3, <2>4 DEF Past
<1>7. after.version[Telemetry].at >= written => after.version[Telemetry].of = written
  BY Shapes DEF Sound
<1>8. ASSUME NEW link \in ChainLinks, link.name \notin after.late, Young(after, link)
      PROVE  Current(after, link)
  <2>1. link.name \in LinkNames /\ link.name \in ExampleTables /\ link.input \in ExampleTables
    BY Shapes
  <2>2. CASE link.name = t
    BY <1>8, <2>2
  <2>3. CASE link.name # t /\ link.input = t
    <3>1. it.version[link.name].at < it.clock /\ it.runs[link.name].at < it.clock
      BY <1>1, <2>1 DEF Past
    <3>2. after.version[link.name].at < after.version[link.input].at
      BY <1>2, <1>3, <2>1, <2>3, <3>1
    <3>3. after.runs[link.name].at < after.version[link.input].at
      BY <1>2, <1>3, <1>4, <2>1, <2>3, <3>1
    <3> QED
      BY <1>3, <1>4, <1>8, <2>1, <3>2, <3>3 DEF Young
  <2>4. CASE link.name # t /\ link.input # t
    <3>1. /\ after.version[link.name] = it.version[link.name]
          /\ after.version[link.input] = it.version[link.input]
          /\ after.runs[link.name] = it.runs[link.name] /\ link.name \notin it.late
      BY <1>8, <2>1, <2>4
    <3>2. Young(it, link)
      BY <1>8, <3>1 DEF Young
    <3>3. Current(it, link)
      BY <3>1, <3>2 DEF Sound
    <3> QED
      BY <3>1, <3>3 DEF Current
  <2> QED
    BY <2>2, <2>3, <2>4
<1>9. ASSUME NEW run \in aloft PROVE Reading(after, run)
  <2>1. run.link.input \in ExampleTables
    BY <1>5, Shapes
  <2>2. CASE run.link.input = t
    BY <1>2, <1>3, <1>5, <2>1, <2>2 DEF Reading
  <2>3. CASE run.link.input # t
    BY <1>5, <2>1, <2>3 DEF Reading
  <2> QED
    BY <2>2, <2>3
<1>10. after.comparison.ran # 0 =>
         after.comparison.ran = after.comparison.pinned \/ after.comparison.failed
  BY DEF Sound
<1> QED
  BY <1>6, <1>7, <1>8, <1>9, <1>10 DEF Sound

(* No table does: runs begin and fail, and the files are written.          *)
LEMMA Unwritten ==
  ASSUME NEW written \in Nat, NEW flying \in SUBSET Flights, NEW it \in Sound(written, flying),
         NEW after \in ExampleStates, after.clock >= it.clock, after.version = it.version,
         NEW rewritten \in Nat, rewritten < after.clock,
         rewritten = written \/ rewritten = it.clock,
         after.late = it.late,
         \A l \in LinkNames :
           after.runs[l] = it.runs[l] \/ (~after.runs[l].ok /\ after.runs[l].at < after.clock),
         after.comparison = it.comparison,
         NEW aloft \in SUBSET Flights,
         \A run \in aloft :
           run \in flying \/ (run.began < after.clock /\ run.read < after.clock /\ Reading(after, run))
  PROVE  after \in Sound(rewritten, aloft)
<1>1. it \in ExampleStates /\ Past(it, written, flying)
  BY DEF Sound
<1>2. it.clock \in Nat /\ after.clock \in Nat
  BY <1>1 DEF ExampleStates
<1>3. \A u \in ExampleTables : it.version[u].at \in Nat /\ it.version[u].of \in Nat
  BY <1>1 DEF ExampleStates, Stamped
<1>4. \A l \in LinkNames : it.runs[l].at \in Nat
  BY <1>1 DEF ExampleStates
<1>5. \A run \in aloft : run.began \in Nat /\ run.read \in Nat
  BY DEF Flights
<1>6. Past(after, rewritten, aloft)
  <2>1. ASSUME NEW u \in ExampleTables
        PROVE  after.version[u].of <= after.version[u].at /\ after.version[u].at < after.clock
    BY <1>1, <1>2, <1>3 DEF Past
  <2>2. ASSUME NEW l \in LinkNames PROVE after.runs[l].at < after.clock
    BY <1>1, <1>2, <1>4 DEF Past
  <2>3. ASSUME NEW run \in aloft PROVE run.began < after.clock /\ run.read < after.clock
    BY <1>1, <1>2, <1>5 DEF Past
  <2> QED
    BY <2>1, <2>2, <2>3 DEF Past
<1>7. after.version[Telemetry].at >= rewritten => after.version[Telemetry].of = rewritten
  <2>1. it.version[Telemetry].at < it.clock
    BY <1>1, Shapes DEF Past
  <2>2. it.version[Telemetry].at >= written => it.version[Telemetry].of = written
    BY DEF Sound
  <2> QED
    BY <1>2, <1>3, <2>1, <2>2, Shapes
<1>8. ASSUME NEW link \in ChainLinks, link.name \notin after.late, Young(after, link)
      PROVE  Current(after, link)
  <2>1. link.name \in LinkNames
    BY Shapes
  <2>2. Young(it, link)
    BY <1>8, <2>1 DEF Young
  <2>3. Current(it, link)
    BY <1>8, <2>2 DEF Sound
  <2> QED
    BY <2>3 DEF Current
<1>9. ASSUME NEW run \in aloft PROVE Reading(after, run)
  BY DEF Sound, Reading
<1>10. after.comparison.ran # 0 =>
         after.comparison.ran = after.comparison.pinned \/ after.comparison.failed
  BY DEF Sound
<1> QED
  BY <1>6, <1>7, <1>8, <1>9, <1>10 DEF Sound

-----------------------------------------------------------------------------
(* A start of the worked example.                                          *)

LEMMA RefreshSound ==
  ASSUME NEW it \in Sound(stamp, airborne), stamp \in Nat, airborne \in SUBSET Flights, NEW failing
  PROVE  RefreshStale(it, failing) \in Sound(stamp, airborne)
<1> DEFINE after == [it EXCEPT !.clock = @ + 1, !.version[Telemetry] = [at |-> it.clock, of |-> stamp]]
<1>1. it \in ExampleStates /\ stamp < it.clock /\ Telemetry \in ExampleTables
  BY Shapes DEF Sound, Past
<1>2. after \in ExampleStates
  <2> DEFINE versions == [it.version EXCEPT ![Telemetry] = [at |-> it.clock, of |-> stamp]]
  <2>1. versions \in [ExampleTables -> Stamped] /\ it.clock + 1 \in Nat
    BY <1>1 DEF ExampleStates, Stamped
  <2>2. it.runs \in [LinkNames -> [at : Nat, ok : BOOLEAN]] /\ it.late \in SUBSET LinkNames
    BY <1>1 DEF ExampleStates
  <2>3. after = [it EXCEPT !.clock = it.clock + 1, !.version = versions,
                           !.runs = it.runs, !.late = it.late]
    BY <1>1 DEF ExampleStates
  <2> HIDE DEF after, versions
  <2> QED
    BY <1>1, <2>1, <2>2, <2>3, Another
<1>3. /\ it.clock \in Nat /\ after.clock = it.clock + 1
      /\ after.version[Telemetry] = [at |-> it.clock, of |-> stamp]
      /\ \A u \in ExampleTables : u # Telemetry => after.version[u] = it.version[u]
      /\ after.runs = it.runs /\ after.late = it.late /\ after.comparison = it.comparison
  BY <1>1 DEF ExampleStates
<1>4. Telemetry \notin LinkNames
  BY Shapes DEF LinkNames
<1>5. after \in Sound(stamp, airborne)
  <2> HIDE DEF after
  <2>1. \A link \in ChainLinks : link.name # Telemetry
    BY Shapes
  <2> QED
    BY <1>1, <1>2, <1>3, <1>4, <2>1, Rewritten
<1>6. [after EXCEPT !.fetched = it.clock] \in Sound(stamp, airborne)
  <2> HIDE DEF after
  <2> DEFINE handed == [after EXCEPT !.fetched = it.clock]
  <2>1. handed \in ExampleStates
    BY <1>2, <1>3 DEF ExampleStates
  <2>2. /\ handed.clock = after.clock /\ handed.version = after.version /\ handed.runs = after.runs
        /\ handed.late = after.late /\ handed.comparison = after.comparison
    BY <1>2 DEF ExampleStates
  <2> HIDE DEF handed
  <2>3. handed \in Sound(stamp, airborne)
    BY <1>5, <2>1, <2>2 DEF Sound, Past, Young, Current, Reading
  <2> QED
    BY <2>3 DEF handed
<1> QED
  BY <1>5, <1>6 DEF RefreshStale

LEMMA RunLinkSound ==
  ASSUME NEW it \in Sound(stamp, airborne), stamp \in Nat, airborne \in SUBSET Flights,
         NEW link \in ChainLinks, NEW failing
  PROVE  RunLink(it, link, failing) \in Sound(stamp, airborne)
<1> DEFINE ran == [at |-> it.clock, ok |-> link.name \notin failing]
           begun == [it EXCEPT !.clock = @ + 2, !.runs[link.name] = ran]
           done == [begun EXCEPT !.version[link.name] =
                             [at |-> it.clock + 1, of |-> it.version[link.input].at],
                           !.late = @ \ {link.name}]
<1>1. it \in ExampleStates /\ Past(it, stamp, airborne) /\ it.clock \in Nat
  BY DEF Sound, ExampleStates
<1>2. /\ link.name \in LinkNames /\ link.name \in ExampleTables /\ link.name # Telemetry
      /\ link.input \in ExampleTables /\ link.input # link.name
      /\ \A other \in ChainLinks : other.name = link.name => other = link
  BY Shapes
<1>3. ASSUME NEW at \in Sound(stamp, airborne) PROVE Missed(at, link) \in Sound(stamp, airborne)
  <2> DEFINE after == Missed(at, link)
  <2>1. at \in ExampleStates /\ stamp < at.clock /\ at.clock \in Nat
    BY DEF Sound, Past, ExampleStates
  <2>2. link.needed \in BOOLEAN
    <3>1. PICK i \in 1..Len(Chain) : link = Chain[i]
      BY ChainAssumption DEF ChainLinks
    <3>2. link \in [name : LinkNames, input : ExampleTables, model : BOOLEAN, needed : BOOLEAN]
      BY <3>1, ChainAssumption, ElementOf
    <3> QED
      BY <3>2
  <2>3. after \in ExampleStates
    BY <1>2, <2>1, <2>2 DEF Missed, ExampleStates
  <2>4. /\ after.clock = at.clock /\ after.version = at.version /\ after.late = at.late
        /\ after.runs = at.runs /\ after.comparison = at.comparison
    BY <2>1 DEF Missed, ExampleStates
  <2> HIDE DEF after
  <2>5. after \in Sound(stamp, airborne)
    BY <2>1, <2>3, <2>4, Unwritten
  <2> QED
    BY <2>5 DEF after
<1>4. CASE link.name \in failing
  <2>1. begun \in ExampleStates
    <3> DEFINE after == [it.runs EXCEPT ![link.name] = ran]
    <3>1. after \in [LinkNames -> [at : Nat, ok : BOOLEAN]] /\ it.clock + 2 \in Nat
      BY <1>1, <1>2 DEF ExampleStates
    <3>2. it.version \in [ExampleTables -> Stamped] /\ it.late \in SUBSET LinkNames
      BY <1>1 DEF ExampleStates
    <3>3. begun = [it EXCEPT !.clock = it.clock + 2, !.version = it.version,
                             !.runs = after, !.late = it.late]
      BY <1>1 DEF ExampleStates
    <3> HIDE DEF begun, after
    <3> QED
      BY <1>1, <3>1, <3>2, <3>3, Another
  <2>2. /\ begun.clock = it.clock + 2 /\ begun.version = it.version /\ begun.late = it.late
        /\ begun.comparison = it.comparison
        /\ \A l \in LinkNames : begun.runs[l] = IF l = link.name THEN ran ELSE it.runs[l]
    BY <1>1, <1>2 DEF ExampleStates
  <2>3. \A l \in LinkNames :
          begun.runs[l] = it.runs[l] \/ (~begun.runs[l].ok /\ begun.runs[l].at < begun.clock)
    <3>1. ~ran.ok /\ ran.at = it.clock
      BY <1>4
    <3> HIDE DEF ran, begun
    <3>2. ran.at < begun.clock
      BY <1>1, <2>2, <3>1
    <3> QED
      BY <2>2, <3>1, <3>2
  <2>4. stamp < begun.clock /\ begun.clock >= it.clock
    BY <1>1, <2>2 DEF Past
  <2>5. begun \in Sound(stamp, airborne)
    <3> HIDE DEF begun
    <3> QED
      BY <2>1, <2>2, <2>3, <2>4, Unwritten
  <2>6. Missed(begun, link) \in Sound(stamp, airborne)
    <3> HIDE DEF begun
    <3> QED
      BY <1>3, <2>5
  <2>7. RunLink(it, link, failing) \in {it, Missed(it, link), Missed(begun, link)}
    BY <1>4 DEF RunLink
  <2> HIDE DEF begun
  <2> QED
    BY <1>3, <2>6, <2>7
<1>5. CASE link.name \notin failing
  <2>1. it.version[link.input].at \in Nat /\ it.version[link.input].at < it.clock
    BY <1>1, <1>2 DEF ExampleStates, Stamped, Past
  <2>2. done \in ExampleStates
    <3> DEFINE after == [it.runs EXCEPT ![link.name] = ran]
               versions == [it.version EXCEPT ![link.name] =
                              [at |-> it.clock + 1, of |-> it.version[link.input].at]]
    <3>1. after \in [LinkNames -> [at : Nat, ok : BOOLEAN]] /\ it.clock + 2 \in Nat
      BY <1>1, <1>2 DEF ExampleStates
    <3>2. versions \in [ExampleTables -> Stamped] /\ it.late \ {link.name} \in SUBSET LinkNames
      BY <1>1, <1>2, <2>1 DEF ExampleStates, Stamped
    <3>3. done = [it EXCEPT !.clock = it.clock + 2, !.version = versions,
                            !.runs = after, !.late = it.late \ {link.name}]
      BY <1>1, <1>2 DEF ExampleStates
    <3> HIDE DEF done, after, versions
    <3> QED
      BY <1>1, <3>1, <3>2, <3>3, Another
  <2>3. /\ done.clock = it.clock + 2 /\ done.late = it.late \ {link.name}
        /\ done.comparison = it.comparison
        /\ done.version[link.name] = [at |-> it.clock + 1, of |-> it.version[link.input].at]
        /\ \A u \in ExampleTables : u # link.name => done.version[u] = it.version[u]
        /\ \A l \in LinkNames : done.runs[l] = IF l = link.name THEN ran ELSE it.runs[l]
    BY <1>1, <1>2 DEF ExampleStates
  <2>4. Current(done, link)
    BY <1>2, <2>3 DEF Current
  <2>5. done \in Sound(stamp, airborne)
    <3>1. /\ done.version[link.name].at >= it.clock /\ done.version[link.name].at < done.clock
          /\ done.version[link.name].of <= done.version[link.name].at
          /\ done.runs[link.name].at < done.clock
      BY <1>1, <1>2, <2>1, <2>3
    <3>2. \A l \in LinkNames :
            l # link.name => done.runs[l] = it.runs[l] /\ (l \in it.late => l \in done.late)
      BY <2>3
    <3>3. \A other \in ChainLinks : other.name = link.name => Current(done, other)
      <4> HIDE DEF done
      <4> QED
        BY <1>2, <2>4
    <3> HIDE DEF done
    <3> QED
      BY <1>2, <2>2, <2>3, <3>1, <3>2, <3>3, Rewritten
  <2>6. RunLink(it, link, failing) \in {it, Missed(it, link), done}
    BY <1>5 DEF RunLink
  <2> HIDE DEF done
  <2> QED
    BY <1>3, <2>5, <2>6
<1> QED
  BY <1>4, <1>5

LEMMA ComparisonSound ==
  ASSUME NEW it \in Sound(stamp, airborne), stamp \in Nat, airborne \in SUBSET Flights,
         NEW failing
  PROVE  SeedComparison(it, failing) \in Sound(stamp, airborne)
<1> DEFINE features == it.version[Featured].at
           failed == "comparison" \in failing
           after == [it EXCEPT !.comparison =
             [pinned |-> features, failed |-> it.comparison.failed \/ failed,
              ran |-> IF failed THEN it.comparison.ran ELSE features]]
<1>1. it \in ExampleStates /\ Featured \in ExampleTables
  BY ChainAssumption DEF Sound, ExampleTables
<1>2. SeedComparison(it, failing) = it \/ SeedComparison(it, failing) = after
  BY <1>1 DEF SeedComparison, ExampleStates
<1>3. after \in ExampleStates
  BY <1>1 DEF ExampleStates, Stamped
<1>4. /\ after.clock = it.clock /\ after.version = it.version /\ after.runs = it.runs
      /\ after.late = it.late
  BY <1>1 DEF ExampleStates
<1>5. after.comparison.ran # 0 =>
        after.comparison.ran = after.comparison.pinned \/ after.comparison.failed
  BY <1>1 DEF ExampleStates
<1> HIDE DEF after
<1>6. after \in Sound(stamp, airborne)
  BY <1>3, <1>4, <1>5 DEF Sound, Past, Young, Current, Reading
<1> QED
  BY <1>2, <1>6

ChainStays(V, failing) == \A v \in V, i \in 1..Len(Chain) : RunLink(v, Chain[i], failing) \in V
ChainGoes(t, it, failing) ==
  /\ t[0] = it
  /\ \A i \in 1..Len(Chain) : t[i] = RunLink(t[i - 1], Chain[i], failing)
  /\ RunChain(it, failing) = t[Len(Chain)]

(* The chain goes through one state for each of its links.                 *)
LEMMA ChainTrace ==
  ASSUME NEW it, NEW failing, NEW V, it \in V, ChainStays(V, failing)
  PROVE  \E t \in [0..Len(Chain) -> V] : ChainGoes(t, it, failing)
<1> DEFINE n == Len(Chain)
           H == [i \in 1..n |-> [v \in V |-> RunLink(v, Chain[i], failing)]]
           Table(g) == g = [s \in SUBSET (DOMAIN Chain) |->
                              IF s = {} THEN it ELSE RunLink(g[s \ {Max(s)}], Chain[Max(s)], failing)]
<1>1. n \in Nat /\ DOMAIN Chain = 1..n /\ H \in [1..n -> [V -> V]]
  BY ChainAssumption DEF ChainStays
<1>2. PICK f \in [SUBSET (1..n) -> V] : IsTable(f, n, it, H)
  <2> HIDE DEF H, n
  <2> QED
    BY <1>1, FoldTable
<1>3. Table(f)
  <2>1. ASSUME NEW s \in SUBSET (1..n), s # {}
        PROVE  H[Max(s)][f[s \ {Max(s)}]] = RunLink(f[s \ {Max(s)}], Chain[Max(s)], failing)
    <3>1. Max(s) \in 1..n
      BY <1>1, <2>1, GreatestIsIn
    <3>2. f[s \ {Max(s)}] \in V
      OBVIOUS
    <3> QED
      BY <3>1, <3>2
  <2> HIDE DEF H
  <2> QED
    BY <1>1, <1>2, <2>1 DEF IsTable
<1>4. PICK g : Table(g) /\ RunChain(it, failing) = g[DOMAIN Chain]
  BY <1>3 DEF RunChain, FoldLeft, MapThenFoldSet
<1>5. g[{}] = it
  BY <1>4
<1>6. ASSUME NEW i \in 1..n PROVE g[1..i] = RunLink(g[1..(i - 1)], Chain[i], failing)
  BY <1>1, <1>4, UpTo
<1>7. \A i \in 0..n : g[1..i] \in V
  <2>1. \A i \in 1..n : g[1..(i - 1)] \in V => g[1..i] \in V
    BY <1>6 DEF ChainStays
  <2> QED
    BY <1>1, <1>5, <2>1, TableStays
<1> DEFINE t == [i \in 0..n |-> g[1..i]]
<1>8. t \in [0..n -> V] /\ t[n] = g[DOMAIN Chain]
  BY <1>1, <1>7
<1>9. t[0] = it
  <2>1. 1..0 = {}
    OBVIOUS
  <2> QED
    BY <1>1, <1>5, <2>1
<1>10. \A i \in 1..n : t[i] = RunLink(t[i - 1], Chain[i], failing)
  BY <1>1, <1>6
<1> QED
  BY <1>4, <1>8, <1>9, <1>10 DEF ChainGoes

LEMMA ChainPath ==
  ASSUME NEW it \in Sound(stamp, airborne), stamp \in Nat, airborne \in SUBSET Flights, NEW failing
  PROVE  \E t \in [0..Len(Chain) -> Sound(stamp, airborne)] : ChainGoes(t, it, failing)
<1> DEFINE V == Sound(stamp, airborne)
<1>1. it \in V /\ ChainStays(V, failing)
  <2>1. \A i \in 1..Len(Chain) : Chain[i] \in ChainLinks
    BY ChainAssumption DEF ChainLinks
  <2> QED
    BY <2>1, RunLinkSound DEF ChainStays
<1> HIDE DEF V
<1>2. \E t \in [0..Len(Chain) -> V] : ChainGoes(t, it, failing)
  BY <1>1, ChainTrace
<1> QED
  BY <1>2 DEF V

LEMMA ExampleSound ==
  ASSUME AtStart \in Sound(stamp, airborne), stamp \in Nat, airborne \in SUBSET Flights, NEW failing
  PROVE  SeedExample(failing) \in Sound(stamp, airborne)
<1> DEFINE V == Sound(stamp, airborne)
           it == RefreshStale(AtStart, failing)
<1>1. it \in V
  BY RefreshSound
<1>2. PICK t \in [0..Len(Chain) -> V] : ChainGoes(t, it, failing)
  <2> HIDE DEF it
  <2> QED
    BY <1>1, ChainPath
<1>3. RunChain(it, failing) \in V
  <2>1. Len(Chain) \in 0..Len(Chain)
    BY ChainAssumption
  <2> QED
    BY <1>2, <2>1 DEF ChainGoes
<1> HIDE DEF it
<1>4. SeedComparison(RunChain(it, failing), failing) \in V
  BY <1>3, ComparisonSound
<1> QED
  BY <1>4 DEF it, SeedExample

-----------------------------------------------------------------------------
(* The links a start has been through, none having failed, agree.          *)

(* A pipeline over the telemetry goes by the version that was fetched.     *)
OfFetched(it, link) ==
  ~link.model /\ link.input = Telemetry /\ it.version[link.name].of = it.fetched
Fits(it, link) == Current(it, link) \/ OfFetched(it, link)

(* Where its latest run is young enough for that version, it is of that one
   or of the one there is now.                                             *)
YoungForFetched(it, link) ==
  /\ ~link.model /\ link.input = Telemetry
  /\ it.runs[link.name].ok /\ it.runs[link.name].at >= it.fetched

Agreed(it, i) ==
  /\ it.gone = {} /\ ~it.over
  /\ it.version[Telemetry].of = stamp
  /\ it.fetched = IF version[Telemetry] = Nothing THEN it.version[Telemetry].at
                  ELSE version[Telemetry].at
  /\ \A link \in ChainLinks :
       link.name \notin it.late /\ YoungForFetched(it, link) => Fits(it, link)
  /\ \A j \in 1..i : Chain[j].name \notin it.late => Fits(it, Chain[j])

LEMMA LinkAgrees ==
  ASSUME NEW it \in Sound(stamp, airborne), stamp \in Nat, airborne \in SUBSET Flights,
         NEW i \in 1..Len(Chain), Agreed(it, i - 1)
  PROVE  Agreed(RunLink(it, Chain[i], {}), i)
<1> DEFINE link == Chain[i]
           ran == [at |-> it.clock, ok |-> TRUE]
           begun == [it EXCEPT !.clock = @ + 2, !.runs[link.name] = ran]
           done == [begun EXCEPT !.version[link.name] =
                             [at |-> it.clock + 1, of |-> it.version[link.input].at],
                           !.late = @ \ {link.name}]
<1>1. it \in ExampleStates /\ it.clock \in Nat /\ Len(Chain) \in Nat
  BY ChainAssumption DEF Sound, ExampleStates
<1>2. \A k \in 1..Len(Chain) : Chain[k] \in ChainLinks
  BY ChainAssumption DEF ChainLinks
<1>3. /\ link.name \in LinkNames /\ link.name \in ExampleTables /\ link.name # Telemetry
      /\ link.input \in ExampleTables /\ link.input # link.name
  BY <1>2, Shapes
<1>4. link.input \notin it.gone /\ ~it.over
  BY DEF Agreed
<1>5. CASE Reused(it, link)
  <2>1. RunLink(it, link, {}) = it
    BY <1>4, <1>5 DEF RunLink
  <2>2. Young(it, link) \/ YoungForFetched(it, link)
    <3>1. /\ it.version[link.name].at \in Nat /\ it.version[link.input].at \in Nat
          /\ it.runs[link.name].at \in Nat /\ it.fetched \in Nat
      BY <1>1, <1>3 DEF ExampleStates, Stamped
    <3> HIDE DEF link
    <3> QED
      BY <1>5, <3>1 DEF Reused, Young, YoungForFetched, OutputIsStale, OlderThanInput, HandedOn
  <2>3. link.name \notin it.late => Fits(it, link)
    <3>1. link \in ChainLinks
      BY <1>2
    <3> HIDE DEF link
    <3> QED
      BY <2>2, <3>1 DEF Sound, Agreed, Fits
  <2>4. \A j \in 1..i : j \in 1..(i - 1) \/ j = i
    BY <1>1
  <2>5. Agreed(it, i)
    BY <2>3, <2>4 DEF Agreed
  <2> QED
    BY <2>1, <2>5
<1>6. CASE ~Reused(it, link)
  <2>1. RunLink(it, link, {}) = done
    BY <1>4, <1>6 DEF RunLink
  <2>2. /\ done.gone = it.gone /\ done.over = it.over /\ done.late = it.late \ {link.name}
        /\ done.fetched = it.fetched
        /\ \A l \in LinkNames : l # link.name => done.runs[l] = it.runs[l]
        /\ done.version[link.name] = [at |-> it.clock + 1, of |-> it.version[link.input].at]
        /\ \A u \in ExampleTables : u # link.name => done.version[u] = it.version[u]
    BY <1>1, <1>3 DEF ExampleStates
  <2>6. Fits(done, link)
    BY <1>3, <2>2 DEF Current, Fits
  <2>7. ASSUME NEW other \in ChainLinks, other.name \notin done.late, YoungForFetched(done, other)
        PROVE  Fits(done, other)
    <3>1. CASE other.name = link.name
      <4>1. other = link
        BY <1>2, <3>1, Shapes
      <4> HIDE DEF done, link
      <4> QED
        BY <2>6, <4>1
    <3>2. CASE other.name # link.name
      <4>1. other.name \in LinkNames /\ other.name \in ExampleTables /\ other.input = Telemetry
        BY <2>7, Shapes DEF YoungForFetched
      <4>2. /\ done.version[other.name] = it.version[other.name]
            /\ done.runs[other.name] = it.runs[other.name]
            /\ done.version[Telemetry] = it.version[Telemetry]
            /\ other.name \notin it.late
        BY <1>3, <2>2, <2>7, <3>2, <4>1, Shapes
      <4> HIDE DEF done, link
      <4>3. YoungForFetched(it, other)
        BY <2>2, <2>7, <4>2 DEF YoungForFetched
      <4>4. Fits(it, other)
        BY <4>2, <4>3 DEF Agreed
      <4> QED
        BY <2>2, <4>1, <4>2, <4>4 DEF Fits, Current, OfFetched
    <3> QED
      BY <3>1, <3>2
  <2>3. ASSUME NEW j \in 1..i, Chain[j].name \notin done.late PROVE Fits(done, Chain[j])
    <3>1. CASE j = i
      BY <2>6, <3>1
    <3>2. CASE j \in 1..(i - 1)
      <4>1. /\ Chain[j].name # link.name /\ Chain[j].input # link.name
            /\ Chain[j].name \in ExampleTables /\ Chain[j].input \in ExampleTables
        <5>1. j \in 1..Len(Chain) /\ DOMAIN Chain = 1..Len(Chain)
          BY <1>1, ChainAssumption
        <5>2. link.name \notin {Telemetry} \cup {Chain[k].name : k \in 1..(i - 1)}
          BY <5>1, ChainAssumption
        <5>3. Chain[j].input \in {Telemetry} \cup {Chain[k].name : k \in 1..(j - 1)}
          BY <5>1, ChainAssumption
        <5>4. \A k \in 1..(j - 1) : k \in 1..(i - 1)
          BY <1>1, <3>2
        <5>5. Chain[j] \in ChainLinks
          BY <1>2, <5>1
        <5> HIDE DEF link
        <5>6. Chain[j].input # link.name
          BY <5>2, <5>3, <5>4
        <5> QED
          BY <3>2, <5>2, <5>5, <5>6, Shapes
      <4>2. Chain[j].name \notin it.late
        BY <2>2, <2>3, <4>1
      <4>3. Fits(it, Chain[j])
        BY <3>2, <4>2 DEF Agreed
      <4> HIDE DEF done, link
      <4> QED
        BY <2>2, <4>1, <4>3 DEF Fits, Current, OfFetched
    <3> QED
      BY <1>1, <3>1, <3>2
  <2>4. done.version[Telemetry] = it.version[Telemetry]
    BY <1>3, <2>2, Shapes
  <2> HIDE DEF done
  <2>5. Agreed(done, i)
    BY <2>2, <2>3, <2>4, <2>7 DEF Agreed
  <2> QED
    BY <2>1, <2>5
<1> QED
  BY <1>5, <1>6

LEMMA ExampleAgrees ==
  ASSUME AtStart \in Sound(stamp, airborne), stamp \in Nat, airborne \in SUBSET Flights
  PROVE  LET it == SeedExample({}) IN
         /\ it.version[Telemetry].of = stamp
         /\ it.fetched = IF version[Telemetry] = Nothing THEN it.version[Telemetry].at
                         ELSE version[Telemetry].at
         /\ \A link \in ChainLinks : link.name \notin it.late => Fits(it, link)
         /\ it.comparison.pinned = it.version[Featured].at
         /\ it.comparison.ran = it.comparison.pinned \/ it.comparison.failed
<1> DEFINE V == Sound(stamp, airborne)
           fresh == RefreshStale(AtStart, {})
           through == RunChain(fresh, {})
<1>1. fresh \in V
  BY RefreshSound
<1>2. Agreed(fresh, 0)
  <2>1. AtStart \in ExampleStates
    BY DEF Sound
  <2>2. fresh.version[Telemetry].of = stamp
    <3>1. CASE AtStart.version[Telemetry] = Nothing \/ AtStart.version[Telemetry].at < stamp
      BY <2>1, <3>1, Shapes DEF RefreshStale, ExampleStates
    <3>2. CASE ~(AtStart.version[Telemetry] = Nothing \/ AtStart.version[Telemetry].at < stamp)
      <4>1. AtStart.version[Telemetry].at \in Nat
        BY <2>1, Shapes DEF ExampleStates, Stamped
      <4>2. fresh = AtStart
        BY <3>2 DEF RefreshStale
      <4> QED
        BY <3>2, <4>1, <4>2 DEF Sound
    <3> QED
      BY <3>1, <3>2
  <2>3. fresh.gone = {} /\ ~fresh.over
    BY DEF RefreshStale, AtStart
  <2>4. /\ AtStart.version = version /\ AtStart.fetched = version[Telemetry].at
        /\ fresh.runs = AtStart.runs /\ fresh.late = AtStart.late
        /\ \A u \in ExampleTables : u # Telemetry => fresh.version[u] = AtStart.version[u]
    BY <2>1, Shapes DEF RefreshStale, AtStart, ExampleStates
  <2>5. /\ fresh.fetched = IF version[Telemetry] = Nothing THEN fresh.version[Telemetry].at
                           ELSE version[Telemetry].at
        /\ version[Telemetry] = Nothing => fresh.fetched = AtStart.clock
    <3>1. CASE version[Telemetry] = Nothing
      BY <2>1, <2>4, <3>1, Shapes DEF RefreshStale, ExampleStates
    <3>2. CASE version[Telemetry] # Nothing
      BY <2>1, <2>4, <3>2, Shapes DEF RefreshStale, ExampleStates
    <3> QED
      BY <3>1, <3>2
  <2>6. ASSUME NEW link \in ChainLinks, link.name \notin fresh.late, YoungForFetched(fresh, link)
        PROVE  Fits(fresh, link)
    <3>1. link.name \in LinkNames /\ link.name \in ExampleTables /\ link.name # Telemetry
      BY Shapes
    <3>2. AtStart.runs[link.name].at < AtStart.clock
      BY <3>1 DEF Sound, Past
    <3>3. AtStart.runs[link.name].at \in Nat /\ AtStart.clock \in Nat
      BY <2>1, <3>1 DEF ExampleStates
    <3> HIDE DEF fresh
    <3>4. version[Telemetry] # Nothing
      BY <2>4, <2>5, <2>6, <3>2, <3>3 DEF YoungForFetched
    <3>5. Young(AtStart, link)
      BY <2>4, <2>5, <2>6, <3>4 DEF YoungForFetched, Young
    <3>6. Current(AtStart, link)
      BY <2>4, <2>6, <3>5 DEF Sound
    <3> QED
      BY <2>4, <2>5, <2>6, <3>1, <3>4, <3>6 DEF Current, Fits, OfFetched, YoungForFetched
  <2> HIDE DEF fresh
  <2> QED
    BY <2>2, <2>3, <2>5, <2>6 DEF Agreed
<1>3. PICK t \in [0..Len(Chain) -> V] : ChainGoes(t, fresh, {})
  <2> HIDE DEF fresh
  <2> QED
    BY <1>1, ChainPath
<1>4. Len(Chain) \in Nat /\ DOMAIN Chain = 1..Len(Chain)
  BY ChainAssumption
<1> DEFINE T == {i \in 0..Len(Chain) : Agreed(t[i], i)}
<1>5. 0 \in T
  BY <1>2, <1>3, <1>4 DEF ChainGoes
<1>6. ASSUME NEW i \in 1..Len(Chain), i - 1 \in T PROVE i \in T
  <2>1. t[i - 1] \in V /\ t[i] = RunLink(t[i - 1], Chain[i], {})
    BY <1>3, <1>4 DEF ChainGoes
  <2>2. Agreed(t[i - 1], i - 1)
    BY <1>6
  <2> DEFINE before == t[i - 1]
  <2>3. Agreed(RunLink(before, Chain[i], {}), i)
    <3>1. before \in V /\ Agreed(before, i - 1)
      BY <2>1, <2>2
    <3> HIDE DEF before
    <3> QED
      BY <3>1, LinkAgrees
  <2> QED
    BY <1>4, <2>1, <2>3
<1>7. Len(Chain) \in T
  <2>1. Len(Chain) \in 0..Len(Chain)
    BY <1>4
  <2> HIDE DEF T
  <2> QED
    BY <1>4, <1>5, <1>6, <2>1, CountingUp
<1>8. Agreed(through, Len(Chain)) /\ through \in V
  BY <1>3, <1>4, <1>7 DEF ChainGoes
<1> HIDE DEF through, fresh
<1> DEFINE it == SeedComparison(through, {})
<1>9. SeedExample({}) = it
  BY DEF SeedExample, through, fresh
<1>10. through \in ExampleStates /\ ~through.over
  BY <1>8 DEF Sound, Agreed
<1>11. /\ it.version = through.version /\ it.late = through.late /\ it.fetched = through.fetched
       /\ it.comparison.pinned = it.version[Featured].at
       /\ it.comparison.ran = it.comparison.pinned \/ it.comparison.failed
  <2> DEFINE features == through.version[Featured].at
             after == [through EXCEPT !.comparison =
                         [pinned |-> features, failed |-> through.comparison.failed, ran |-> features]]
  <2>1. CASE through.comparison.ran # 0 /\ through.comparison.pinned = features
    <3>1. it = through
      BY <2>1 DEF SeedComparison
    <3> QED
      BY <1>8, <2>1, <3>1 DEF Sound
  <2>2. CASE ~(through.comparison.ran # 0 /\ through.comparison.pinned = features)
    <3>1. it = after
      BY <1>10, <2>2 DEF SeedComparison, ExampleStates
    <3> QED
      BY <1>10, <3>1 DEF ExampleStates
  <2> QED
    BY <2>1, <2>2
<1>12. /\ it.version[Telemetry].of = stamp
       /\ it.fetched = IF version[Telemetry] = Nothing THEN it.version[Telemetry].at
                       ELSE version[Telemetry].at
  BY <1>8, <1>11 DEF Agreed
<1>13. ASSUME NEW link \in ChainLinks, link.name \notin it.late PROVE Fits(it, link)
  <2>1. PICK j \in 1..Len(Chain) : link = Chain[j]
    BY <1>4 DEF ChainLinks
  <2> HIDE DEF it
  <2> QED
    BY <1>8, <1>11, <1>13, <2>1 DEF Agreed, Fits, OfFetched, Current
<1> QED
  BY <1>9, <1>11, <1>12, <1>13

-----------------------------------------------------------------------------
(* Starts and what happens between them.                                   *)

ExampleInv ==
  /\ stamp \in Nat /\ airborne \in SUBSET Flights
  /\ AtStart \in Sound(stamp, airborne)

LEMMA Composed ==
  ASSUME NEW moment \in Nat, NEW versions \in [ExampleTables -> Stamped],
         NEW ran \in [LinkNames -> [at : Nat, ok : BOOLEAN]],
         NEW scores \in [pinned : Nat, ran : Nat, failed : BOOLEAN], NEW lately \in SUBSET LinkNames
  PROVE  [clock |-> moment, version |-> versions, runs |-> ran, comparison |-> scores,
          late |-> lately, fetched |-> versions[Telemetry].at, gone |-> {}, over |-> FALSE]
            \in ExampleStates
<1>1. Telemetry \in ExampleTables
  BY Shapes
<1> QED
  BY <1>1 DEF ExampleStates, Stamped

LEMMA AtStartSays ==
  ASSUME AtStart \in Sound(stamp, airborne)
  PROVE  /\ clock \in Nat /\ version \in [ExampleTables -> Stamped]
         /\ runs \in [LinkNames -> [at : Nat, ok : BOOLEAN]]
         /\ comparison \in [pinned : Nat, ran : Nat, failed : BOOLEAN]
         /\ late \in SUBSET LinkNames
<1>1. AtStart \in ExampleStates
  BY DEF Sound
<1>2. /\ AtStart.clock = clock /\ AtStart.version = version /\ AtStart.runs = runs
      /\ AtStart.comparison = comparison /\ AtStart.late = late
  BY DEF AtStart
<1> QED
  BY <1>1, <1>2 DEF ExampleStates

(* The next start begins with nothing gone.                                *)
LEMMA Afresh ==
  ASSUME NEW written, NEW flying, NEW it \in Sound(written, flying)
  PROVE  [clock |-> it.clock, version |-> it.version, runs |-> it.runs,
          comparison |-> it.comparison, late |-> it.late, fetched |-> it.version[Telemetry].at,
          gone |-> {}, over |-> FALSE]
            \in Sound(written, flying)
<1> DEFINE after == [clock |-> it.clock, version |-> it.version, runs |-> it.runs,
                     comparison |-> it.comparison, late |-> it.late, fetched |-> it.version[Telemetry].at,
          gone |-> {}, over |-> FALSE]
<1>1. after \in ExampleStates
  BY Shapes DEF Sound, ExampleStates, Stamped
<1>2. /\ after.clock = it.clock /\ after.version = it.version /\ after.runs = it.runs
      /\ after.late = it.late /\ after.comparison = it.comparison
  OBVIOUS
<1> HIDE DEF after
<1>3. after \in Sound(written, flying)
  BY <1>1, <1>2 DEF Sound, Past, Young, Current, Reading
<1> QED
  BY <1>3 DEF after

LEMMA ExampleInvInit == ExampleInit => ExampleInv
<1> SUFFICES ASSUME ExampleInit PROVE ExampleInv
  OBVIOUS
<1> DEFINE it == AtStart
<1>1. /\ stamp = 1 /\ airborne = {} /\ it.clock = 2 /\ it.late = {} /\ it.gone = {} /\ it.over = FALSE
      /\ it.version = [t \in ExampleTables |-> Nothing] /\ it.runs = [l \in LinkNames |-> NoRun]
      /\ it.comparison = [pinned |-> 0, ran |-> 0, failed |-> FALSE]
  BY DEF ExampleInit, AtStart
<1>2. \A t \in ExampleTables : it.version[t].at = 0 /\ it.version[t].of = 0
  BY <1>1 DEF Nothing
<1>3. \A l \in LinkNames : it.runs[l].at = 0 /\ it.runs[l].ok = FALSE
  BY <1>1 DEF NoRun
<1>4. it \in ExampleStates
  BY Shapes DEF AtStart, ExampleInit, ExampleStates, Stamped, Nothing, NoRun
<1> HIDE DEF it
<1>5. Past(it, 1, {})
  BY <1>1, <1>2, <1>3 DEF Past
<1>6. ASSUME NEW link \in ChainLinks PROVE Current(it, link)
  BY <1>2, Shapes DEF Current
<1>7. it \in Sound(1, {})
  BY <1>1, <1>2, <1>4, <1>5, <1>6, Shapes DEF Sound
<1> QED
  BY <1>1, <1>7 DEF it, ExampleInv

LEMMA StartStep ==
  ASSUME ExampleInv, NEW failing, StartExample(failing)
  PROVE  AtStart' \in Sound(stamp, airborne) /\ stamp' = stamp /\ airborne' = airborne
<1> DEFINE it == SeedExample(failing)
<1>1. it \in Sound(stamp, airborne)
  BY ExampleSound DEF ExampleInv
<1>2. /\ clock' = it.clock /\ version' = it.version /\ runs' = it.runs
      /\ comparison' = it.comparison /\ late' = it.late
      /\ stamp' = stamp /\ airborne' = airborne
  BY DEF StartExample
<1> HIDE DEF it
<1> QED
  BY <1>1, <1>2, Afresh DEF AtStart

LEMMA RegenerateStep ==
  ASSUME ExampleInv, Regenerate
  PROVE  AtStart' \in Sound(clock, airborne) /\ stamp' = clock /\ airborne' = airborne
<1> DEFINE it == AtStart
           after == AtStart'
<1>1. /\ it \in Sound(stamp, airborne) /\ it \in ExampleStates /\ it.clock = clock /\ clock \in Nat
      /\ stamp \in Nat /\ airborne \in SUBSET Flights
  BY AtStartSays DEF ExampleInv, Sound, AtStart
<1>2. after = [clock |-> clock + 1, version |-> version, runs |-> runs,
               comparison |-> comparison, late |-> late, fetched |-> version[Telemetry].at,
               gone |-> {}, over |-> FALSE]
  BY DEF Regenerate, Happens, AtStart
<1>3. after \in ExampleStates
  BY <1>1, <1>2, AtStartSays, Composed DEF ExampleInv
<1>5. /\ after.clock = clock + 1 /\ after.version = it.version
      /\ after.runs = it.runs /\ after.late = it.late /\ after.comparison = it.comparison
  BY <1>2 DEF AtStart
<1> HIDE DEF it, after
<1>4. after \in Sound(clock, airborne)
  BY <1>1, <1>3, <1>5, Unwritten
<1> QED
  BY <1>4 DEF after, Regenerate

LEMMA RefreshTelemetryStep ==
  ASSUME ExampleInv, RefreshTelemetry
  PROVE  AtStart' \in Sound(stamp, airborne) /\ stamp' = stamp /\ airborne' = airborne
<1> DEFINE it == AtStart
           after == AtStart'
<1>1. /\ it \in Sound(stamp, airborne) /\ it \in ExampleStates /\ it.clock = clock /\ clock \in Nat
      /\ stamp \in Nat /\ airborne \in SUBSET Flights /\ version \in [ExampleTables -> Stamped]
      /\ stamp < clock
      /\ runs \in [LinkNames -> [at : Nat, ok : BOOLEAN]]
      /\ comparison \in [pinned : Nat, ran : Nat, failed : BOOLEAN] /\ late \in SUBSET LinkNames
  BY AtStartSays DEF ExampleInv, Sound, AtStart, Past
<1>2. /\ after.clock = clock + 1 /\ after.runs = runs /\ after.late = late
      /\ after.comparison = comparison /\ after.gone = {} /\ after.over = FALSE
      /\ after.version = [version EXCEPT ![Telemetry] = [at |-> clock, of |-> stamp]]
  BY DEF RefreshTelemetry, Happens, AtStart
<1>3. after \in ExampleStates
  <2>1. [version EXCEPT ![Telemetry] = [at |-> clock, of |-> stamp]] \in [ExampleTables -> Stamped]
    BY <1>1, Shapes DEF Stamped
  <2>2. after = [clock |-> clock + 1, version |-> after.version, runs |-> runs,
                 comparison |-> comparison, late |-> late, fetched |-> after.version[Telemetry].at,
                 gone |-> {}, over |-> FALSE]
    BY DEF RefreshTelemetry, Happens, AtStart
  <2> HIDE DEF after, it
  <2>3. clock + 1 \in Nat /\ after.version \in [ExampleTables -> Stamped]
    BY <1>1, <1>2, <2>1
  <2> QED
    BY <1>1, <2>2, <2>3, Composed
<1>4. /\ it.runs = runs /\ it.late = late /\ it.comparison = comparison /\ it.version = version
  BY DEF AtStart
<1>5. /\ after.version[Telemetry] = [at |-> clock, of |-> stamp]
      /\ \A u \in ExampleTables : u # Telemetry => after.version[u] = it.version[u]
  BY <1>1, <1>2, <1>4, Shapes
<1>6. Telemetry \in ExampleTables /\ Telemetry \notin LinkNames
  BY Shapes DEF LinkNames
<1>7. \A link \in ChainLinks : link.name # Telemetry
  BY Shapes
<1> HIDE DEF it, after
<1>8. after \in Sound(stamp, airborne)
  <2>1. /\ after.version[Telemetry].at >= it.clock /\ after.version[Telemetry].at < after.clock
        /\ after.version[Telemetry].of <= after.version[Telemetry].at
        /\ after.version[Telemetry].of = stamp
    BY <1>1, <1>2, <1>5
  <2>2. /\ \A l \in LinkNames : after.runs[l] = it.runs[l] /\ (l \in it.late => l \in after.late)
        /\ after.comparison = it.comparison
    BY <1>2, <1>4
  <2> QED
    BY <1>1, <1>3, <1>5, <1>6, <1>7, <2>1, <2>2, Rewritten
<1> QED
  BY <1>8 DEF after, RefreshTelemetry

LEMMA LaunchStep ==
  ASSUME ExampleInv, NEW link \in ChainLinks, Launch(link)
  PROVE  /\ AtStart' \in Sound(stamp, airborne') /\ stamp' = stamp
         /\ airborne' \in SUBSET Flights
<1> DEFINE it == AtStart
           after == AtStart'
           run == [link |-> link, began |-> clock, read |-> version[link.input].at]
<1>1. /\ it \in Sound(stamp, airborne) /\ it \in ExampleStates /\ it.clock = clock /\ clock \in Nat
      /\ stamp \in Nat /\ airborne \in SUBSET Flights /\ version \in [ExampleTables -> Stamped]
      /\ runs \in [LinkNames -> [at : Nat, ok : BOOLEAN]] /\ Past(it, stamp, airborne)
      /\ comparison \in [pinned : Nat, ran : Nat, failed : BOOLEAN] /\ late \in SUBSET LinkNames
  BY AtStartSays DEF ExampleInv, Sound, AtStart
<1>2. link.name \in LinkNames /\ link.input \in ExampleTables
  BY Shapes
<1>3. /\ after.clock = clock + 1 /\ after.version = version /\ after.late = late
      /\ after.comparison = comparison /\ after.gone = {} /\ after.over = FALSE
      /\ after.runs = [runs EXCEPT ![link.name] = [at |-> clock, ok |-> FALSE]]
      /\ airborne' = airborne \cup {run}
  BY DEF Launch, Happens, AtStart
<1>4. it.runs = runs /\ it.late = late /\ it.comparison = comparison /\ it.version = version
  BY DEF AtStart
<1>5. after \in ExampleStates
  <2>1. [runs EXCEPT ![link.name] = [at |-> clock, ok |-> FALSE]]
          \in [LinkNames -> [at : Nat, ok : BOOLEAN]]
    BY <1>1, <1>2
  <2>2. after = [clock |-> clock + 1, version |-> version, runs |-> after.runs,
                 comparison |-> comparison, late |-> late, fetched |-> version[Telemetry].at,
                 gone |-> {}, over |-> FALSE]
    BY DEF Launch, Happens, AtStart
  <2> HIDE DEF after, it
  <2>3. clock + 1 \in Nat /\ after.runs \in [LinkNames -> [at : Nat, ok : BOOLEAN]]
    BY <1>1, <1>3, <2>1
  <2> QED
    BY <1>1, <2>2, <2>3, Composed
<1>6. ASSUME NEW l \in LinkNames
      PROVE  after.runs[l] = it.runs[l] \/ (~after.runs[l].ok /\ after.runs[l].at < after.clock)
  <2>1. CASE l = link.name
    <3>1. after.runs[l] = [at |-> clock, ok |-> FALSE]
      BY <1>1, <1>3, <2>1
    <3> HIDE DEF after
    <3> QED
      BY <1>1, <1>3, <3>1
  <2>2. CASE l # link.name
    BY <1>1, <1>3, <1>4, <2>2
  <2> QED
    BY <2>1, <2>2
<1>7. version[link.input].at \in Nat /\ version[link.input].at < clock
  BY <1>1, <1>2, <1>4 DEF Past, Stamped
<1>8. /\ run \in Flights /\ run.began < after.clock /\ run.read < after.clock /\ Reading(after, run)
  <2>1. run.began = clock /\ run.read = version[link.input].at /\ run.link = link
    OBVIOUS
  <2>2. run \in Flights
    BY <1>1, <1>7 DEF Flights
  <2> HIDE DEF after, run
  <2> QED
    BY <1>1, <1>3, <1>7, <2>1, <2>2 DEF Reading
<1>9. stamp < after.clock
  BY <1>1, <1>3 DEF Past
<1> HIDE DEF it, after, run
<1>10. after \in Sound(stamp, airborne')
  <2> DEFINE aloft == airborne'
  <2>1. aloft \in SUBSET Flights /\ \A other \in aloft : other \in airborne \/ other = run
    BY <1>1, <1>3, <1>8
  <2> HIDE DEF aloft
  <2>2. /\ after.clock >= it.clock /\ after.version = it.version
        /\ after.late = it.late /\ after.comparison = it.comparison
    BY <1>1, <1>3, <1>4
  <2>3. \A other \in aloft :
          \/ other \in airborne
          \/ other.began < after.clock /\ other.read < after.clock /\ Reading(after, other)
    BY <1>8, <2>1
  <2>4. after \in Sound(stamp, aloft)
    BY <1>1, <1>5, <1>6, <1>9, <2>1, <2>2, <2>3, Unwritten
  <2> QED
    BY <2>4 DEF aloft
<1> QED
  BY <1>1, <1>3, <1>8, <1>10 DEF after, Launch

(* A run that ends well and is not found to have been overtaken is either of
   what is there or too old to be reused.                                  *)
LEMMA LandStep ==
  ASSUME ExampleInv, NEW run \in airborne, NEW ok \in BOOLEAN, Land(run, ok)
  PROVE  /\ AtStart' \in Sound(stamp, airborne') /\ stamp' = stamp
         /\ airborne' \in SUBSET Flights
<1> DEFINE it == AtStart
           after == AtStart'
           l == run.link.name
           ended == IF runs[l].ok \/ runs[l].at # run.began THEN runs[l].ok ELSE ok
           aloft == airborne'
<1>1. /\ it \in Sound(stamp, airborne) /\ it \in ExampleStates /\ it.clock = clock /\ clock \in Nat
      /\ stamp \in Nat /\ airborne \in SUBSET Flights /\ version \in [ExampleTables -> Stamped]
      /\ runs \in [LinkNames -> [at : Nat, ok : BOOLEAN]] /\ Past(it, stamp, airborne)
      /\ comparison \in [pinned : Nat, ran : Nat, failed : BOOLEAN] /\ late \in SUBSET LinkNames
  BY AtStartSays DEF ExampleInv, Sound, AtStart
<1>2. /\ run.link \in ChainLinks /\ run.began \in Nat /\ run.read \in Nat
      /\ run.began < clock /\ run.read < clock /\ Reading(it, run)
  BY <1>1 DEF Flights, Past, Sound
<1>3. /\ l \in LinkNames /\ l \in ExampleTables /\ l # Telemetry
      /\ run.link.input \in ExampleTables /\ run.link.input # l
      /\ \A link \in ChainLinks : link.name = l => link = run.link
  BY <1>2, Shapes
<1>4. it.runs = runs /\ it.late = late /\ it.comparison = comparison /\ it.version = version
  BY DEF AtStart
<1>5. /\ after.clock = clock + 1 /\ after.comparison = comparison
      /\ after.runs = [runs EXCEPT ![l].ok = ended]
      /\ after.version = IF ok THEN [version EXCEPT ![l] = [at |-> clock, of |-> run.read]] ELSE version
      /\ after.late = IF ~ok THEN late ELSE IF Overtaken(run) THEN late \cup {l} ELSE late \ {l}
      /\ aloft = airborne \ {run} /\ stamp' = stamp
  BY DEF Land, AtStart
<1>6. ended \in BOOLEAN /\ runs[l].at \in Nat /\ runs[l].at < clock
  BY <1>1, <1>3, <1>4 DEF Past
<1>7. /\ after.runs \in [LinkNames -> [at : Nat, ok : BOOLEAN]]
      /\ after.runs[l].at = runs[l].at /\ after.runs[l].ok = ended
      /\ \A other \in LinkNames : other # l => after.runs[other] = runs[other]
  <2> HIDE DEF ended, after, l
  <2> QED
    BY <1>1, <1>3, <1>5, <1>6
<1>8. after.version \in [ExampleTables -> Stamped]
  <2> HIDE DEF after, l
  <2> QED
    BY <1>1, <1>2, <1>3, <1>5 DEF Stamped
<1>9. after.late \in SUBSET LinkNames
  <2> HIDE DEF after, l
  <2> QED
    BY <1>1, <1>3, <1>5
<1>10. after \in ExampleStates
  <2>1. after = [clock |-> after.clock, version |-> after.version, runs |-> after.runs,
                 comparison |-> after.comparison, late |-> after.late,
                 fetched |-> after.version[Telemetry].at, gone |-> {}, over |-> FALSE]
    BY DEF AtStart
  <2>2. after.clock \in Nat /\ after.comparison \in [pinned : Nat, ran : Nat, failed : BOOLEAN]
    BY <1>1, <1>5
  <2> HIDE DEF after
  <2> QED
    BY <1>7, <1>8, <1>9, <2>1, <2>2, Composed
<1>11. aloft \in SUBSET Flights /\ aloft \in SUBSET airborne
  BY <1>1, <1>5
<1> HIDE DEF it, after, aloft
<1>12. CASE ~ok
  <2>1. after.version = it.version /\ after.late = it.late /\ after.comparison = it.comparison
    BY <1>4, <1>5, <1>12
  <2>2. after.clock >= it.clock /\ stamp < after.clock
    BY <1>1, <1>5 DEF Past
  <2>3. ASSUME NEW other \in LinkNames
        PROVE  \/ after.runs[other] = it.runs[other]
               \/ ~after.runs[other].ok /\ after.runs[other].at < after.clock
    <3>1. CASE other # l
      BY <1>4, <1>7, <3>1
    <3>2. CASE other = l /\ ended = runs[l].ok
      <4>1. after.runs[l] = runs[l]
        <5>1. runs[l] \in [at : Nat, ok : BOOLEAN] /\ after.runs[l] \in [at : Nat, ok : BOOLEAN]
          BY <1>1, <1>3, <1>7
        <5> HIDE DEF ended, l
        <5> QED
          BY <1>7, <3>2, <5>1
      <4> QED
        BY <1>4, <3>2, <4>1
    <3>3. CASE other = l /\ ended # runs[l].ok
      <4>1. ~ended
        BY <1>12, <3>3
      <4> HIDE DEF ended, l
      <4> QED
        BY <1>1, <1>5, <1>6, <1>7, <3>3, <4>1
    <3> QED
      BY <3>1, <3>2, <3>3
  <2> HIDE DEF l, ended
  <2>4. after \in Sound(stamp, aloft)
    BY <1>1, <1>10, <1>11, <2>1, <2>2, <2>3, Unwritten
  <2> QED
    BY <1>5, <1>11, <2>4 DEF after, aloft
<1>13. CASE ok
  <2>1. /\ after.version[l] = [at |-> clock, of |-> run.read]
        /\ \A u \in ExampleTables : u # l => after.version[u] = it.version[u]
    <3> HIDE DEF l
    <3> QED
      BY <1>1, <1>3, <1>4, <1>5, <1>13
  <2>2. /\ after.version[l].at >= it.clock /\ after.version[l].at < after.clock
        /\ after.version[l].of <= after.version[l].at
    BY <1>1, <1>2, <1>5, <2>1
  <2>3. /\ \A other \in LinkNames :
             other # l => after.runs[other] = it.runs[other]
                          /\ (other \in it.late => other \in after.late)
        /\ after.comparison = it.comparison
    <3> HIDE DEF l
    <3> QED
      BY <1>4, <1>5, <1>7, <1>13
  <2>4. ASSUME l \notin after.late, Young(after, run.link) PROVE Current(after, run.link)
    <3>1. ~Overtaken(run)
      BY <1>5, <1>13, <2>4
    <3>2. after.version[run.link.input] = version[run.link.input]
      BY <1>3, <1>4, <2>1
    <3>3. CASE run.read = version[run.link.input].at
      BY <2>1, <3>2, <3>3 DEF Current
    <3>4. CASE run.read # version[run.link.input].at
      <4>1. run.link.model \in BOOLEAN /\ version[run.link.input].at \in Nat
        BY <1>1, <1>2, <1>3, Shapes DEF Stamped
      <4>2. ~run.link.model /\ runs[l].at = run.began
        BY <3>1, <3>4, <4>1 DEF Overtaken
      <4>3. run.began < version[run.link.input].at
        BY <1>2, <1>4, <3>4 DEF Reading
      <4>4. after.runs[l].at >= after.version[run.link.input].at
        BY <2>4, <4>2 DEF Young
      <4> QED
        BY <1>2, <1>7, <3>2, <4>1, <4>2, <4>3, <4>4
    <3> QED
      BY <3>3, <3>4
  <2>5. ASSUME NEW link \in ChainLinks, link.name = l, l \notin after.late, Young(after, link)
        PROVE  Current(after, link)
    BY <1>3, <2>4, <2>5
  <2>6. after.runs[l].at < after.clock
    BY <1>1, <1>5, <1>6, <1>7
  <2> HIDE DEF l, ended
  <2>7. after \in Sound(stamp, aloft)
    BY <1>1, <1>3, <1>10, <1>11, <2>1, <2>2, <2>3, <2>5, <2>6, Rewritten
  <2> QED
    BY <1>5, <1>11, <2>7 DEF after, aloft
<1> QED
  BY <1>12, <1>13

LEMMA ExampleInvNext == ExampleInv /\ [ExampleNext]_exampleVars => ExampleInv'
<1> SUFFICES ASSUME ExampleInv, [ExampleNext]_exampleVars PROVE ExampleInv'
  OBVIOUS
<1>1. CASE \E failing \in Failures : StartExample(failing)
  BY <1>1, StartStep DEF ExampleInv
<1>2. CASE Regenerate
  <2>1. clock \in Nat
    BY AtStartSays DEF ExampleInv
  <2> QED
    BY <1>2, <2>1, RegenerateStep DEF ExampleInv
<1>3. CASE RefreshTelemetry
  BY <1>3, RefreshTelemetryStep DEF ExampleInv
<1>4. CASE \E link \in ChainLinks : Launch(link)
  BY <1>4, LaunchStep DEF ExampleInv
<1>5. CASE \E run \in airborne, ok \in BOOLEAN : Land(run, ok)
  BY <1>5, LandStep DEF ExampleInv
<1>6. CASE UNCHANGED exampleVars
  BY <1>6 DEF ExampleInv, exampleVars, AtStart
<1> QED
  BY <1>1, <1>2, <1>3, <1>4, <1>5, <1>6 DEF ExampleNext

(* Whatever people run between starts, and whatever fails: what the example
   reuses of its own accord is of what it would be made of again.          *)
THEOREM ExampleInvariance == ExampleSpec => []ExampleInv
<1> QED
  BY ExampleInvInit, ExampleInvNext, PTL DEF ExampleSpec

(* Everything the example keeps is of the past (ExampleTypeOK).            *)
THEOREM ExampleTypeCorrect == ExampleSpec => []ExampleTypeOK
<1>1. ExampleInv => ExampleTypeOK
  <2> SUFFICES ASSUME ExampleInv PROVE ExampleTypeOK
    OBVIOUS
  <2>1. Past(AtStart, stamp, airborne) /\ version \in [ExampleTables -> Stamped]
    BY AtStartSays DEF ExampleInv, Sound
  <2>2. AtStart.clock = clock /\ AtStart.version = version
    BY DEF AtStart
  <2> QED
    BY <2>1, <2>2 DEF Past, ExampleTypeOK
<1> QED
  BY <1>1, ExampleInvariance, PTL

(* A start in which nothing fails leaves a chain that agrees with itself,
   for any chain of pipelines and models and whatever happened before.     *)
THEOREM ChainAgreesHolds == ExampleSpec => ChainAgrees
<1>1. ExampleInv /\ [ExampleNext]_exampleVars => [StartExample({}) => AgreesNow]_exampleVars
  <2> SUFFICES ASSUME ExampleInv, StartExample({}) PROVE AgreesNow
    OBVIOUS
  <2> DEFINE it == SeedExample({})
  <2>1. version' = it.version /\ late' = it.late /\ comparison' = it.comparison
    BY DEF StartExample
  <2>2. /\ it.version[Telemetry].of = stamp
        /\ it.fetched = IF version[Telemetry] = Nothing THEN it.version[Telemetry].at
                        ELSE version[Telemetry].at
        /\ \A link \in ChainLinks : link.name \notin it.late => Fits(it, link)
        /\ it.comparison.pinned = it.version[Featured].at
        /\ it.comparison.ran = it.comparison.pinned \/ it.comparison.failed
    BY ExampleAgrees DEF ExampleInv
  <2> HIDE DEF it
  <2>3. it.fetched = VersionFound
    BY <2>1, <2>2 DEF VersionFound
  <2> QED
    BY <2>1, <2>2, <2>3 DEF AgreesNow, Fits, Current, OfFetched
<1> QED
  BY <1>1, ExampleInvariance, PTL DEF ExampleSpec, ChainAgrees
-----------------------------------------------------------------------------
(* A dashboard's tiles.                                                    *)

Sizes == (3 .. 12) \X (2 .. 12)
Tile == [x : 0 .. 12, y : Nat, width : 3 .. 12, height : 2 .. 12]
Start == [placed |-> <<>>, x |-> 0, y |-> 0, high |-> 0]

(* Where a re-flow has got to: what it placed is on the grid, apart, and above
   or to the left of where it will place the next one.                     *)
Behind(tile, so) ==
  \/ tile.y + tile.height <= so.y
  \/ tile.y = so.y /\ tile.x + tile.width <= so.x /\ tile.height <= so.high
Clear(ts) == /\ \A i \in DOMAIN ts : ts[i].x + ts[i].width <= GridColumns
             /\ \A i, j \in DOMAIN ts : i # j => ~Overlap(ts[i], ts[j])
Laid == {so \in [placed : Seq(Tile), x : 0 .. 12, y : Nat, high : 0 .. 12] :
           /\ Clear(so.placed)
           /\ \A i \in DOMAIN so.placed : Behind(so.placed[i], so)
           /\ so.high = 0 => so.x = 0}

LEMMA GreaterOfTwo ==
  ASSUME NEW a \in Int, NEW b \in Int
  PROVE  Max({a, b}) = IF a >= b THEN a ELSE b
BY DEF Max

LEMMA LesserOfTwo ==
  ASSUME NEW a \in Int, NEW b \in Int
  PROVE  Min({a, b}) = IF a <= b THEN a ELSE b
BY DEF Min

(* A tile that is placed lies ahead of what is behind.                     *)
LEMMA PlacedApart ==
  ASSUME NEW so \in Laid, NEW tile \in Tile, NEW i \in DOMAIN so.placed, NEW placed \in Tile,
         \/ placed.x = so.x /\ placed.y = so.y
         \/ so.high # 0 /\ placed.x = 0 /\ placed.y = so.y + so.high
  PROVE  ~Overlap(so.placed[i], placed) /\ ~Overlap(placed, so.placed[i])
<1>1. so.placed[i] \in Tile /\ Behind(so.placed[i], so)
  <2>1. so.placed \in Seq(Tile)
    BY DEF Laid
  <2> QED
    BY <2>1, ElementOfSeq, LenProperties DEF Laid
<1>2. so.x \in Nat /\ so.y \in Nat /\ so.high \in Nat
  BY DEF Laid
<1> DEFINE p == so.placed[i]
<1>3. /\ p.x \in Nat /\ p.y \in Nat /\ p.width \in Nat /\ p.height \in Nat
      /\ p.width > 0 /\ p.height > 0
  BY <1>1 DEF Tile
<1>4. /\ placed.x \in Nat /\ placed.y \in Nat /\ placed.width \in Nat /\ placed.height \in Nat
  BY DEF Tile
<1> HIDE DEF p
<1>5. Behind(p, so)
  BY <1>1 DEF p
<1>6. ~Overlap(p, placed) /\ ~Overlap(placed, p)
  BY <1>2, <1>3, <1>4, <1>5 DEF Behind, Overlap
<1> QED
  BY <1>6 DEF p

(* A re-flow stays laid.                                                   *)
LEMMA FlowStays ==
  ASSUME NEW so \in Laid, NEW tile \in Tile
  PROVE  Flow(so, tile) \in Laid
<1> DEFINE wraps == so.x + tile.width > GridColumns
           x == IF wraps THEN 0 ELSE so.x
           y == IF ~wraps THEN so.y ELSE so.y + so.high
           base == IF wraps THEN 0 ELSE so.high
           high == IF base >= tile.height THEN base ELSE tile.height
           new == [tile EXCEPT !.x = x, !.y = y]
           after == [placed |-> Append(so.placed, new), x |-> x + tile.width, y |-> y, high |-> high]
<1>1. /\ so.x \in Nat /\ so.y \in Nat /\ so.high \in Nat
      /\ tile.width \in Nat /\ tile.height \in Nat
      /\ so.x <= 12 /\ so.high <= 12 /\ tile.width <= 12 /\ tile.height <= 12 /\ tile.height > 0
  <2>1. so.x \in Nat /\ so.y \in Nat /\ so.high \in Nat
    BY DEF Laid
  <2>2. so.x <= 12 /\ so.high <= 12
    BY DEF Laid
  <2>3. tile.width \in Nat /\ tile.height \in Nat
    BY DEF Tile
  <2>4. tile.width <= 12 /\ tile.height <= 12
    BY DEF Tile
  <2>5. tile.height > 0
    BY DEF Tile
  <2> QED
    BY <2>1, <2>2, <2>3, <2>4, <2>5
<1>2. wraps => so.high # 0
  <2>1. so.high = 0 => so.x = 0
    BY DEF Laid
  <2> QED
    BY <1>1, <2>1 DEF GridColumns
<1>3. /\ x \in 0 .. 12 /\ y \in Nat /\ x + tile.width \in 0 .. 12 /\ base \in 0 .. 12
      /\ high \in 1 .. 12 /\ high >= base /\ high >= tile.height
      /\ \A px, py, pw, ph \in Nat :
           py + ph <= so.y \/ (py = so.y /\ px + pw <= so.x /\ ph <= so.high)
             => py + ph <= y \/ (py = y /\ px + pw <= x + tile.width /\ ph <= high)
  <2>1. \/ so.x + tile.width > 12 /\ x = 0 /\ y = so.y + so.high /\ base = 0
        \/ so.x + tile.width <= 12 /\ x = so.x /\ y = so.y /\ base = so.high
    <3>1. CASE wraps
      BY <3>1 DEF GridColumns
    <3>2. CASE ~wraps
      <4>1. x = so.x /\ y = so.y /\ base = so.high
        BY <3>2
      <4>2. ~(so.x + tile.width > 12)
        BY <3>2 DEF GridColumns
      <4> HIDE DEF x, y, base, wraps
      <4> QED
        BY <1>1, <4>1, <4>2
    <3> QED
      BY <3>1, <3>2
  <2>2. base \in Nat
    <3> HIDE DEF x, y, wraps, base
    <3> QED
      BY <1>1, <2>1
  <2>3. \/ base >= tile.height /\ high = base
        \/ base < tile.height /\ high = tile.height
    <3> HIDE DEF x, y, wraps, base
    <3> QED
      BY <1>1, <2>2
  <2> HIDE DEF x, y, wraps, base, high
  <2>4. /\ x \in 0 .. 12 /\ y \in Nat /\ x + tile.width \in 0 .. 12 /\ base \in 0 .. 12
        /\ high \in 1 .. 12 /\ high >= base /\ high >= tile.height
    <3>1. x \in Nat /\ y \in Nat /\ x + tile.width \in Nat
      BY <1>1, <2>1
    <3>2. x <= 12 /\ x + tile.width <= 12
      BY <1>1, <2>1
    <3>3. base \in Nat /\ base <= 12
      BY <1>1, <2>1
    <3>4. high \in Nat /\ high > 0 /\ high <= 12 /\ high >= base /\ high >= tile.height
      BY <1>1, <2>3, <3>3
    <3> QED
      BY <3>1, <3>2, <3>3, <3>4
  <2>5. ASSUME NEW px \in Nat, NEW py \in Nat, NEW pw \in Nat, NEW ph \in Nat,
               py + ph <= so.y \/ (py = so.y /\ px + pw <= so.x /\ ph <= so.high)
        PROVE  py + ph <= y \/ (py = y /\ px + pw <= x + tile.width /\ ph <= high)
    BY <1>1, <2>1, <2>3, <2>5
  <2> QED
    BY <2>4, <2>5
<1>4. Max({base, tile.height}) = high
  <2>1. base \in Int /\ tile.height \in Int
    BY <1>1, <1>3
  <2> HIDE DEF base
  <2> QED
    BY <2>1, GreaterOfTwo
<1>5. new \in Tile /\ new.x = x /\ new.y = y /\ new.width = tile.width /\ new.height = tile.height
  BY <1>3 DEF Tile
<1>6. Flow(so, tile) = after
  BY <1>2, <1>4 DEF Flow
<1>7. so.placed \in Seq(Tile)
  BY DEF Laid
<1>8. /\ Append(so.placed, new) \in Seq(Tile) /\ DOMAIN so.placed = 1 .. Len(so.placed)
      /\ Len(so.placed) \in Nat
      /\ DOMAIN Append(so.placed, new) = 1 .. (Len(so.placed) + 1)
      /\ \A i \in 1 .. Len(so.placed) : Append(so.placed, new)[i] = so.placed[i]
      /\ Append(so.placed, new)[Len(so.placed) + 1] = new
  <2> HIDE DEF new
  <2> QED
    BY <1>5, <1>7
<1>9. \A i \in DOMAIN so.placed : ~Overlap(so.placed[i], new) /\ ~Overlap(new, so.placed[i])
  <2>1. \/ new.x = so.x /\ new.y = so.y
        \/ so.high # 0 /\ new.x = 0 /\ new.y = so.y + so.high
    BY <1>2, <1>5
  <2> HIDE DEF new
  <2> QED
    BY <1>5, <2>1, PlacedApart
<1>10. \A i \in DOMAIN so.placed : so.placed[i] \in Tile /\ Behind(so.placed[i], so)
  BY <1>8, <1>7, ElementOfSeq DEF Laid
<1>11. Clear(so.placed)
  BY DEF Laid
<1>12. Clear(after.placed)
  <2>1. new.x + new.width <= GridColumns
    <3> HIDE DEF new, x
    <3> QED
      BY <1>1, <1>3, <1>5 DEF GridColumns
  <2> HIDE DEF new, x, y, high
  <2>2. ASSUME NEW i \in 1 .. (Len(so.placed) + 1)
        PROVE  \/ i \in DOMAIN so.placed /\ after.placed[i] = so.placed[i]
               \/ i = Len(so.placed) + 1 /\ after.placed[i] = new
    BY <1>8
  <2>3. \A i \in DOMAIN after.placed : after.placed[i].x + after.placed[i].width <= GridColumns
    BY <1>8, <1>11, <2>1, <2>2 DEF Clear
  <2>4. ASSUME NEW i \in DOMAIN after.placed, NEW j \in DOMAIN after.placed, i # j
        PROVE  ~Overlap(after.placed[i], after.placed[j])
    BY <1>8, <1>9, <1>11, <2>2, <2>4 DEF Clear
  <2> QED
    BY <2>3, <2>4 DEF Clear
<1>13. ASSUME NEW i \in DOMAIN after.placed PROVE Behind(after.placed[i], after)
  <2>1. CASE i = Len(so.placed) + 1
    <3>1. after.placed[i] = new
      BY <1>8, <2>1
    <3>2. new.y = after.y /\ new.x + new.width <= after.x /\ new.height <= after.high
      <4>1. after.y = y /\ after.x = x + tile.width /\ after.high = high
        OBVIOUS
      <4> HIDE DEF after, new, x, y, high, base
      <4> QED
        BY <1>1, <1>3, <1>5, <4>1
    <3> QED
      BY <3>1, <3>2 DEF Behind
  <2>2. CASE i \in DOMAIN so.placed
    <3> DEFINE p == so.placed[i]
    <3>1. after.placed[i] = p /\ p \in Tile /\ Behind(p, so)
      BY <1>8, <1>10, <2>2
    <3>2. p.x \in Nat /\ p.y \in Nat /\ p.width \in Nat /\ p.height \in Nat
      <4> HIDE DEF p
      <4> QED
        BY <3>1 DEF Tile
    <3> HIDE DEF p
    <3>3. p.y + p.height <= y \/ (p.y = y /\ p.x + p.width <= x + tile.width /\ p.height <= high)
      <4> HIDE DEF x, y, wraps, base, high
      <4> QED
        BY <1>3, <3>1, <3>2 DEF Behind
    <3> QED
      BY <3>1, <3>3 DEF Behind
  <2> QED
    BY <1>8, <2>1, <2>2
<1>14. after \in [placed : Seq(Tile), x : 0 .. 12, y : Nat, high : 0 .. 12] /\ after.high # 0
  BY <1>3, <1>8
<1> HIDE DEF after
<1> QED
  BY <1>6, <1>12, <1>13, <1>14 DEF Laid

(* A re-flow goes through the tiles one by one.                            *)
LEMMA RelayoutClears ==
  ASSUME NEW ts \in Seq(Tile)
  PROVE  Relayout(ts) \in Seq(Tile) /\ Clear(Relayout(ts))
<1> DEFINE n == Len(ts)
           H == [i \in 1..n |-> [v \in Laid |-> Flow(v, ts[i])]]
           Table(g) == g = [s \in SUBSET (DOMAIN ts) |->
                              IF s = {} THEN Start ELSE Flow(g[s \ {Max(s)}], ts[Max(s)])]
<1>1. n \in Nat /\ DOMAIN ts = 1..n /\ \A i \in 1..n : ts[i] \in Tile
  BY LenProperties, ElementOfSeq
<1>2. Start \in Laid
  <2>1. <<>> \in Seq(Tile) /\ DOMAIN <<>> = {}
    BY EmptySeq
  <2>2. Clear(<<>>)
    BY <2>1 DEF Clear
  <2> QED
    BY <2>1, <2>2 DEF Laid, Start
<1>3. \A v \in Laid, i \in 1..n : Flow(v, ts[i]) \in Laid
  BY <1>1, FlowStays
<1>4. H \in [1..n -> [Laid -> Laid]]
  BY <1>3
<1>5. PICK f \in [SUBSET (1..n) -> Laid] : IsTable(f, n, Start, H)
  <2> HIDE DEF H, n
  <2> QED
    BY <1>1, <1>2, <1>4, FoldTable
<1>6. Table(f)
  <2>1. ASSUME NEW s \in SUBSET (1..n), s # {}
        PROVE  H[Max(s)][f[s \ {Max(s)}]] = Flow(f[s \ {Max(s)}], ts[Max(s)])
    <3>1. Max(s) \in 1..n
      <4> HIDE DEF n
      <4> QED
        BY <1>1, <2>1, GreatestIsIn
    <3>2. f[s \ {Max(s)}] \in Laid
      OBVIOUS
    <3> QED
      BY <3>1, <3>2
  <2> HIDE DEF H, n
  <2> QED
    BY <1>1, <1>5, <2>1 DEF IsTable
<1>7. PICK g : Table(g) /\ Relayout(ts) = g[DOMAIN ts].placed
  BY <1>6 DEF Relayout, FoldLeft, MapThenFoldSet, Start
<1>8. g[{}] = Start
  BY <1>7
<1>9. ASSUME NEW i \in 1..n PROVE g[1..i] = Flow(g[1..(i - 1)], ts[i])
  <2>1. 1..i \in SUBSET (1..n) /\ 1..i # {} /\ Max(1..i) = i /\ (1..i) \ {i} = 1..(i - 1)
    <3> HIDE DEF n
    <3> QED
      BY <1>1, UpTo
  <2> HIDE DEF n
  <2> QED
    BY <1>1, <1>7, <2>1
<1>10. \A i \in 0..n : g[1..i] \in Laid
  <2>1. \A i \in 1..n : g[1..(i - 1)] \in Laid => g[1..i] \in Laid
    BY <1>3, <1>9
  <2> HIDE DEF n
  <2> QED
    BY <1>1, <1>2, <1>8, <2>1, TableStays
<1>11. g[DOMAIN ts] \in Laid
  BY <1>1, <1>10
<1> QED
  BY <1>7, <1>11 DEF Laid

LEMMA Taken ==
  ASSUME NEW ts \in Seq(Tile), NEW i \in DOMAIN ts
  PROVE  RemoveAt(ts, i) \in Seq(Tile) /\ Len(RemoveAt(ts, i)) = Len(ts) - 1
<1>1. Len(ts) \in Nat /\ DOMAIN ts = 1 .. Len(ts) /\ \A j \in 1 .. Len(ts) : ts[j] \in Tile
  BY LenProperties, ElementOfSeq
<1>2. SubSeq(ts, 1, i - 1) \in Seq(Tile) /\ Len(SubSeq(ts, 1, i - 1)) = i - 1
  <2>1. \A j \in 1 .. (i - 1) : ts[j] \in Tile
    BY <1>1
  <2>2. i \in Int /\ 1 \in Int /\ i - 1 \in Int /\ (IF 1 <= i - 1 THEN (i - 1) - 1 + 1 ELSE 0) = i - 1
    BY <1>1
  <2> QED
    BY <2>1, <2>2, SubSeqProperties
<1>3. SubSeq(ts, i + 1, Len(ts)) \in Seq(Tile) /\ Len(SubSeq(ts, i + 1, Len(ts))) = Len(ts) - i
  <2>1. \A j \in (i + 1) .. Len(ts) : ts[j] \in Tile
    BY <1>1
  <2>2. i + 1 \in Int /\ Len(ts) \in Int
        /\ (IF i + 1 <= Len(ts) THEN Len(ts) - (i + 1) + 1 ELSE 0) = Len(ts) - i
    BY <1>1
  <2> QED
    BY <2>1, <2>2, SubSeqProperties
<1>4. i - 1 + (Len(ts) - i) = Len(ts) - 1
  BY <1>1
<1> DEFINE before == SubSeq(ts, 1, i - 1)
           after == SubSeq(ts, i + 1, Len(ts))
<1>5. before \o after \in Seq(Tile) /\ Len(before \o after) = Len(before) + Len(after)
  <2> HIDE DEF before, after
  <2> QED
    BY <1>2, <1>3, ConcatProperties DEF before, after
<1>6. RemoveAt(ts, i) = before \o after
  BY DEF RemoveAt
<1> HIDE DEF before, after
<1> QED
  BY <1>2, <1>3, <1>4, <1>5, <1>6 DEF before, after

LEMMA Inserted ==
  ASSUME NEW ts \in Seq(Tile), NEW i \in 1 .. (Len(ts) + 1), NEW tile \in Tile
  PROVE  InsertAt(ts, i, tile) \in Seq(Tile)
<1>1. Len(ts) \in Nat /\ \A j \in 1 .. Len(ts) : ts[j] \in Tile
  BY LenProperties, ElementOfSeq
<1>2. i \in Int /\ i - 1 \in Int /\ i - 1 <= Len(ts) /\ Len(ts) \in Int /\ i >= 1
  BY <1>1
<1>3. SubSeq(ts, 1, i - 1) \in Seq(Tile)
  <2>1. \A j \in 1 .. (i - 1) : ts[j] \in Tile
    BY <1>1, <1>2
  <2> QED
    BY <1>2, <2>1, SubSeqProperties
<1>4. SubSeq(ts, i, Len(ts)) \in Seq(Tile)
  <2>1. \A j \in i .. Len(ts) : ts[j] \in Tile
    BY <1>1, <1>2
  <2> QED
    BY <1>2, <2>1, SubSeqProperties
<1>5. <<tile>> \in Seq(Tile)
  OBVIOUS
<1>6. SubSeq(ts, 1, i - 1) \o <<tile>> \in Seq(Tile)
  BY <1>3, <1>5, ConcatProperties
<1> QED
  BY <1>4, <1>6, ConcatProperties DEF InsertAt

ChartInv ==
  /\ plotted \in Seq([x : Categories, band : Bands, y : Measures \cup {NoNumber}])
  /\ tiles \in Seq(Tile) /\ relaid \in BOOLEAN
  /\ relaid => Clear(tiles)

LEMMA ChartInitially == ChartInit => ChartInv
<1> SUFFICES ASSUME ChartInit PROVE ChartInv
  OBVIOUS
<1>1. <<>> \in Seq(Tile) /\ DOMAIN <<>> = {}
  BY EmptySeq
<1>2. plotted \in Seq([x : Categories, band : Bands, y : Measures \cup {NoNumber}])
  BY EmptySeq DEF ChartInit
<1> QED
  BY <1>1, <1>2 DEF ChartInit, ChartInv, Clear

(* A new tile begins on the grid, beside the last one or below it.         *)
LEMMA PlaceTileStep ==
  ASSUME ChartInv, NEW size \in TileSizes, PlaceTile(size)
  PROVE  ChartInv'
<1> DEFINE slot == NextSlot(size[1])
           new == [x |-> slot.x, y |-> slot.y, width |-> size[1], height |-> size[2]]
<1>1. size[1] \in 3 .. 12 /\ size[2] \in 2 .. 12
  BY ChartsAssumption
<1>2. slot.x \in 0 .. 12 /\ slot.y \in Nat
  <2>1. CASE tiles = <<>>
    BY <2>1 DEF NextSlot
  <2>2. CASE tiles # <<>>
    <3> DEFINE last == tiles[Len(tiles)]
    <3>1. last \in Tile
      <4>1. Len(tiles) \in 1 .. Len(tiles)
        BY <2>2, EmptySeq DEF ChartInv
      <4> QED
        BY <4>1, ElementOfSeq DEF ChartInv
    <3>2. last.x \in Nat /\ last.y \in Nat /\ last.width \in Nat /\ last.height \in Nat
      <4> HIDE DEF last
      <4> QED
        BY <3>1 DEF Tile
    <3>3. slot = IF last.x + last.width + size[1] <= 12
                 THEN [x |-> last.x + last.width, y |-> last.y]
                 ELSE [x |-> 0, y |-> last.y + last.height]
      BY <2>2 DEF NextSlot, GridColumns
    <3>4. size[1] \in Nat
      BY <1>1
    <3> HIDE DEF last, slot
    <3>5. CASE last.x + last.width + size[1] <= 12
      <4>1. last.x + last.width \in 0 .. 12
        BY <3>2, <3>4, <3>5
      <4> QED
        BY <3>2, <3>3, <3>5, <4>1
    <3>6. CASE ~(last.x + last.width + size[1] <= 12)
      BY <3>2, <3>3, <3>6
    <3> QED
      BY <3>5, <3>6
  <2> QED
    BY <2>1, <2>2
<1>3. new \in Tile
  <2> HIDE DEF slot
  <2> QED
    BY <1>1, <1>2 DEF Tile
<1>4. tiles' = Append(tiles, new)
  BY DEF PlaceTile
<1>5. tiles' \in Seq(Tile)
  <2> HIDE DEF new
  <2> QED
    BY <1>3, <1>4 DEF ChartInv
<1> QED
  BY <1>5 DEF ChartInv, PlaceTile

LEMMA ResizeTileStep ==
  ASSUME ChartInv, NEW i \in DOMAIN tiles, NEW size \in TileSizes, ResizeTile(i, size)
  PROVE  ChartInv'
<1>1. size[1] \in 3 .. 12 /\ size[2] \in 2 .. 12
  BY ChartsAssumption
<1>2. i \in 1 .. Len(tiles) /\ tiles[i] \in Tile
  BY LenProperties, ElementOfSeq DEF ChartInv
<1> DEFINE new == [tiles[i] EXCEPT !.width = size[1], !.height = size[2]]
<1>3. new \in Tile
  BY <1>1, <1>2 DEF Tile
<1>4. tiles' = [tiles EXCEPT ![i] = new]
  BY <1>2 DEF ResizeTile, Tile
<1>5. tiles' \in Seq(Tile)
  <2> HIDE DEF new
  <2> QED
    BY <1>2, <1>3, <1>4, ExceptSeq DEF ChartInv
<1> QED
  BY <1>5 DEF ChartInv, ResizeTile

LEMMA MoveTileStep ==
  ASSUME ChartInv, NEW i \in DOMAIN tiles, NEW offset \in Int, MoveTile(i, offset)
  PROVE  ChartInv'
<1> DEFINE n == Len(tiles)
           least == IF i + offset <= n THEN i + offset ELSE n
           target == Max({1, Min({i + offset, n})})
           rest == RemoveAt(tiles, i)
<1>1. n \in Nat /\ i \in 1 .. n /\ tiles[i] \in Tile /\ tiles \in Seq(Tile)
  BY LenProperties, ElementOfSeq DEF ChartInv
<1>2. target \in 1 .. n
  <2>1. Min({i + offset, n}) = least /\ least \in Int /\ least <= n
    <3>1. i + offset \in Int /\ n \in Int
      BY <1>1
    <3> QED
      BY <3>1, LesserOfTwo
  <2>2. target = IF 1 >= least THEN 1 ELSE least
    <3> HIDE DEF least, n
    <3> QED
      BY <2>1, GreaterOfTwo
  <2> HIDE DEF least, n, target
  <2> QED
    BY <1>1, <2>1, <2>2
<1>3. rest \in Seq(Tile) /\ Len(rest) = n - 1
  BY <1>1, Taken DEF ChartInv
<1>4. InsertAt(rest, target, tiles[i]) \in Seq(Tile)
  <2>1. target \in 1 .. (Len(rest) + 1)
    <3> HIDE DEF target, rest, n
    <3> QED
      BY <1>1, <1>2, <1>3
  <2> HIDE DEF target, rest
  <2> QED
    BY <1>1, <1>3, <2>1, Inserted
<1>5. tiles' = Relayout(InsertAt(rest, target, tiles[i])) /\ relaid' = TRUE /\ plotted' = plotted
  BY DEF MoveTile
<1> HIDE DEF rest, target
<1>6. tiles' \in Seq(Tile) /\ Clear(tiles')
  BY <1>4, <1>5, RelayoutClears
<1> QED
  BY <1>5, <1>6 DEF ChartInv, Clear, Overlap

LEMMA RemoveTileStep ==
  ASSUME ChartInv, NEW i \in DOMAIN tiles, RemoveTileAt(i)
  PROVE  ChartInv'
<1>1. RemoveAt(tiles, i) \in Seq(Tile)
  BY Taken DEF ChartInv
<1>2. tiles' \in Seq(Tile) /\ Clear(tiles')
  BY <1>1, RelayoutClears DEF RemoveTileAt
<1> QED
  BY <1>2 DEF ChartInv, RemoveTileAt, Clear, Overlap

LEMMA ChartSteps == ChartInv /\ [ChartNext]_chartVars => ChartInv'
<1> SUFFICES ASSUME ChartInv, [ChartNext]_chartVars PROVE ChartInv'
  OBVIOUS
<1>1. ASSUME NEW x \in Categories, NEW band \in Bands, NEW y \in Measures \cup {NoNumber},
             AddRow(x, band, y)
      PROVE  ChartInv'
  <2>1. [x |-> x, band |-> band, y |-> y] \in [x : Categories, band : Bands, y : Measures \cup {NoNumber}]
    OBVIOUS
  <2>2. plotted' \in Seq([x : Categories, band : Bands, y : Measures \cup {NoNumber}])
    BY <1>1, <2>1 DEF ChartInv, AddRow
  <2> QED
    BY <1>1, <2>2 DEF ChartInv, AddRow, Clear, Overlap
<1>2. CASE UNCHANGED chartVars
  BY <1>2 DEF ChartInv, chartVars, Clear, Overlap
<1>3. \A offset \in {-1, 1, 2} : offset \in Int
  OBVIOUS
<1> QED
  BY <1>1, <1>2, <1>3, PlaceTileStep, ResizeTileStep, MoveTileStep, RemoveTileStep DEF ChartNext

(* The inductive invariant of a dashboard: tiles of sizes the service allows,
   each begun on the grid, and apart whenever they were last laid out anew. *)
THEOREM ChartInvariance == ChartSpec => []ChartInv
<1> QED
  BY ChartInitially, ChartSteps, PTL DEF ChartSpec

(* Rows and tiles keep their types, whatever sizes and numbers of tiles.   *)
THEOREM ChartTypeCorrect == ChartSpec => []ChartTypeOK
<1>1. ChartInv => ChartTypeOK
  <2> SUFFICES ASSUME ChartInv PROVE ChartTypeOK
    OBVIOUS
  <2>1. \A i \in DOMAIN plotted :
          plotted[i] \in [x : Categories, band : Bands, y : Measures \cup {NoNumber}]
    BY LenProperties, ElementOfSeq DEF ChartInv
  <2>2. \A i \in DOMAIN tiles : tiles[i] \in Tile
    BY LenProperties, ElementOfSeq DEF ChartInv
  <2>3. \A i \in DOMAIN tiles : tiles[i].x \in 0 .. GridColumns /\ tiles[i].y \in Nat
    BY <2>2 DEF Tile, GridColumns
  <2> QED
    BY <2>1, <2>3 DEF ChartInv, ChartTypeOK
<1> QED
  BY <1>1, ChartInvariance, PTL

(* A dashboard laid out anew has every tile on the grid and no two on each
   other, for any number of tiles and any edits before it (_relayout).     *)
THEOREM ReflowClearsHolds == ChartSpec => []ReflowClears
<1>1. ChartInv => ReflowClears
  BY DEF ChartInv, ReflowClears, Clear
<1> QED
  BY <1>1, ChartInvariance, PTL
-----------------------------------------------------------------------------
(* An asset's record.                                                      *)

(* A day that has been looks the same after another.                       *)
LEMMA DayStays ==
  ASSUME NEW S, dailyRecord \in Seq(S), NEW rows, dailyRecord' = Append(dailyRecord, rows),
         NEW d \in 1 .. Len(dailyRecord), NEW kept
  PROVE  AssessDay(kept, d)' = AssessDay(kept, d)
<1>1. \A k \in 1 .. d : dailyRecord'[k] = dailyRecord[k]
  <2>1. Len(dailyRecord) \in Nat
    BY LenProperties
  <2> QED
    BY <2>1
<1>2. RunDays(d)' = RunDays(d) /\ RunDays(d) \subseteq 1 .. d
  BY <1>1 DEF RunDays
<1>3. View(kept, d)' = View(kept, d)
  <2>1. ASSUME NEW p PROVE ReadOn(p, d)' = ReadOn(p, d)
    BY <1>1, <1>2 DEF ReadOn
  <2>2. ASSUME NEW p, ReadOn(p, d) # {}
        PROVE  dailyRecord'[Max(ReadOn(p, d))] = dailyRecord[Max(ReadOn(p, d))]
    <3>1. ReadOn(p, d) \in SUBSET (1 .. d) /\ d \in Nat
      BY <1>2 DEF ReadOn
    <3>2. Max(ReadOn(p, d)) \in 1 .. d
      BY <2>2, <3>1, GreatestIsIn
    <3> QED
      BY <1>1, <3>2
  <2> DEFINE measured == {p \in Parameters : ReadOn(p, d) # {}}
             first == ParameterOrder[Min({i \in DOMAIN ParameterOrder : ParameterOrder[i] \in measured})]
             now == [p \in measured |-> dailyRecord[Max(ReadOn(p, d))][p]]
             then == [p \in measured |-> dailyRecord'[Max(ReadOn(p, d))][p]]
             ago == [p \in measured |-> d - Max(ReadOn(p, d))]
             week == {k \in RunDays(d) :
                        Cardinality({j \in RunDays(d) : j >= k}) <= Week /\ k # Min(RunDays(d))}
             log == RecordUpTo(kept.log, d)
             repairs == {e.day : e \in {f \in log : f.kind = "corrective"}}
             lately == week \cap ReadOn(first, d)
             sketch(ran, readings, since, hours) ==
               [day |-> d, readings |-> readings, ago |-> since, quality |-> kept.quality, log |-> log,
                failures |-> kept.failures, observed |-> Cardinality(ran),
                runtime |-> DailyHours * Cardinality(ran), lastWeek |-> DailyHours * Cardinality(hours),
                sinceRepair |-> IF repairs = {} THEN {} ELSE {d - Max(repairs)}]
  <2>3. then = now
    BY <2>2
  <2>4. View(kept, d) = sketch(RunDays(d), now, ago, lately)
    BY DEF View
  <2>5. View(kept, d)' = sketch(RunDays(d)', now', ago', lately')
    BY DEF View
  <2>6. measured' = measured
    BY <2>1
  <2>7. first' = first
    BY <2>6
  <2>8. ago' = ago /\ now' = then
    BY <2>1, <2>6
  <2>9. week' = week
    BY <1>2
  <2>10. lately' = lately
    <3> HIDE DEF week, first
    <3> QED
      BY <2>1, <2>7, <2>9
  <2> HIDE DEF now, then, ago, lately, sketch
  <2> QED
    BY <1>2, <2>3, <2>4, <2>8, <2>10, <2>5
<1> QED
  BY <1>2, <1>3 DEF AssessDay

(* An assessment of a day looks at nothing that was filed after it.        *)
LEMMA LooksNoFurther ==
  ASSUME NEW kept, NEW other, NEW d,
         RecordUpTo(kept.log, d) = RecordUpTo(other.log, d),
         kept.failures = other.failures, kept.quality = other.quality
  PROVE  AssessDay(kept, d) = AssessDay(other, d)
<1>1. View(kept, d) = View(other, d)
  BY DEF View
<1> QED
  BY <1>1 DEF AssessDay

Filed == [log : SUBSET [day : Nat, kind : {"corrective", "preventive"}, task : {Tasks[i].key : i \in DOMAIN Tasks}],
          failures : [ModeNames -> Nat], quality : [Parameters -> Scores \cup {NoScore}]]
AssetInv ==
  /\ dailyRecord \in Seq(DayRows \cup {NoRows}) /\ Len(dailyRecord) \in 1 .. MaxDay
  /\ filings \in 0 .. MaxFilings
  /\ tables \in Filed /\ \A e \in tables.log : e.day \in 1 .. Len(dailyRecord)
  /\ DOMAIN said = 1 .. MaxDay
  /\ \A d \in 1 .. MaxDay : said[d] # NoAnswer =>
       /\ d \in 1 .. Len(dailyRecord)
       /\ \A kept : said[d].tables = kept => said[d].answers = AssessDay(kept, d)

LEMMA AssetInitially == AssetInit => AssetInv
<1> SUFFICES ASSUME AssetInit PROVE AssetInv
  OBVIOUS
<1>1. PICK rows \in DayRows : dailyRecord = <<rows>>
  BY DEF AssetInit
<1>2. dailyRecord \in Seq(DayRows \cup {NoRows}) /\ Len(dailyRecord) = 1
  BY <1>1
<1>3. tables \in Filed /\ tables.log = {}
  BY DEF AssetInit, Filed
<1> QED
  BY <1>2, <1>3, AssetAssumption DEF AssetInit, AssetInv

LEMMA NextDayStep ==
  ASSUME AssetInv, NEW rows \in DayRows \cup {NoRows}, NextDay(rows)
  PROVE  AssetInv'
<1>1. dailyRecord \in Seq(DayRows \cup {NoRows}) /\ Len(dailyRecord) \in Nat
  BY LenProperties DEF AssetInv
<1>2. dailyRecord' = Append(dailyRecord, rows) /\ Len(dailyRecord) < MaxDay
      /\ tables' = tables /\ said' = said /\ filings' = filings
  BY DEF NextDay
<1>3. dailyRecord' \in Seq(DayRows \cup {NoRows}) /\ Len(dailyRecord') = Len(dailyRecord) + 1
  BY <1>1, <1>2
<1>4. Len(dailyRecord') \in 1 .. MaxDay /\ 1 .. Len(dailyRecord) \subseteq 1 .. Len(dailyRecord')
  BY <1>1, <1>2, <1>3, AssetAssumption
<1>5. ASSUME NEW d \in 1 .. MaxDay, said[d] # NoAnswer
      PROVE  /\ d \in 1 .. Len(dailyRecord)'
             /\ \A kept : said[d].tables = kept => said[d].answers = AssessDay(kept, d)'
  <2>1. /\ d \in 1 .. Len(dailyRecord)
        /\ \A kept : said[d].tables = kept => said[d].answers = AssessDay(kept, d)
    BY <1>5 DEF AssetInv
  <2>2. ASSUME NEW kept PROVE AssessDay(kept, d)' = AssessDay(kept, d)
    BY <1>1, <1>2, <2>1, DayStays
  <2> QED
    BY <1>4, <2>1, <2>2
<1>6. \A e \in tables.log : e.day \in 1 .. Len(dailyRecord)'
  BY <1>4 DEF AssetInv
<1> QED
  BY <1>2, <1>3, <1>4, <1>5, <1>6 DEF AssetInv

LEMMA FileStep ==
  ASSUME AssetInv, NEW kept \in Filed, \A e \in kept.log : e.day \in 1 .. Len(dailyRecord), File(kept)
  PROVE  AssetInv'
<1>1. dailyRecord' = dailyRecord /\ said' = said /\ tables' = kept
      /\ filings' = filings + 1 /\ filings < MaxFilings
  BY DEF File
<1>2. filings' \in 0 .. MaxFilings
  BY <1>1, AssetAssumption DEF AssetInv
<1>3. ASSUME NEW d, NEW k PROVE AssessDay(k, d)' = AssessDay(k, d)
  BY <1>1 DEF AssessDay, View, ReadOn, RunDays
<1> QED
  BY <1>1, <1>2, <1>3 DEF AssetInv

LEMMA FilingSteps ==
  ASSUME AssetInv
  PROVE  /\ \A kind \in {"corrective", "preventive"}, i \in DOMAIN Tasks :
              FileMaintenance(kind, Tasks[i].key) => AssetInv'
         /\ \A mode \in ModeNames : FileFailure(mode) => AssetInv'
         /\ \A p \in Parameters, score \in Scores : CheckQuality(p, score) => AssetInv'
<1>1. Len(dailyRecord) \in 1 .. Len(dailyRecord) /\ Len(dailyRecord) \in Nat
  BY AssetAssumption DEF AssetInv
<1>2. ASSUME NEW kind \in {"corrective", "preventive"}, NEW i \in DOMAIN Tasks,
             FileMaintenance(kind, Tasks[i].key)
      PROVE  AssetInv'
  <2> DEFINE event == [day |-> Len(dailyRecord), kind |-> kind, task |-> Tasks[i].key]
             kept == [tables EXCEPT !.log = @ \cup {event}]
  <2>1. kept \in Filed
    BY <1>1 DEF AssetInv, Filed
  <2>2. \A e \in kept.log : e.day \in 1 .. Len(dailyRecord)
    BY <1>1 DEF AssetInv, Filed
  <2>3. File(kept)
    BY <1>2 DEF FileMaintenance
  <2> HIDE DEF kept
  <2> QED
    BY <2>1, <2>2, <2>3, FileStep
<1>3. ASSUME NEW mode \in ModeNames, FileFailure(mode) PROVE AssetInv'
  <2> DEFINE more == [tables.failures EXCEPT ![mode] = @ + 1]
             kept == [tables EXCEPT !.failures = more]
  <2>1. tables \in Filed /\ tables.failures \in [ModeNames -> Nat]
    BY DEF AssetInv, Filed
  <2>2. more \in [ModeNames -> Nat]
    <3>1. tables.failures[mode] + 1 \in Nat
      BY <2>1
    <3> QED
      BY <2>1, <3>1
  <2>3. [tables EXCEPT !.failures[mode] = @ + 1] = kept
    BY <2>1 DEF Filed
  <2>4. kept \in Filed /\ kept.log = tables.log
    <3> HIDE DEF more
    <3> QED
      BY <2>1, <2>2 DEF Filed
  <2>5. File(kept)
    BY <1>3, <2>3 DEF FileFailure
  <2> HIDE DEF kept
  <2> QED
    BY <2>4, <2>5, FileStep DEF AssetInv
<1>4. ASSUME NEW p \in Parameters, NEW score \in Scores, CheckQuality(p, score) PROVE AssetInv'
  <2> DEFINE kept == [tables EXCEPT !.quality[p] = score]
  <2>1. kept \in Filed /\ kept.log = tables.log
    BY DEF AssetInv, Filed
  <2>2. File(kept)
    BY <1>4 DEF CheckQuality
  <2> HIDE DEF kept
  <2> QED
    BY <2>1, <2>2, FileStep DEF AssetInv
<1> QED
  BY <1>2, <1>3, <1>4

LEMMA AskEngineStep == AssetInv /\ AskEngine => AssetInv'
<1> SUFFICES ASSUME AssetInv, AskEngine PROVE AssetInv'
  OBVIOUS
<1> DEFINE n == Len(dailyRecord)
           engine == IF cached.version = n THEN cached ELSE [version |-> n, tables |-> tables]
           told == [tables |-> engine.tables, answers |-> AssessDay(engine.tables, n)]
<1>1. dailyRecord' = dailyRecord /\ tables' = tables /\ filings' = filings
      /\ said' = [said EXCEPT ![n] = IF @ = NoAnswer THEN told ELSE @]
  BY DEF AskEngine
<1>2. n \in 1 .. n /\ n \in 1 .. MaxDay
  BY AssetAssumption DEF AssetInv
<1>3. ASSUME NEW d, NEW k PROVE AssessDay(k, d)' = AssessDay(k, d)
  BY <1>1 DEF AssessDay, View, ReadOn, RunDays
<1>4. ASSUME NEW d \in 1 .. MaxDay, said'[d] # NoAnswer
      PROVE  /\ d \in 1 .. n
             /\ \A kept : said'[d].tables = kept => said'[d].answers = AssessDay(kept, d)
  <2>1. CASE d = n /\ said[n] = NoAnswer
    <3>1. said'[d] = told
      BY <1>1, <1>2, <2>1 DEF AssetInv
    <3>2. told.answers = AssessDay(told.tables, n)
      <4> HIDE DEF engine
      <4> QED
        OBVIOUS
    <3> HIDE DEF told
    <3> QED
      BY <1>2, <2>1, <3>1, <3>2
  <2>2. CASE ~(d = n /\ said[n] = NoAnswer)
    <3>1. said'[d] = said[d]
      <4> HIDE DEF told
      <4> QED
        BY <1>1, <1>2, <2>2 DEF AssetInv
    <3> QED
      BY <1>4, <3>1 DEF AssetInv
  <2> QED
    BY <2>1, <2>2
<1>5. DOMAIN said' = 1 .. MaxDay
  <2> HIDE DEF told
  <2> QED
    BY <1>1 DEF AssetInv
<1> HIDE DEF engine, told
<1> QED
  BY <1>1, <1>3, <1>4, <1>5 DEF AssetInv

LEMMA AssetSteps == AssetInv /\ [AssetNext]_assetVars => AssetInv'
<1> SUFFICES ASSUME AssetInv, [AssetNext]_assetVars PROVE AssetInv'
  OBVIOUS
<1>1. CASE UNCHANGED assetVars
  <2>1. ASSUME NEW d, NEW k PROVE AssessDay(k, d)' = AssessDay(k, d)
    BY <1>1 DEF AssessDay, View, ReadOn, RunDays, assetVars
  <2> QED
    BY <1>1, <2>1 DEF AssetInv, assetVars
<1> QED
  BY <1>1, NextDayStep, FilingSteps, AskEngineStep DEF AssetNext

(* The inductive invariant of an asset: what is filed is of days there were,
   and what was said of a day is the assessment of that day.               *)
THEOREM AssetInvariance == AssetSpec => []AssetInv
<1> QED
  BY AssetInitially, AssetSteps, PTL DEF AssetSpec

(* The record, what is filed beside it and the count keep their types.     *)
THEOREM AssetTypeCorrect == AssetSpec => []AssetTypeOK
<1>1. AssetInv => AssetTypeOK
  <2> SUFFICES ASSUME AssetInv PROVE AssetTypeOK
    OBVIOUS
  <2>1. DOMAIN dailyRecord = 1 .. Len(dailyRecord)
        /\ \A d \in DOMAIN dailyRecord : dailyRecord[d] \in DayRows \cup {NoRows}
    BY LenProperties, ElementOfSeq DEF AssetInv
  <2>2. tables.quality \in [Parameters -> Scores \cup {NoScore}]
    BY DEF AssetInv, Filed
  <2> QED
    BY <2>1, <2>2 DEF AssetInv, AssetTypeOK
<1> QED
  BY <1>1, AssetInvariance, PTL

(* What was said of an asset on a day is what is said of that day later, for
   any record, catalogue and policy: an assessment reads no later row and no
   later event, and only the class's failures and the instruments' scores,
   which have no date, are held against the past (Engine.view, _before).   *)
THEOREM AsItStoodHolds == AssetSpec => []AsItStood
<1>1. AssetInv => AsItStood
  <2> SUFFICES ASSUME AssetInv, NEW d \in 1 .. MaxDay, said[d] # NoAnswer,
                      {e \in said[d].tables.log : e.day <= d} = {e \in tables.log : e.day <= d},
                      said[d].tables.failures = tables.failures,
                      said[d].tables.quality = tables.quality
               PROVE  said[d].answers = AssessDay(tables, d)
    BY DEF AsItStood
  <2>1. said[d].answers = AssessDay(said[d].tables, d)
    BY DEF AssetInv
  <2>2. RecordUpTo(said[d].tables.log, d) = RecordUpTo(tables.log, d)
    BY DEF RecordUpTo
  <2> QED
    BY <2>1, <2>2, LooksNoFurther
<1> QED
  BY <1>1, AssetInvariance, PTL

(* Two views that differ at most in how readings move: their slopes, how far
   from normal and how spread out they are, and what is fitted to that.    *)
Stilled(v, w) ==
  /\ v.day = w.day /\ v.quality = w.quality /\ v.log = w.log /\ v.failures = w.failures
  /\ v.observed = w.observed /\ v.runtime = w.runtime /\ v.lastWeek = w.lastWeek
  /\ v.sinceRepair = w.sinceRepair
  /\ DOMAIN w.readings = DOMAIN v.readings
  /\ \A p \in DOMAIN v.readings :
       /\ w.readings[p].rank = v.readings[p].rank
       /\ w.readings[p].progress = v.readings[p].progress
       /\ w.readings[p].deviation = v.readings[p].deviation

LEMMA StilledLimits ==
  ASSUME NEW v, NEW w, Stilled(v, w)
  PROVE  /\ Threshold(v) = Threshold(w) /\ Baseline(v) = Baseline(w)
         /\ Quality(v) = Quality(w) /\ ForcesAction(v) = ForcesAction(w)
         /\ \A mode : Support(v, mode) = Support(w, mode)
         /\ Suspected(v) = Suspected(w)
<1>1. \A p, confidence : Sure(v, p, confidence) = Sure(w, p, confidence)
  BY DEF Stilled, Sure
<1>2. Threshold(v) = Threshold(w)
  <2>1. {q \in DOMAIN v.readings : v.readings[q].rank >= 1} = {q \in DOMAIN w.readings : w.readings[q].rank >= 1}
    BY DEF Stilled
  <2>2. \A p \in {q \in DOMAIN v.readings : v.readings[q].rank >= 1} :
          v.readings[p].rank = w.readings[p].rank
    BY DEF Stilled
  <2> DEFINE over(u) == {q \in DOMAIN u.readings : u.readings[q].rank >= 1}
             finding(u, p) == Finding("threshold", <<p>>, <<1800, 3400, 5200>>[u.readings[p].rank], Sure(u, p, 95))
  <2>3. /\ Threshold(v) = {finding(v, p) : p \in over(v)}
        /\ Threshold(w) = {finding(w, p) : p \in over(w)}
    BY DEF Threshold
  <2>4. over(v) = over(w) /\ \A p \in over(v) : finding(v, p) = finding(w, p)
    BY <1>1, <2>1, <2>2
  <2> HIDE DEF over, finding
  <2> QED
    BY <2>3, <2>4
<1>3. Deviating(v) = Deviating(w)
  BY DEF Stilled, Deviating
<1>4. Baseline(v) = Baseline(w)
  <2>1. \A p \in Deviating(v) : v.readings[p].progress = w.readings[p].progress
    BY DEF Stilled, Deviating
  <2> DEFINE finding(u, p) ==
               Finding("baseline", <<p>>, Min({2600, 300 + 28 * u.readings[p].progress}), Sure(u, p, 75))
  <2>2. /\ Baseline(v) = {finding(v, p) : p \in Deviating(v)}
        /\ Baseline(w) = {finding(w, p) : p \in Deviating(w)}
    BY DEF Baseline
  <2>3. \A p \in Deviating(v) : finding(v, p) = finding(w, p)
    BY <1>1, <2>1
  <2> HIDE DEF finding
  <2> QED
    BY <1>3, <2>2, <2>3
<1>5. Quality(v) = Quality(w)
  <2> DEFINE doubted(u) == {q \in DOMAIN u.readings : u.quality[q] # NoScore /\ u.quality[q] < 70}
  <2>1. doubted(v) = doubted(w) /\ v.observed = w.observed
    BY DEF Stilled
  <2>2. \A p \in doubted(v) : /\ v.readings[p].rank = w.readings[p].rank
                              /\ v.readings[p].deviation = w.readings[p].deviation
    BY DEF Stilled
  <2> DEFINE finding(u, p) ==
               Finding("quality", <<p>>, IF u.readings[p].rank >= 1 \/ u.readings[p].deviation > 8
                                         THEN 0 - 2600 ELSE 0 - 600, 8000)
             cold(u) == IF u.observed >= ColdStart THEN {} ELSE {Finding("quality", <<"cold">>, 0 - 1000, 9000)}
  <2>3. /\ Quality(v) = {finding(v, p) : p \in doubted(v)} \cup cold(v)
        /\ Quality(w) = {finding(w, p) : p \in doubted(w)} \cup cold(w)
    BY DEF Quality
  <2>4. cold(v) = cold(w) /\ \A p \in doubted(v) : finding(v, p) = finding(w, p)
    BY <2>1, <2>2
  <2> HIDE DEF doubted, finding, cold
  <2> QED
    BY <2>1, <2>3, <2>4
<1>6. ASSUME NEW mode, NEW p PROVE Hit(v, mode, p) = Hit(w, mode, p)
  <2>1. CASE p \in DOMAIN v.readings
    <3>1. p \in DOMAIN w.readings /\ v.readings[p].progress = w.readings[p].progress
      BY <2>1 DEF Stilled
    <3> QED
      BY <2>1, <3>1 DEF Hit
  <2>2. CASE p \notin DOMAIN v.readings
    BY <2>2 DEF Stilled, Hit
  <2> QED
    BY <2>1, <2>2
<1>7. \A mode : Support(v, mode) = Support(w, mode)
  BY <1>6 DEF Support
<1>8. ASSUME NEW mode PROVE Matched(v, mode) = Matched(w, mode)
  <2> DEFINE moving(u) == {p \in DOMAIN u.readings : u.readings[p].progress # Unknown}
             supporting(u) == {p \in DOMAIN mode.effects : Hit(u, mode, p) > 35}
             enough(u) == /\ Cardinality(moving(u)) >= 2
                          /\ Support(u, mode) >= 45
                          /\ Cardinality(supporting(u)) >= 2 \/ Support(u, mode) >= 60
  <2>1. Matched(v, mode) = enough(v) /\ Matched(w, mode) = enough(w)
    BY Zenon DEF Matched
  <2>2. moving(v) = moving(w)
    BY DEF Stilled
  <2>3. supporting(v) = supporting(w)
    BY <1>6
  <2>4. enough(v) = enough(w)
    <3> HIDE DEF moving, supporting
    <3> QED
      BY <1>7, <2>2, <2>3
  <2> HIDE DEF enough
  <2> QED
    BY <2>1, <2>4
<1>9. Suspected(v) = Suspected(w)
  BY <1>7, <1>8 DEF Suspected
<1>10. MatchPercent(v) = MatchPercent(w)
  BY <1>7, <1>9 DEF MatchPercent
<1>11. Corroborated(v) = Corroborated(w)
  BY <1>3, <1>10 DEF Corroborated, Stilled
<1>12. ForcesAction(v) = ForcesAction(w)
  BY <1>11 DEF ForcesAction, Stilled
<1> QED
  BY <1>2, <1>4, <1>5, <1>7, <1>9, <1>12

LEMMA StilledIntervals ==
  ASSUME NEW v, NEW w, Stilled(v, w)
  PROVE  Runtime(v) = Runtime(w) /\ Calendar(v) = Calendar(w) /\ Spent(v) = Spent(w)
<1>1. \A task : LastDone(v, task) = LastDone(w, task)
  BY DEF Stilled, LastDone
<1>2. ASSUME NEW task PROVE Usage(v, task) = Usage(w, task)
  <2> DEFINE daily(u) == IF u.lastWeek = 0 THEN 8 ELSE Max({1, u.lastWeek \div Week})
             used(u, last) == (100 * Min({u.runtime, (u.day - last) * daily(u)})) \div task.hours
  <2>1. /\ Usage(v, task) = {used(v, last) : last \in LastDone(v, task)}
        /\ Usage(w, task) = {used(w, last) : last \in LastDone(w, task)}
    BY DEF Usage
  <2>2. \A last : used(v, last) = used(w, last)
    BY DEF Stilled
  <2> HIDE DEF used
  <2> QED
    BY <1>1, <2>1, <2>2
<1>3. Runtime(v) = Runtime(w)
  BY <1>1, <1>2 DEF Runtime
<1>4. Calendar(v) = Calendar(w)
  BY <1>1 DEF Calendar, Stilled
<1>5. Used(v) = Used(w)
  BY <1>2 DEF Used
<1> QED
  BY <1>3, <1>4, <1>5 DEF Spent

LEMMA StilledMovement ==
  ASSUME NEW v, NEW w, Stilled(v, w), ~CleanWindow(v)
  PROVE  /\ Trend(v) = Trend(w) /\ Statistical(v) = Statistical(w)
         /\ Signature(v) = Signature(w) /\ History(v) = History(w)
<1>1. CleanWindow(w) = CleanWindow(v)
  BY DEF CleanWindow, Stilled
<1>2. Trend(v) = Trend(w)
  BY <1>1 DEF Trend
<1>3. Statistical(v) = Statistical(w)
  BY <1>1, Zenon DEF Statistical
<1>4. Signature(v) = Signature(w)
  <2> DEFINE finding(u, mode) ==
               Finding("signature", <<mode.key>>, Min({3400, 1200 + 26 * Support(u, mode)}),
                       100 * Min({85, 40 + Support(u, mode) \div 2}))
  <2>1. /\ Signature(v) = {finding(v, mode) : mode \in Suspected(v)}
        /\ Signature(w) = {finding(w, mode) : mode \in Suspected(w)}
    BY DEF Signature
  <2>2. Suspected(v) = Suspected(w) /\ \A mode : finding(v, mode) = finding(w, mode)
    BY StilledLimits
  <2> HIDE DEF finding
  <2> QED
    BY <2>1, <2>2
<1>5. History(v) = History(w)
  <2> DEFINE finding(u, mode) == Finding("history", <<mode.key>>, Min({1400, 400 + 150 * u.failures[mode.key]}), 6000)
             known(u) == {m \in Suspected(u) : u.failures[m.key] > 0}
             recent(u) == {n \in u.sinceRepair : n <= RecentDays /\ CleanWindow(u)}
             repaired(u) == {Finding("history", <<"repair">>, 1000, 6500) : days \in recent(u)}
  <2>1. /\ History(v) = repaired(v) \cup {finding(v, mode) : mode \in known(v)}
        /\ History(w) = repaired(w) \cup {finding(w, mode) : mode \in known(w)}
    BY DEF History
  <2>2. recent(v) = recent(w)
    BY <1>1 DEF Stilled
  <2>3. repaired(v) = repaired(w)
    <3> HIDE DEF recent
    <3> QED
      BY <2>2
  <2>4. known(v) = known(w) /\ \A mode : finding(v, mode) = finding(w, mode)
    BY StilledLimits DEF Stilled
  <2> HIDE DEF finding, known, repaired
  <2> QED
    BY <2>1, <2>3, <2>4
<1> QED
  BY <1>2, <1>3, <1>4, <1>5

(* Freshly repaired, an asset is not judged by how its readings moved: for any
   record, catalogue, interval and window, the findings of every analyzer but
   the plant's own rules are those of readings that stand still, and so is
   whether a limit forces action or an interval has run out (_trend_analyzer,
   _statistical_analyzer and the clean window they ask for).               *)
THEOREM RepairForgetsHolds ==
  AssetSpec => [](RunDays(Len(dailyRecord)) # {} => RepairForgets(View(tables, Len(dailyRecord))))
<1>1. ASSUME AssetInv, NEW d, d \in 1 .. Len(dailyRecord), NEW v, v = View(tables, d)
      PROVE  RepairForgets(v)
  <2> DEFINE measured == {q \in Parameters : ReadOn(q, d) # {}}
             stand == [p \in DOMAIN v.readings |-> [v.readings[p] EXCEPT !.slope = 0, !.z = 0, !.ratio = 0]]
             still == [v EXCEPT !.readings = stand]
             bare(parts) == [parts EXCEPT !.engineering = 0]
  <2>1. \A p \in DOMAIN v.readings : v.readings[p] \in Measurements
    <3>1. DOMAIN v.readings = measured
      BY <1>1 DEF View
    <3>2. ASSUME NEW p \in measured PROVE v.readings[p] \in Measurements
      <4> DEFINE seen == ReadOn(p, d)
      <4>1. seen \in SUBSET (1 .. d) /\ seen # {} /\ d \in Nat
        BY <1>1 DEF RunDays, ReadOn
      <4>2. Max(seen) \in seen
        <5> HIDE DEF seen
        <5> QED
          BY <4>1, GreatestIsIn
      <4>3. Max(seen) \in 1 .. Len(dailyRecord)
        BY <1>1, <4>1, <4>2 DEF AssetInv
      <4>4. dailyRecord[Max(seen)] \in DayRows \cup {NoRows}
        <5> HIDE DEF seen
        <5> QED
          BY <1>1, <4>3, ElementOfSeq DEF AssetInv
      <4>5. dailyRecord[Max(seen)] \in DayRows /\ p \in DOMAIN dailyRecord[Max(seen)]
        BY <4>2, <4>4 DEF RunDays, ReadOn
      <4>6. dailyRecord[Max(seen)][p] \in Measurements
        <5> HIDE DEF seen
        <5> QED
          BY <4>5, AssetAssumption
      <4>7. v.readings[p] = dailyRecord[Max(seen)][p]
        BY <1>1 DEF View
      <4> QED
        BY <4>6, <4>7
    <3> HIDE DEF measured
    <3> QED
      BY <3>1, <3>2
  <2>2. Stilled(v, still)
    <3>1. /\ v.day = still.day /\ v.quality = still.quality /\ v.log = still.log
          /\ v.failures = still.failures /\ v.observed = still.observed
          /\ v.runtime = still.runtime /\ v.lastWeek = still.lastWeek
          /\ v.sinceRepair = still.sinceRepair /\ still.readings = stand
      BY <1>1 DEF View
    <3>2. DOMAIN stand = DOMAIN v.readings
      OBVIOUS
    <3>3. ASSUME NEW p \in DOMAIN v.readings
          PROVE  /\ stand[p].rank = v.readings[p].rank
                 /\ stand[p].progress = v.readings[p].progress
                 /\ stand[p].deviation = v.readings[p].deviation
      BY <2>1 DEF Measurements
    <3> HIDE DEF stand, still
    <3> QED
      BY <3>1, <3>2, <3>3 DEF Stilled
  <2>3. ASSUME ~CleanWindow(v)
        PROVE  [Facts(v) EXCEPT !.sums.engineering = 0] = [Facts(still) EXCEPT !.sums.engineering = 0]
    <3> HIDE DEF still
    <3>1. bare(ScoreParts(v)) = bare(ScoreParts(still))
      BY <2>2, <2>3, StilledLimits, StilledIntervals, StilledMovement DEF ScoreParts
    <3>2. ForcesAction(v) = ForcesAction(still) /\ Spent(v) = Spent(still)
      BY <2>2, StilledLimits, StilledIntervals
    <3>3. [Facts(v) EXCEPT !.sums.engineering = 0]
            = [sums |-> bare(ScoreParts(v)), forced |-> ForcesAction(v), spent |-> Spent(v)]
      BY DEF Facts
    <3>4. [Facts(still) EXCEPT !.sums.engineering = 0]
            = [sums |-> bare(ScoreParts(still)), forced |-> ForcesAction(still), spent |-> Spent(still)]
      BY DEF Facts
    <3> QED
      BY <3>1, <3>2, <3>3, <3>4
  <2> QED
    BY <2>3 DEF RepairForgets
<1>2. AssetInv => (RunDays(Len(dailyRecord)) # {} => RepairForgets(View(tables, Len(dailyRecord))))
  <2> SUFFICES ASSUME AssetInv PROVE RepairForgets(View(tables, Len(dailyRecord)))
    OBVIOUS
  <2>1. Len(dailyRecord) \in 1 .. Len(dailyRecord)
    BY AssetAssumption DEF AssetInv
  <2> QED
    BY <1>1, <2>1
<1> QED
  BY <1>2, AssetInvariance, PTL
=============================================================================
