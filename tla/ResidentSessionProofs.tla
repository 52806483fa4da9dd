------------------------- MODULE ResidentSessionProofs -------------------------
(***************************************************************************)
(* Proved of the state a session keeps beside its document, for every      *)
(* document and every history: what is carried along from revision to      *)
(* revision is what a calculation from nothing gives, what a publication   *)
(* changes for a client it names, and a scenario foretells it.             *)
(*                                                                         *)
(* A calculation is characterised by what it holds of each cell            *)
(* (IsCalculation), of which there is one; an update recomputes cells with *)
(* everything that depends on them, before and after, so what it leaves    *)
(* alone is right of the new document too.                                 *)
(*                                                                         *)
(* Two documents are compared by the scopes a principal holds: what these  *)
(* show alike (SchemaAlike, RowAlike, CellAlike) an answer sees alike.     *)
(*                                                                         *)
(* Queries of one document agree because the groups of an analysis are the *)
(* parts of its rows and the pairs of a grouped sum its orders (PartsHold, *)
(* SumsHold): a sum over a finite set, however it is folded, adds up over  *)
(* parts and carries over to what its members are sent to one by one.      *)
(***************************************************************************)
EXTENDS WorkspaceQueries, FiniteSetTheorems, WellFoundedInduction, TLAPS

-----------------------------------------------------------------------------
(* Naturals and maps.                                                      *)

\* Every nonempty set of natural numbers has a least element.
LEMMA LeastNat ==
  ASSUME NEW T \in SUBSET Nat, T # {}
  PROVE  \E n \in T : \A m \in T : n <= m
<1> DEFINE Below == OpToRel(<, Nat)
<1>1. IsWellFoundedOn(Below, Nat)
  BY NatLessThanWellFounded
<1>2. \A m, n \in Nat : m < n => <<m, n>> \in Below
  BY DEF OpToRel
<1> HIDE DEF Below
<1>3. PICK n \in T : \A m \in T : ~(<<m, n>> \in Below)
  BY <1>1, WFMin
<1>4. \A m \in T : ~(m < n)
  BY <1>2, <1>3
<1>5. \A m \in T : n <= m
  BY <1>4
<1> QED BY <1>5

\* Induction over an initial segment of the natural numbers, for a set of them.
LEMMA SegmentInduction ==
  ASSUME NEW N \in Nat, NEW S,
         0 \in S, \A k \in 1 .. N : k - 1 \in S => k \in S
  PROVE  0 .. N \subseteq S
<1> DEFINE T == {k \in 0 .. N : k \notin S}
<1> SUFFICES ASSUME T # {} PROVE FALSE
  OBVIOUS
<1>1. T \in SUBSET Nat
  OBVIOUS
<1>2. PICK n \in T : \A m \in T : n <= m
  BY <1>1, LeastNat
<1>3. n # 0 /\ n \in 1 .. N
  BY <1>2
<1>4. n - 1 \in 0 .. N /\ ~(n <= n - 1)
  BY <1>3
<1>5. n - 1 \in S
  BY <1>2, <1>4
<1> QED BY <1>2, <1>3, <1>5

\* Two maps that hold the same under the same keys are one.
LEMMA MapsEqual ==
  ASSUME NEW f, NEW g, IsMap(f), IsMap(g), DOMAIN f = DOMAIN g, \A k \in DOMAIN f : f[k] = g[k]
  PROVE  f = g
BY DEF IsMap

LEMMA OverIs ==
  ASSUME NEW f, NEW g, IsMap(f), IsMap(g)
  PROVE  /\ IsMap(Over(f, g))
         /\ DOMAIN Over(f, g) = (DOMAIN f) \union DOMAIN g
         /\ \A k \in DOMAIN f : Over(f, g)[k] = f[k]
         /\ \A k \in (DOMAIN g) \ DOMAIN f : Over(f, g)[k] = g[k]
<1>1. DOMAIN <<>> = {}
  OBVIOUS
<1>2. CASE f = <<>>
  BY <1>1, <1>2 DEF Over
<1>3. CASE f # <<>> /\ g = <<>>
  BY <1>1, <1>3 DEF Over
<1>4. CASE f # <<>> /\ g # <<>>
  BY <1>4 DEF Over, IsMap
<1> QED BY <1>2, <1>3, <1>4

LEMMA LeaveIs ==
  ASSUME NEW m, NEW keys
  PROVE  /\ IsMap(Leave(m, keys))
         /\ DOMAIN Leave(m, keys) = (DOMAIN m) \ keys
         /\ \A k \in (DOMAIN m) \ keys : Leave(m, keys)[k] = m[k]
BY DEF Leave, Restrict, IsMap

-----------------------------------------------------------------------------
(* Reachability.                                                           *)

IsReaching(run, next, start, n) ==
  run = [k \in 0 .. n |-> IF k = 0 THEN start
                          ELSE run[k - 1] \union UNION {next[x] : x \in run[k - 1]}]

LEMMA ReachingExists ==
  ASSUME NEW next, NEW start, NEW N \in Nat
  PROVE  \E run : IsReaching(run, next, start, N)
<1> DEFINE S == {n \in 0 .. N : \E run : IsReaching(run, next, start, n)}
<1>1. 0 \in S
  <2>1. IsReaching([k \in 0 .. 0 |-> start], next, start, 0)
    BY DEF IsReaching
  <2> QED BY <2>1
<1>2. ASSUME NEW n \in 1 .. N, n - 1 \in S PROVE n \in S
  <2>1. PICK run : IsReaching(run, next, start, n - 1)
    BY <1>2
  <2> DEFINE last == run[n - 1] \union UNION {next[x] : x \in run[n - 1]}
             longer == [k \in 0 .. n |-> IF k = n THEN last ELSE run[k]]
  <2>2. longer[n] = last /\ \A k \in 0 .. n - 1 : longer[k] = run[k]
    OBVIOUS
  <2>3. \A k \in 0 .. n - 1 : run[k] = IF k = 0 THEN start
                          ELSE run[k - 1] \union UNION {next[x] : x \in run[k - 1]}
    BY <2>1 DEF IsReaching
  <2>4. ASSUME NEW k \in 0 .. n
        PROVE  longer[k] = IF k = 0 THEN start
                           ELSE longer[k - 1] \union UNION {next[x] : x \in longer[k - 1]}
    <3> HIDE DEF longer
    <3>1. CASE k = n
      <4>1. longer[k - 1] = run[n - 1] /\ k # 0
        BY <2>2, <3>1
      <4> QED BY <2>2, <3>1, <4>1
    <3>2. CASE k # n
      <4>1. k \in 0 .. n - 1 /\ (k # 0 => k - 1 \in 0 .. n - 1)
        BY <3>2
      <4>2. k # 0 => longer[k - 1] = run[k - 1]
        BY <2>2, <4>1
      <4> QED BY <2>2, <2>3, <4>1, <4>2
    <3> QED BY <3>1, <3>2
  <2>5. IsReaching(longer, next, start, n)
    BY <2>4 DEF IsReaching
  <2> QED BY <2>5
<1> HIDE DEF S
<1>3. N \in S
  BY <1>1, <1>2, SegmentInduction
<1> QED BY <1>3 DEF S

LEMMA ReachedIsReaching ==
  ASSUME NEW next, NEW start, Cardinality(DOMAIN next) \in Nat
  PROVE  \E run : /\ IsReaching(run, next, start, Cardinality(DOMAIN next))
                  /\ Reached(next, start) = run[Cardinality(DOMAIN next)]
<1> DEFINE N == Cardinality(DOMAIN next)
           after == CHOOSE run : IsReaching(run, next, start, N)
<1>1. IsReaching(after, next, start, N)
  BY ReachingExists
<1>2. Reached(next, start) = after[N]
  BY DEF Reached, IsReaching
<1> QED BY <1>1, <1>2

\* A graph over some places.
IsNetwork(next, places) ==
  /\ IsFiniteSet(places) /\ DOMAIN next = places
  /\ \A x \in places : next[x] \subseteq places

\* What is reached is the least that is closed and holds the start.
LEMMA ReachedIs ==
  ASSUME NEW places, NEW next, IsNetwork(next, places), NEW start, start \subseteq places
  PROVE  /\ start \subseteq Reached(next, start)
         /\ Reached(next, start) \subseteq places
         /\ \A x \in Reached(next, start) : next[x] \subseteq Reached(next, start)
         /\ \A T : /\ start \subseteq T
                   /\ \A x \in T \intersect places : next[x] \subseteq T
                   => Reached(next, start) \subseteq T
<1> DEFINE N == Cardinality(places)
<1>1. N \in Nat
  BY FS_CardinalityType DEF IsNetwork
<1>2. PICK run : IsReaching(run, next, start, N) /\ Reached(next, start) = run[N]
  BY <1>1, ReachedIsReaching DEF IsNetwork
<1> DEFINE Closed(s) == \A x \in s : next[x] \subseteq s
           S == {k \in 0 .. N : /\ start \subseteq run[k] /\ run[k] \subseteq places
                                /\ Closed(run[k]) \/ Cardinality(run[k]) >= k}
<1>3. run[0] = start /\ \A k \in 1 .. N : run[k] = run[k - 1] \union UNION {next[x] : x \in run[k - 1]}
  <2>1. \A k \in 0 .. N : run[k] = IF k = 0 THEN start
                          ELSE run[k - 1] \union UNION {next[x] : x \in run[k - 1]}
    BY <1>2 DEF IsReaching
  <2>2. 0 \in 0 .. N /\ \A k \in 1 .. N : k \in 0 .. N /\ k # 0
    BY <1>1
  <2> HIDE DEF N, S
  <2> QED BY <2>1, <2>2
<1>4. 0 \in S
  <2>1. Cardinality(start) \in Nat
    BY FS_CardinalityType, FS_Subset DEF IsNetwork
  <2> QED BY <1>1, <1>3, <2>1
<1>5. ASSUME NEW k \in 1 .. N, k - 1 \in S PROVE k \in S
  <2>1. /\ run[k] = run[k - 1] \union UNION {next[x] : x \in run[k - 1]}
        /\ start \subseteq run[k - 1] /\ run[k - 1] \subseteq places
    BY <1>3, <1>5
  <2>2. start \subseteq run[k] /\ run[k] \subseteq places
    BY <2>1 DEF IsNetwork
  <2>3. CASE Closed(run[k - 1])
    <3>1. run[k] = run[k - 1]
      BY <2>1, <2>3
    <3> QED BY <1>1, <2>2, <2>3, <3>1
  <2>4. CASE ~Closed(run[k - 1])
    <3>1. run[k - 1] \subseteq run[k] /\ run[k - 1] # run[k]
      BY <2>1, <2>4
    <3>2. IsFiniteSet(run[k])
      BY <2>2, FS_Subset DEF IsNetwork
    <3>3. Cardinality(run[k - 1]) < Cardinality(run[k]) /\ Cardinality(run[k]) \in Nat
          /\ Cardinality(run[k - 1]) \in Nat
      BY <3>1, <3>2, FS_Subset, FS_CardinalityType
    <3>4. Cardinality(run[k - 1]) >= k - 1
      BY <1>5, <2>4
    <3> QED BY <1>1, <2>2, <3>3, <3>4
  <2> QED BY <2>3, <2>4
<1>6. N \in S
  <2> HIDE DEF S, N
  <2>1. 0 .. N \subseteq S
    BY <1>1, <1>4, <1>5, SegmentInduction
  <2> QED BY <1>1, <2>1
<1>7. Closed(run[N])
  <2> SUFFICES ASSUME Cardinality(run[N]) >= N PROVE Closed(run[N])
    BY <1>6
  <2>1. run[N] \subseteq places
    BY <1>6
  <2>2. run[N] = places
    <3>1. IsFiniteSet(places) /\ run[N] \in SUBSET places
      BY <2>1 DEF IsNetwork
    <3>2. IsFiniteSet(run[N]) /\ Cardinality(run[N]) <= N
      BY <3>1, FS_Subset
    <3>3. Cardinality(run[N]) = N
      <4> HIDE DEF N
      <4>1. Cardinality(run[N]) \in Nat
        BY <3>2, FS_CardinalityType
      <4> QED BY <1>1, <3>2, <4>1
    <3> QED BY <3>1, <3>3, FS_Subset
  <2> QED BY <2>2 DEF IsNetwork
<1>8. ASSUME NEW T, start \subseteq T, \A x \in T \intersect places : next[x] \subseteq T
      PROVE  run[N] \subseteq T
  <2> DEFINE U == {k \in 0 .. N : run[k] \subseteq T /\ run[k] \subseteq places}
  <2>1. 0 \in U
    BY <1>1, <1>3, <1>8
  <2>2. ASSUME NEW k \in 1 .. N, k - 1 \in U PROVE k \in U
    <3>1. run[k] = run[k - 1] \union UNION {next[x] : x \in run[k - 1]}
      BY <1>3
    <3>2. run[k - 1] \subseteq T /\ run[k - 1] \subseteq places
      BY <2>2
    <3>3. run[k] \subseteq T
      BY <1>8, <3>1, <3>2
    <3>4. run[k] \subseteq places
      BY <3>1, <3>2 DEF IsNetwork
    <3> QED BY <1>1, <3>3, <3>4
  <2>3. N \in U
    <3> HIDE DEF U, N
    <3>1. 0 .. N \subseteq U
      BY <1>1, <2>1, <2>2, SegmentInduction
    <3> QED BY <1>1, <3>1
  <2> QED BY <2>3
<1>9. start \subseteq run[N] /\ run[N] \subseteq places
  BY <1>6
<1> HIDE DEF S, N
<1> QED BY <1>2, <1>7, <1>8, <1>9

\* From a nonempty set in which every place leads to another of the set, some
\* place is reached from itself.
LEMMA CycleExists ==
  ASSUME NEW places, NEW next, IsNetwork(next, places),
         NEW L, L \subseteq places, L # {}, \A x \in L : next[x] \intersect L # {}
  PROVE  \E x \in L : x \in Reached(next, next[x])
<1> DEFINE all(x) == Reached(next, next[x])
           T == {Cardinality(all(x)) : x \in L}
<1> SUFFICES ASSUME \A x \in L : x \notin all(x) PROVE FALSE
  OBVIOUS
<1>1. ASSUME NEW x \in places
      PROVE  /\ next[x] \subseteq all(x) /\ all(x) \subseteq places
             /\ \A y \in all(x) : next[y] \subseteq all(x)
             /\ \A U : next[x] \subseteq U /\ (\A y \in U \intersect places : next[y] \subseteq U)
                       => all(x) \subseteq U
             /\ IsFiniteSet(all(x)) /\ Cardinality(all(x)) \in Nat
  <2>1. next[x] \subseteq places
    BY DEF IsNetwork
  <2>2. all(x) \subseteq places
    BY <2>1, ReachedIs
  <2>3. IsFiniteSet(all(x)) /\ Cardinality(all(x)) \in Nat
    BY <2>2, FS_Subset, FS_CardinalityType DEF IsNetwork
  <2> HIDE DEF all
  <2> QED BY <2>1, <2>2, <2>3, ReachedIs DEF all
<1>2. T \in SUBSET Nat /\ T # {}
  BY <1>1
<1>3. PICK n \in T : \A m \in T : n <= m
  BY <1>2, LeastNat
<1>4. PICK x \in L : n = Cardinality(all(x))
  OBVIOUS
<1>5. PICK y \in next[x] : y \in L
  OBVIOUS
<1> HIDE DEF all
<1>6. all(y) \subseteq all(x)
  BY <1>1, <1>5
<1>7. y \in all(x) /\ y \notin all(y)
  BY <1>1, <1>5
<1>8. Cardinality(all(y)) < Cardinality(all(x))
  <2>1. IsFiniteSet(all(x)) /\ Cardinality(all(x)) \in Nat /\ Cardinality(all(y)) \in Nat
    BY <1>1, <1>5
  <2>2. Cardinality(all(y)) <= Cardinality(all(x)) /\ Cardinality(all(x)) # Cardinality(all(y))
    BY <1>6, <1>7, <2>1, FS_Subset
  <2> QED BY <2>1, <2>2
<1>9. Cardinality(all(y)) \in T
  BY <1>5
<1> HIDE DEF T
<1> QED BY <1>1, <1>3, <1>4, <1>5, <1>8, <1>9

\* Where no place leads into some others from outside, what leads back to one
\* of these does so among them.
LEMMA CyclesWithin ==
  ASSUME NEW places, NEW next, IsNetwork(next, places), NEW inner, inner \subseteq places,
         \A x \in places \ inner : next[x] \intersect inner = {},
         NEW within, DOMAIN within = inner, \A x \in inner : within[x] = next[x] \intersect inner
  PROVE  /\ IsNetwork(within, inner)
         /\ \A x \in inner : Reached(within, within[x]) = Reached(next, next[x]) \intersect inner
         /\ \A x \in inner, y \in places : x \in Reached(next, next[y]) => y \in inner
<1>1. IsNetwork(within, inner)
  BY FS_Subset DEF IsNetwork
<1>2. ASSUME NEW x \in inner
      PROVE  Reached(within, within[x]) = Reached(next, next[x]) \intersect inner
  <2> DEFINE some == Reached(within, within[x])
             all == Reached(next, next[x])
  <2> HIDE DEF some, all
  <2>0. next[x] \subseteq places /\ within[x] \subseteq inner /\ within[x] \subseteq next[x]
    BY DEF IsNetwork
  <2>1. /\ within[x] \subseteq some /\ some \subseteq inner
        /\ \A y \in some : within[y] \subseteq some
        /\ \A T : within[x] \subseteq T /\ (\A y \in T \intersect inner : within[y] \subseteq T)
                  => some \subseteq T
    BY <1>1, <2>0, ReachedIs DEF some
  <2>2. /\ next[x] \subseteq all /\ all \subseteq places
        /\ \A y \in all : next[y] \subseteq all
        /\ \A T : next[x] \subseteq T /\ (\A y \in T \intersect places : next[y] \subseteq T)
                  => all \subseteq T
    BY <2>0, ReachedIs DEF all
  <2>3. some \subseteq all
    <3>1. \A y \in all \intersect inner : within[y] \subseteq all
      BY <2>2
    <3> QED BY <2>0, <2>1, <2>2, <3>1
  <2>4. all \intersect inner \subseteq some
    <3> DEFINE T == {y \in places : y \in inner => y \in some}
    <3>1. next[x] \subseteq T
      BY <2>0, <2>1
    <3>2. ASSUME NEW y \in T \intersect places, NEW z \in next[y] PROVE z \in T
      <4>1. z \in places
        BY <3>2 DEF IsNetwork
      <4>2. CASE z \in inner
        <5>1. y \in inner
          BY <3>2, <4>2
        <5>2. z \in within[y]
          BY <3>2, <4>2, <5>1
        <5> QED BY <2>1, <4>1, <5>1, <5>2
      <4> QED BY <4>1, <4>2
    <3>3. all \subseteq T
      <4> HIDE DEF T
      <4> QED BY <2>2, <3>1, <3>2
    <3> QED BY <3>3
  <2> QED BY <2>1, <2>3, <2>4 DEF some, all
<1>3. ASSUME NEW x \in inner, NEW y \in places, x \in Reached(next, next[y]), y \notin inner
      PROVE  FALSE
  <2>1. next[y] \subseteq places \ inner
    BY <1>3 DEF IsNetwork
  <2>2. \A z \in (places \ inner) \intersect places : next[z] \subseteq places \ inner
    BY DEF IsNetwork
  <2>3. next[y] \subseteq places
    BY DEF IsNetwork
  <2> DEFINE U == places \ inner
  <2>4. Reached(next, next[y]) \subseteq U
    <3>1. \A T : next[y] \subseteq T /\ (\A z \in T \intersect places : next[z] \subseteq T)
                => Reached(next, next[y]) \subseteq T
      BY <2>3, ReachedIs
    <3>2. next[y] \subseteq U /\ \A z \in U \intersect places : next[z] \subseteq U
      BY <2>1, <2>2
    <3> HIDE DEF U
    <3> QED BY <3>1, <3>2
  <2> QED BY <1>3, <2>4
<1> QED BY <1>1, <1>2, <1>3

-----------------------------------------------------------------------------
(* Evaluation.                                                             *)

\* Two maps hold the same of some cells.
Alike(v, w, cells) ==
  \A c \in cells : (c \in DOMAIN v <=> c \in DOMAIN w) /\ (c \in DOMAIN v => v[c] = w[c])

\* The cells an evaluation reads.
ReadBy(d, x) == x.cells \union UNION {ColumnCells(d, k) : k \in x.columns}

\* What a formula comes to depends on nothing but what it reads.
LEMMA EvaluateSame ==
  ASSUME NEW d, NEW e, NEW x, NEW v, NEW w, NEW f, NEW h,
         (\E c \in x.test : c[1] \in DOMAIN d.entities /\ c \notin Cells(d))
           <=> (\E c \in x.test : c[1] \in DOMAIN e.entities /\ c \notin Cells(e)),
         \A k \in x.columns :
           /\ Slots(d, k) = Slots(e, k) /\ ColumnCells(d, k) = ColumnCells(e, k)
           /\ \A c \in Slots(d, k) : c \in Cells(d) <=> c \in Cells(e),
         Alike(v, w, ReadBy(d, x)), Alike(f, h, ReadBy(d, x)),
         \A c \in x.cells : Readable(d, v, c) <=> Readable(e, w, c)
  PROVE  Evaluate(d, v, f, x) = Evaluate(e, w, h, x)
<1> DEFINE tested(doc) == \E c \in x.test : c[1] \in DOMAIN doc.entities /\ c \notin Cells(doc)
           chosen(doc) == IF tested(doc) THEN {} ELSE x.cells
           present(doc) == UNION {ColumnCells(doc, k) : k \in x.columns}
           firsts(doc, kept) == {First(ColumnCells(doc, k) \intersect kept) :
                             k \in {k \in x.columns : ColumnCells(doc, k) \intersect kept # {}}}
           failed(doc, map) == (chosen(doc) \intersect DOMAIN map) \union firsts(doc, DOMAIN map)
           missing(doc, map) ==
             {c \in chosen(doc) : ~Readable(doc, map, c)}
               \union (IF x.op = "blanks" THEN {} ELSE firsts(doc, Cells(doc) \ DOMAIN map))
           blanks(doc) == (UNION {Slots(doc, k) : k \in x.columns}) \ Cells(doc)
           result(doc, values, failures) ==
             IF failed(doc, failures) # {} THEN <<"failed_dependencies", failed(doc, failures)>>
             ELSE IF missing(doc, values) # {} THEN <<"failed_dependencies", {First(missing(doc, values))}>>
             ELSE IF x.op = "maximum" /\ \E k \in x.columns : ColumnCells(doc, k) = {} THEN <<"empty_aggregate">>
             ELSE IF x.op = "ratio" /\ \E c \in chosen(doc) : Read(values, c) = 0 THEN <<"division_by_zero">>
             ELSE IF x.op = "ratio" THEN NumberValue(1)
             ELSE IF x.op = "maximum" THEN NumberValue(Max({Read(values, c) : c \in present(doc)}))
             ELSE IF x.op = "blanks" THEN NumberValue(Cardinality(blanks(doc)))
             ELSE NumberValue(SumOf(values, chosen(doc) \union present(doc)))
<1>1. Evaluate(d, v, f, x) = result(d, v, f) /\ Evaluate(e, w, h, x) = result(e, w, h)
  BY DEF Evaluate
<1>2. chosen(d) = chosen(e) /\ chosen(d) \subseteq x.cells
  OBVIOUS
<1>3. present(d) = present(e)
  OBVIOUS
<1>4. blanks(d) = blanks(e)
  OBVIOUS
<1>5. \A kept, other : (\A k \in x.columns : ColumnCells(d, k) \intersect kept = ColumnCells(e, k) \intersect other)
                       => firsts(d, kept) = firsts(e, other)
  OBVIOUS
<1>6. \A k \in x.columns : ColumnCells(d, k) \intersect DOMAIN f = ColumnCells(e, k) \intersect DOMAIN h
  BY DEF Alike, ReadBy
<1>7. \A k \in x.columns : ColumnCells(d, k) \intersect (Cells(d) \ DOMAIN v)
                             = ColumnCells(e, k) \intersect (Cells(e) \ DOMAIN w)
  BY DEF Alike, ReadBy, ColumnCells
<1> HIDE DEF firsts, chosen, present, blanks
<1>8. failed(d, f) = failed(e, h)
  <2>1. chosen(d) \intersect DOMAIN f = chosen(e) \intersect DOMAIN h
    BY <1>2 DEF Alike, ReadBy
  <2>2. firsts(d, DOMAIN f) = firsts(e, DOMAIN h)
    BY <1>5, <1>6
  <2> QED BY <2>1, <2>2
<1>9. missing(d, v) = missing(e, w)
  <2>1. {c \in chosen(d) : ~Readable(d, v, c)} = {c \in chosen(e) : ~Readable(e, w, c)}
    BY <1>2
  <2>2. firsts(d, Cells(d) \ DOMAIN v) = firsts(e, Cells(e) \ DOMAIN w)
    BY <1>5, <1>7
  <2> QED BY <2>1, <2>2
<1>10. \A c \in chosen(d) \union present(d) : Read(v, c) = Read(w, c)
  BY <1>2 DEF Alike, ReadBy, Read, present
<1>11. {Read(v, c) : c \in present(d)} = {Read(w, c) : c \in present(e)}
  BY <1>3, <1>10
<1>12. SumOf(v, chosen(d) \union present(d)) = SumOf(w, chosen(e) \union present(e))
  <2>1. [c \in chosen(d) \union present(d) |-> Read(v, c)] = [c \in chosen(e) \union present(e) |-> Read(w, c)]
    BY <1>2, <1>3, <1>10
  <2> QED BY <2>1 DEF SumOf
<1>13. (\E c \in chosen(d) : Read(v, c) = 0) <=> (\E c \in chosen(e) : Read(w, c) = 0)
  BY <1>2, <1>10
<1> HIDE DEF failed, missing
<1>14. (\E k \in x.columns : ColumnCells(d, k) = {}) <=> (\E k \in x.columns : ColumnCells(e, k) = {})
  OBVIOUS
<1>15. result(d, v, f) = result(e, w, h)
  BY <1>4, <1>8, <1>9, <1>11, <1>12, <1>13, <1>14
<1> QED BY <1>1, <1>15

-----------------------------------------------------------------------------
(* The dependency graph of a document.                                     *)

\* The graph is a record of maps.
IsGraph(g) ==
  /\ g = [references |-> g.references, columns |-> g.columns, slots |-> g.slots,
          slotColumn |-> g.slotColumn, schemaOf |-> g.schemaOf]
  /\ IsMap(g.references) /\ IsMap(g.columns) /\ IsMap(g.slots)
  /\ IsMap(g.slotColumn) /\ IsMap(g.schemaOf)

ReadColumns(d) == UNION {Formula(d, f).columns : f \in FormulaCells(d)}
ReadSlots(d) == UNION {Slots(d, k) : k \in ReadColumns(d)}

LEMMA CellsAreFinite ==
  ASSUME NEW d, IsInMemory(d)
  PROVE  /\ FormulaCells(d) \subseteq CalculationCells(d) /\ CalculationCells(d) \subseteq Cells(d)
         /\ IsFiniteSet(FormulaCells(d)) /\ IsFiniteSet(CalculationCells(d))
<1>1. FormulaCells(d) \subseteq CalculationCells(d) /\ CalculationCells(d) \subseteq Cells(d)
  BY DEF FormulaCells, CalculationCells
<1>2. IsFiniteSet(Cells(d))
  BY DEF IsInMemory
<1> QED BY <1>1, <1>2, FS_Subset

LEMMA NewGraphIs ==
  ASSUME NEW d
  PROVE  NewGraph(d) =
           [references |-> [f \in FormulaCells(d) |-> DirectReferences(Formula(d, f))],
            columns |-> [f \in FormulaCells(d) |-> Formula(d, f).columns],
            slots |-> [k \in ReadColumns(d) |-> Slots(d, k)],
            slotColumn |-> [slot \in ReadSlots(d) |-> ColumnOf(d, slot)],
            schemaOf |-> [e \in DOMAIN d.entities |-> d.entities[e].schema]]
<1> DEFINE schemas == [e \in DOMAIN d.entities |-> d.entities[e].schema]
           start == [references |-> <<>>, columns |-> <<>>, slots |-> <<>>, slotColumn |-> <<>>,
                     schemaOf |-> schemas]
           slotted == EnsureColumnSlots(start, d, ReadColumns(d))
<1>0. \A f : Over(f, <<>>) = f
  BY DEF Over
<1>1. ReadColumns(d) \ DOMAIN start.slots = ReadColumns(d)
  OBVIOUS
<1>2. slotted = [start EXCEPT !.slots = [k \in ReadColumns(d) |-> Slots(d, k)],
                              !.slotColumn = [slot \in ReadSlots(d) |-> ColumnOf(d, slot)]]
  BY <1>0, <1>1 DEF EnsureColumnSlots, ReadSlots
<1> HIDE DEF schemas
<1>3. slotted = [references |-> <<>>, columns |-> <<>>,
                 slots |-> [k \in ReadColumns(d) |-> Slots(d, k)],
                 slotColumn |-> [slot \in ReadSlots(d) |-> ColumnOf(d, slot)],
                 schemaOf |-> schemas]
  BY <1>2
<1>4. NewGraph(d) = [slotted EXCEPT
                       !.references = [f \in FormulaCells(d) |-> DirectReferences(Formula(d, f))],
                       !.columns = [f \in FormulaCells(d) |-> Formula(d, f).columns]]
  <2>1. slotted.references = <<>> /\ slotted.columns = <<>>
    BY <1>3
  <2> HIDE DEF slotted
  <2> QED BY <1>0, <2>1 DEF NewGraph, InsertEdges, ReadColumns, slotted, schemas
<1> HIDE DEF slotted
<1> QED BY <1>3, <1>4 DEF schemas

\* What a formula depends on.
Deps(d, f) == ExtractDependencies(d, Formula(d, f))

LEMMA NewDependencies ==
  ASSUME NEW d
  PROVE  \A f \in FormulaCells(d) : DependenciesOf(NewGraph(d), f) = Deps(d, f)
<1> SUFFICES ASSUME NEW f \in FormulaCells(d)
             PROVE  DependenciesOf(NewGraph(d), f) = Deps(d, f)
  OBVIOUS
<1> DEFINE g == NewGraph(d)
<1>1. /\ g.references[f] = DirectReferences(Formula(d, f)) /\ g.columns[f] = Formula(d, f).columns
      /\ DOMAIN g.slots = ReadColumns(d) /\ \A k \in ReadColumns(d) : g.slots[k] = Slots(d, k)
  BY NewGraphIs
<1>2. Formula(d, f).columns \subseteq ReadColumns(d)
  BY DEF ReadColumns
<1> HIDE DEF g
<1>3. {g.slots[k] : k \in g.columns[f] \intersect DOMAIN g.slots} = {Slots(d, k) : k \in Formula(d, f).columns}
  BY <1>1, <1>2
<1>4. DependenciesOf(g, f) = Deps(d, f)
  BY <1>1, <1>3 DEF DependenciesOf, Deps, ExtractDependencies
<1> QED BY <1>4 DEF g

\* Whatever reads a cell is found among its dependents.
LEMMA NewDependents ==
  ASSUME NEW d, IsInMemory(d)
  PROVE  /\ \A f \in FormulaCells(d) : \A c \in Deps(d, f) : f \in DirectDependents(NewGraph(d), c)
         /\ \A c : DirectDependents(NewGraph(d), c) \subseteq FormulaCells(d)
<1> DEFINE g == NewGraph(d)
<1>1. /\ DOMAIN g.references = FormulaCells(d) /\ DOMAIN g.columns = FormulaCells(d)
      /\ \A f \in FormulaCells(d) : /\ g.references[f] = DirectReferences(Formula(d, f))
                                    /\ g.columns[f] = Formula(d, f).columns
      /\ DOMAIN g.slotColumn = ReadSlots(d) /\ \A c \in ReadSlots(d) : g.slotColumn[c] = ColumnOf(d, c)
  BY NewGraphIs
<1> HIDE DEF g
<1>2. ASSUME NEW c PROVE DirectDependents(g, c) \subseteq FormulaCells(d)
  BY <1>1 DEF DirectDependents, CellReaders, ColumnReaders
<1>3. ASSUME NEW f \in FormulaCells(d), NEW c \in Deps(d, f) PROVE f \in DirectDependents(g, c)
  <2>1. CASE c \in DirectReferences(Formula(d, f))
    BY <1>1, <2>1 DEF DirectDependents, CellReaders
  <2>2. CASE \E k \in Formula(d, f).columns : c \in Slots(d, k)
    <3>1. PICK k \in Formula(d, f).columns : c \in Slots(d, k)
      BY <2>2
    <3>2. k = <<k[1], k[2]>>
      BY DEF IsInMemory, IsParsed
    <3>3. ColumnOf(d, c) = k
      BY <3>1, <3>2 DEF ColumnOf, Slots
    <3>4. c \in ReadSlots(d)
      BY <3>1 DEF ReadSlots, ReadColumns
    <3>5. k \in Entry(g.slotColumn, c)
      BY <1>1, <3>3, <3>4 DEF Entry
    <3>6. f \in ColumnReaders(g, k)
      BY <1>1, <3>1 DEF ColumnReaders
    <3> QED BY <3>5, <3>6 DEF DirectDependents
  <2> QED BY <2>1, <2>2 DEF Deps, ExtractDependencies
<1> QED BY <1>2, <1>3 DEF g

-----------------------------------------------------------------------------
(* Cycles.                                                                 *)

\* The dependencies among some formulas.
Among(d, places) == [f \in places |-> Deps(d, f) \intersect places]

Reaches(d, places, f) == Reached(Among(d, places), Among(d, places)[f])
OnCycles(d, places) == {f \in places : f \in Reaches(d, places, f)}
CycleOf(d, places, f) == {c \in places : c \in Reaches(d, places, f) /\ f \in Reaches(d, places, c)}

LEMMA CycleFailuresAre ==
  ASSUME NEW d, IsInMemory(d), NEW places, places \subseteq FormulaCells(d)
  PROVE  /\ IsNetwork(Among(d, places), places)
         /\ IsMap(CycleFailures(NewGraph(d), places))
         /\ DOMAIN CycleFailures(NewGraph(d), places) = OnCycles(d, places)
         /\ \A f \in OnCycles(d, places) :
              CycleFailures(NewGraph(d), places)[f] = <<"cycle", CycleOf(d, places, f)>>
<1> DEFINE next == Among(d, places)
           all == [f \in places |-> Reached(next, next[f])]
<1>1. IsFiniteSet(places)
  BY CellsAreFinite, FS_Subset
<1>2. IsNetwork(next, places)
  BY <1>1 DEF IsNetwork, Among
<1>3. next = [f \in places |-> DependenciesOf(NewGraph(d), f) \intersect places]
  BY NewDependencies DEF Among
<1>4. CycleFailures(NewGraph(d), places) =
        [f \in {f \in places : f \in all[f]} |-> <<"cycle", {c \in all[f] : f \in all[c]}>>]
  BY <1>3 DEF CycleFailures
<1>5. ASSUME NEW f \in places PROVE all[f] \subseteq places
  <2>1. next[f] \subseteq places
    BY DEF Among
  <2>2. Reached(next, next[f]) \subseteq places
    BY <1>2, <2>1, ReachedIs
  <2> QED BY <2>2
<1> HIDE DEF next
<1>6. \A f \in places : all[f] = Reached(next, next[f])
  OBVIOUS
<1> HIDE DEF all
<1>7. CycleFailures(NewGraph(d), places) =
        [f \in {f \in places : f \in Reached(next, next[f])} |->
           <<"cycle", {c \in Reached(next, next[f]) : f \in Reached(next, next[c])}>>]
  <2>1. {f \in places : f \in all[f]} = {f \in places : f \in Reached(next, next[f])}
    BY <1>6
  <2>2. ASSUME NEW f \in places
        PROVE  {c \in all[f] : f \in all[c]} = {c \in Reached(next, next[f]) : f \in Reached(next, next[c])}
    BY <1>5, <1>6
  <2> QED BY <1>4, <2>1, <2>2
<1>8. \A f \in places : {c \in Reached(next, next[f]) : f \in Reached(next, next[c])} =
                           {c \in places : c \in Reached(next, next[f]) /\ f \in Reached(next, next[c])}
  BY <1>5, <1>6
<1> DEFINE cycles == CycleFailures(NewGraph(d), places)
<1> HIDE DEF cycles
<1>9. /\ IsMap(cycles) /\ DOMAIN cycles = {f \in places : f \in Reached(next, next[f])}
      /\ \A f \in DOMAIN cycles : cycles[f] =
           <<"cycle", {c \in places : c \in Reached(next, next[f]) /\ f \in Reached(next, next[c])}>>
  BY <1>7, <1>8 DEF cycles, IsMap
<1> QED BY <1>2, <1>9 DEF next, cycles, OnCycles, CycleOf, Reaches

\* Among formulas that are on no cycle, some depends on none of them.
LEMMA SomeIsReady ==
  ASSUME NEW d, IsInMemory(d), NEW places, places \subseteq FormulaCells(d),
         NEW L, L \subseteq places \ DOMAIN CycleFailures(NewGraph(d), places), L # {}
  PROVE  \E f \in L : Deps(d, f) \intersect L = {}
<1> SUFFICES ASSUME \A f \in L : Deps(d, f) \intersect L # {} PROVE FALSE
  OBVIOUS
<1> DEFINE next == Among(d, places)
<1>1. IsNetwork(next, places)
  BY CycleFailuresAre
<1>2. \A f \in L : next[f] \intersect L # {}
  BY DEF Among
<1>3. DOMAIN CycleFailures(NewGraph(d), places) = {f \in places : f \in Reached(next, next[f])}
  <2>1. DOMAIN CycleFailures(NewGraph(d), places) = OnCycles(d, places)
    BY CycleFailuresAre
  <2> QED BY <2>1 DEF OnCycles, Reaches
<1> HIDE DEF next
<1>4. PICK f \in L : f \in Reached(next, next[f])
  BY <1>1, <1>2, CycleExists
<1> QED BY <1>3, <1>4

Eligible(d) == {f \in FormulaCells(d) : PregraphFailure(d, f) = {}}
Cycles(d) == CycleFailures(NewGraph(d), Eligible(d))

\* Cells with everything that depends on them.
IsClosed(d, dirty) == \A f \in FormulaCells(d) \ dirty : Deps(d, f) \intersect dirty = {}

\* The cycles of a closed part are the cycles in it.
LEMMA CyclesAmongDirty ==
  ASSUME NEW d, IsInMemory(d), NEW dirty, IsClosed(d, dirty)
  PROVE  /\ IsMap(CycleFailures(NewGraph(d), dirty \intersect Eligible(d)))
         /\ \A f : f \in DOMAIN CycleFailures(NewGraph(d), dirty \intersect Eligible(d)) <=>
                   f \in DOMAIN Cycles(d) /\ f \in dirty
         /\ \A f \in DOMAIN CycleFailures(NewGraph(d), dirty \intersect Eligible(d)) :
              CycleFailures(NewGraph(d), dirty \intersect Eligible(d))[f] = Cycles(d)[f]
<1> DEFINE places == Eligible(d)
           inner == dirty \intersect Eligible(d)
           next == Among(d, places)
           within == Among(d, inner)
<1>1. places \subseteq FormulaCells(d) /\ inner \subseteq FormulaCells(d) /\ inner \subseteq places
  BY DEF Eligible
<1>2. IsNetwork(next, places)
  BY <1>1, CycleFailuresAre
<1>3. \A f \in places \ inner : next[f] \intersect inner = {}
  BY <1>1 DEF IsClosed, Among
<1>4. DOMAIN within = inner /\ \A f \in inner : within[f] = next[f] \intersect inner
  BY <1>1 DEF Among
<1> HIDE DEF next, within, places, inner
<1> DEFINE all(f) == Reaches(d, places, f)
           some(f) == Reaches(d, inner, f)
<1>5. /\ \A f \in inner : some(f) = all(f) \intersect inner
      /\ \A f \in inner, c \in places : f \in all(c) => c \in inner
  <2>1. /\ \A f \in inner : Reached(within, within[f]) = Reached(next, next[f]) \intersect inner
        /\ \A f \in inner, c \in places : f \in Reached(next, next[c]) => c \in inner
    BY <1>1, <1>2, <1>3, <1>4, CyclesWithin
  <2> QED BY <2>1 DEF Reaches, next, within
<1> HIDE DEF all, some
<1>6. OnCycles(d, inner) = OnCycles(d, places) \intersect dirty
  BY <1>1, <1>5 DEF inner, places, OnCycles, all, some
<1>7. \A f \in OnCycles(d, inner) : CycleOf(d, inner, f) = CycleOf(d, places, f)
  BY <1>1, <1>5 DEF CycleOf, OnCycles, all, some
<1>8. /\ IsMap(CycleFailures(NewGraph(d), inner))
      /\ DOMAIN CycleFailures(NewGraph(d), inner) = OnCycles(d, inner)
      /\ \A f \in OnCycles(d, inner) : CycleFailures(NewGraph(d), inner)[f] = <<"cycle", CycleOf(d, inner, f)>>
  BY <1>1, CycleFailuresAre
<1>9. /\ DOMAIN CycleFailures(NewGraph(d), places) = OnCycles(d, places)
      /\ \A f \in OnCycles(d, places) : CycleFailures(NewGraph(d), places)[f] = <<"cycle", CycleOf(d, places, f)>>
  BY <1>1, CycleFailuresAre
<1> QED BY <1>6, <1>7, <1>8, <1>9 DEF inner, places, Cycles

-----------------------------------------------------------------------------
(* Settling, in the order of the dependencies.                             *)

IsSettling(run, d, g, values, failures, formulas, n) ==
  run = [k \in 0 .. n |-> IF k = 0 THEN [values |-> values, failures |-> failures]
                          ELSE Settle(d, g, run[k - 1], formulas)]

LEMMA SettlingExists ==
  ASSUME NEW d, NEW g, NEW values, NEW failures, NEW formulas, NEW N \in Nat
  PROVE  \E run : IsSettling(run, d, g, values, failures, formulas, N)
<1> DEFINE Is(run, n) == IsSettling(run, d, g, values, failures, formulas, n)
           start == [values |-> values, failures |-> failures]
           S == {n \in 0 .. N : \E run : Is(run, n)}
<1>1. 0 \in S
  <2>1. Is([k \in 0 .. 0 |-> start], 0)
    BY DEF IsSettling
  <2> QED BY <2>1
<1>2. ASSUME NEW n \in 1 .. N, n - 1 \in S PROVE n \in S
  <2>1. PICK run : Is(run, n - 1)
    BY <1>2
  <2> DEFINE last == Settle(d, g, run[n - 1], formulas)
             longer == [k \in 0 .. n |-> IF k = n THEN last ELSE run[k]]
  <2>2. longer[n] = last /\ \A k \in 0 .. n - 1 : longer[k] = run[k]
    OBVIOUS
  <2>3. \A k \in 0 .. n - 1 : run[k] = IF k = 0 THEN start ELSE Settle(d, g, run[k - 1], formulas)
    BY <2>1 DEF IsSettling
  <2>4. ASSUME NEW k \in 0 .. n
        PROVE  longer[k] = IF k = 0 THEN start ELSE Settle(d, g, longer[k - 1], formulas)
    <3> HIDE DEF longer, start
    <3>1. CASE k = n
      <4>1. longer[k - 1] = run[n - 1] /\ k # 0
        BY <2>2, <3>1
      <4> QED BY <2>2, <3>1, <4>1
    <3>2. CASE k # n
      <4>1. k \in 0 .. n - 1 /\ (k # 0 => k - 1 \in 0 .. n - 1)
        BY <3>2
      <4>2. k # 0 => longer[k - 1] = run[k - 1]
        BY <2>2, <4>1
      <4> QED BY <2>2, <2>3, <4>1, <4>2
    <3> QED BY <3>1, <3>2
  <2>5. Is(longer, n)
    BY <2>4 DEF IsSettling
  <2> QED BY <2>5
<1> HIDE DEF S
<1>3. N \in S
  BY <1>1, <1>2, SegmentInduction
<1> QED BY <1>3 DEF S

LEMMA SettledIsSettling ==
  ASSUME NEW d, NEW g, NEW values, NEW failures, NEW formulas, Cardinality(formulas) \in Nat
  PROVE  \E run : LET last == run[Cardinality(formulas)]
                  IN /\ IsSettling(run, d, g, values, failures, formulas, Cardinality(formulas))
                     /\ Settled(d, g, values, failures, formulas) =
                          [values |-> last.values, failures |-> last.failures, graph |-> g]
<1> DEFINE N == Cardinality(formulas)
           step == CHOOSE run : IsSettling(run, d, g, values, failures, formulas, N)
<1>1. IsSettling(step, d, g, values, failures, formulas, N)
  BY SettlingExists
<1>2. Settled(d, g, values, failures, formulas) =
        [values |-> step[N].values, failures |-> step[N].failures, graph |-> g]
  BY DEF Settled, IsSettling
<1> QED BY <1>1, <1>2

\* A state holds what a formula comes to in it.
IsEvaluated(d, s, f) ==
  LET result == Evaluate(d, s.values, s.failures, Formula(d, f))
  IN IF Kind(result) = "number" THEN f \in DOMAIN s.values /\ s.values[f] = result
     ELSE f \in DOMAIN s.failures /\ s.failures[f] = result

LEMMA EvaluateAlike ==
  ASSUME NEW d, NEW f, NEW v, NEW w, NEW u, NEW h,
         Alike(v, w, Deps(d, f)), Alike(u, h, Deps(d, f))
  PROVE  Evaluate(d, v, u, Formula(d, f)) = Evaluate(d, w, h, Formula(d, f))
<1> DEFINE x == Formula(d, f)
<1>1. ReadBy(d, x) \subseteq Deps(d, f) /\ x.cells \subseteq Deps(d, f)
  BY DEF ReadBy, Deps, ExtractDependencies, DirectReferences, ColumnCells
<1>2. Alike(v, w, ReadBy(d, x)) /\ Alike(u, h, ReadBy(d, x))
  BY <1>1 DEF Alike
<1>3. \A c \in x.cells : Readable(d, v, c) <=> Readable(d, w, c)
  BY <1>1 DEF Alike, Readable
<1> HIDE DEF x
<1>4. Evaluate(d, v, u, x) = Evaluate(d, w, h, x)
  BY <1>2, <1>3, EvaluateSame
<1> QED BY <1>4 DEF x

LEMMA EvaluatedStays ==
  ASSUME NEW d, NEW f, NEW s, NEW t, IsEvaluated(d, s, f),
         Alike(s.values, t.values, Deps(d, f) \union {f}),
         Alike(s.failures, t.failures, Deps(d, f) \union {f})
  PROVE  IsEvaluated(d, t, f)
<1>1. Alike(s.values, t.values, Deps(d, f)) /\ Alike(s.failures, t.failures, Deps(d, f))
  BY DEF Alike
<1>2. Evaluate(d, s.values, s.failures, Formula(d, f)) = Evaluate(d, t.values, t.failures, Formula(d, f))
  BY <1>1, EvaluateAlike
<1>3. /\ f \in DOMAIN s.values <=> f \in DOMAIN t.values
      /\ f \in DOMAIN s.values => s.values[f] = t.values[f]
      /\ f \in DOMAIN s.failures <=> f \in DOMAIN t.failures
      /\ f \in DOMAIN s.failures => s.failures[f] = t.failures[f]
  BY DEF Alike
<1> QED BY <1>2, <1>3 DEF IsEvaluated

\* What is still to be evaluated of new, and what holds of the rest meanwhile.
LeftOf(s, new) == new \ (DOMAIN s.values \union DOMAIN s.failures)
IsExtension(m, n, new) ==
  /\ IsMap(n) /\ DOMAIN m \subseteq DOMAIN n /\ DOMAIN n \subseteq (DOMAIN m) \union new
  /\ \A c \in DOMAIN m : n[c] = m[c]
IsSettledSoFar(d, s, values, failures, new) ==
  /\ IsExtension(values, s.values, new) /\ IsExtension(failures, s.failures, new)
  /\ (DOMAIN s.values) \intersect DOMAIN s.failures = {}
  /\ \A f \in new \ LeftOf(s, new) : Deps(d, f) \intersect LeftOf(s, new) = {} /\ IsEvaluated(d, s, f)

NotIn(values, failures, formulas) == formulas \ ((DOMAIN values) \union DOMAIN failures)

LEMMA SettleKeeps ==
  ASSUME NEW d, NEW values, NEW failures, NEW formulas, formulas \subseteq FormulaCells(d),
         NEW new, new = NotIn(values, failures, formulas),
         NEW s, IsSettledSoFar(d, s, values, failures, new)
  PROVE  /\ IsSettledSoFar(d, Settle(d, NewGraph(d), s, formulas), values, failures, new)
         /\ \A f : f \in LeftOf(Settle(d, NewGraph(d), s, formulas), new) <=>
                   f \in LeftOf(s, new) /\ Deps(d, f) \intersect LeftOf(s, new) # {}
<1> DEFINE t == Settle(d, NewGraph(d), s, formulas)
           left == formulas \ (DOMAIN s.values \union DOMAIN s.failures)
           ready == {f \in left : Deps(d, f) \intersect left = {}}
           result == [f \in ready |-> Evaluate(d, s.values, s.failures, Formula(d, f))]
           good == {f \in ready : Kind(result[f]) = "number"}
           bad == ready \ good
<1>1. left = LeftOf(s, new)
  BY DEF LeftOf, IsSettledSoFar, IsExtension, NotIn
<1>2. ready = {f \in left : DependenciesOf(NewGraph(d), f) \intersect left = {}}
  BY NewDependencies
<1>3. t = [values |-> Over(Restrict(result, good), s.values),
           failures |-> Over(Restrict(result, bad), s.failures)]
  BY <1>2 DEF Settle
<1>4. /\ IsMap(t.values) /\ DOMAIN t.values = good \union DOMAIN s.values
      /\ \A f \in good : t.values[f] = result[f]
      /\ \A c \in (DOMAIN s.values) \ good : t.values[c] = s.values[c]
  <2>1. IsMap(Restrict(result, good)) /\ DOMAIN Restrict(result, good) = good
        /\ \A f \in good : Restrict(result, good)[f] = result[f]
    BY DEF Restrict, IsMap
  <2>2. IsMap(s.values)
    BY DEF IsSettledSoFar, IsExtension
  <2> HIDE DEF result, good, t
  <2> QED BY <1>3, <2>1, <2>2, OverIs, SMTT(30)
<1>5. /\ IsMap(t.failures) /\ DOMAIN t.failures = bad \union DOMAIN s.failures
      /\ \A f \in bad : t.failures[f] = result[f]
      /\ \A c \in (DOMAIN s.failures) \ bad : t.failures[c] = s.failures[c]
  <2>1. IsMap(Restrict(result, bad)) /\ DOMAIN Restrict(result, bad) = bad
        /\ \A f \in bad : Restrict(result, bad)[f] = result[f]
    BY DEF Restrict, IsMap
  <2>2. IsMap(s.failures)
    BY DEF IsSettledSoFar, IsExtension
  <2> HIDE DEF result, bad, left, ready, good
  <2>3. t.failures = Over(Restrict(result, bad), s.failures)
    BY <1>3
  <2> DEFINE m == Restrict(result, bad)
  <2> HIDE DEF t, m
  <2>4. /\ IsMap(Over(m, s.failures)) /\ DOMAIN Over(m, s.failures) = (DOMAIN m) \union DOMAIN s.failures
        /\ \A f \in DOMAIN m : Over(m, s.failures)[f] = m[f]
        /\ \A c \in (DOMAIN s.failures) \ DOMAIN m : Over(m, s.failures)[c] = s.failures[c]
    BY <2>1, <2>2, OverIs DEF m
  <2> QED BY <2>1, <2>3, <2>4 DEF m
<1>6. \A f \in ready : result[f] = Evaluate(d, s.values, s.failures, Formula(d, f))
  OBVIOUS
<1>7. good \subseteq ready /\ bad = ready \ good /\ ready \subseteq left /\ \A f \in ready : f \in good <=> Kind(result[f]) = "number"
  OBVIOUS
<1>8. \A f \in left : f \in ready <=> Deps(d, f) \intersect left = {}
  OBVIOUS
<1>9. left \subseteq new /\ left \intersect (DOMAIN s.values \union DOMAIN s.failures) = {}
  BY <1>1 DEF LeftOf
<1> HIDE DEF t, left, ready, result, good, bad
<1>10. LeftOf(t, new) = left \ ready
  BY <1>1, <1>4, <1>5, <1>7 DEF LeftOf
<1>11. IsExtension(values, t.values, new) /\ IsExtension(failures, t.failures, new)
  BY <1>4, <1>5, <1>7, <1>9 DEF IsExtension, IsSettledSoFar
<1>12. (DOMAIN t.values) \intersect DOMAIN t.failures = {}
  BY <1>4, <1>5, <1>7, <1>9 DEF IsSettledSoFar
<1>13. ASSUME NEW c, c \notin left
       PROVE  /\ c \in DOMAIN s.values <=> c \in DOMAIN t.values
              /\ c \in DOMAIN s.values => s.values[c] = t.values[c]
              /\ c \in DOMAIN s.failures <=> c \in DOMAIN t.failures
              /\ c \in DOMAIN s.failures => s.failures[c] = t.failures[c]
  BY <1>4, <1>5, <1>7, <1>13
<1>14. ASSUME NEW f \in new \ LeftOf(t, new)
       PROVE  Deps(d, f) \intersect LeftOf(t, new) = {} /\ IsEvaluated(d, t, f)
  <2>1. CASE f \notin left
    <3>1. Deps(d, f) \intersect left = {} /\ IsEvaluated(d, s, f)
      BY <1>1, <1>14, <2>1 DEF IsSettledSoFar
    <3>2. /\ Alike(s.values, t.values, Deps(d, f) \union {f})
          /\ Alike(s.failures, t.failures, Deps(d, f) \union {f})
      BY <1>13, <2>1, <3>1 DEF Alike
    <3>3. IsEvaluated(d, t, f)
      BY <3>1, <3>2, EvaluatedStays
    <3> QED BY <1>10, <3>1, <3>3
  <2>2. CASE f \in left
    <3>1. f \in ready /\ Deps(d, f) \intersect left = {}
      BY <1>8, <1>10, <1>14, <2>2
    <3>2. Alike(s.values, t.values, Deps(d, f)) /\ Alike(s.failures, t.failures, Deps(d, f))
      BY <1>13, <3>1 DEF Alike
    <3>3. result[f] = Evaluate(d, t.values, t.failures, Formula(d, f))
      BY <1>6, <3>1, <3>2, EvaluateAlike
    <3>4. IsEvaluated(d, t, f)
      BY <1>4, <1>5, <1>7, <3>1, <3>3 DEF IsEvaluated
    <3> QED BY <1>10, <3>1, <3>4
  <2> QED BY <2>1, <2>2
<1>15. IsSettledSoFar(d, t, values, failures, new)
  BY <1>11, <1>12, <1>14 DEF IsSettledSoFar
<1>16. \A f : f \in LeftOf(t, new) <=> f \in LeftOf(s, new) /\ Deps(d, f) \intersect LeftOf(s, new) # {}
  BY <1>1, <1>7, <1>8, <1>10
<1> QED BY <1>15, <1>16 DEF t

\* Settled, when among the formulas left some never depends on the others.
LEMMA SettledIs ==
  ASSUME NEW d, IsInMemory(d), NEW values, NEW failures, IsMap(values), IsMap(failures),
         (DOMAIN values) \intersect DOMAIN failures = {},
         NEW formulas, formulas \subseteq FormulaCells(d),
         NEW new, new = NotIn(values, failures, formulas),
         \A L \in SUBSET new : L # {} => \E f \in L : Deps(d, f) \intersect L = {}
  PROVE  LET s == Settled(d, NewGraph(d), values, failures, formulas)
         IN /\ s = [values |-> s.values, failures |-> s.failures, graph |-> NewGraph(d)]
            /\ IsSettledSoFar(d, s, values, failures, new) /\ LeftOf(s, new) = {}
<1> DEFINE N == Cardinality(formulas)
<1>1. IsFiniteSet(formulas) /\ N \in Nat
  BY CellsAreFinite, FS_Subset, FS_CardinalityType
<1>2. PICK run : /\ IsSettling(run, d, NewGraph(d), values, failures, formulas, N)
                 /\ Settled(d, NewGraph(d), values, failures, formulas) =
                      [values |-> run[N].values, failures |-> run[N].failures, graph |-> NewGraph(d)]
  BY <1>1, SettledIsSettling
<1>3. /\ run[0] = [values |-> values, failures |-> failures]
      /\ \A k \in 1 .. N : run[k] = Settle(d, NewGraph(d), run[k - 1], formulas)
  <2>1. \A k \in 0 .. N : run[k] = IF k = 0 THEN [values |-> values, failures |-> failures]
                                   ELSE Settle(d, NewGraph(d), run[k - 1], formulas)
    BY <1>2 DEF IsSettling
  <2>2. 0 \in 0 .. N /\ \A k \in 1 .. N : k \in 0 .. N /\ k # 0
    BY <1>1
  <2> HIDE DEF N
  <2> QED BY <2>1, <2>2
<1> DEFINE left(k) == LeftOf(run[k], new)
           S == {k \in 0 .. N : /\ IsSettledSoFar(d, run[k], values, failures, new)
                                /\ Cardinality(left(k)) <= N - k}
<1>4. \A k : IsFiniteSet(left(k)) /\ Cardinality(left(k)) \in Nat
  <2> SUFFICES ASSUME NEW k PROVE IsFiniteSet(left(k))
    BY FS_CardinalityType
  <2>1. left(k) \subseteq formulas
    BY DEF LeftOf, NotIn
  <2> HIDE DEF left
  <2> QED BY <1>1, <2>1, FS_Subset
<1>5. 0 \in S
  <2>1. run[0].values = values /\ run[0].failures = failures
    BY <1>3
  <2>2. left(0) = new
    BY <2>1 DEF LeftOf, NotIn
  <2>3. IsSettledSoFar(d, run[0], values, failures, new)
    BY <2>1, <2>2 DEF IsSettledSoFar, IsExtension
  <2>4. left(0) \subseteq formulas
    BY <2>2 DEF NotIn
  <2> HIDE DEF left
  <2>5. Cardinality(left(0)) <= N
    BY <1>1, <2>4, FS_Subset
  <2> HIDE DEF N
  <2>6. 0 \in 0 .. N /\ N - 0 = N
    BY <1>1
  <2> QED BY <2>3, <2>5, <2>6
<1>6. ASSUME NEW k \in 1 .. N, k - 1 \in S PROVE k \in S
  <2>1. IsSettledSoFar(d, run[k - 1], values, failures, new) /\ Cardinality(left(k - 1)) <= N - (k - 1)
    BY <1>6
  <2>2. /\ IsSettledSoFar(d, run[k], values, failures, new)
        /\ \A f : f \in left(k) <=> f \in left(k - 1) /\ Deps(d, f) \intersect left(k - 1) # {}
    <3>1. run[k] = Settle(d, NewGraph(d), run[k - 1], formulas)
      BY <1>3
    <3> HIDE DEF N, S
    <3>2. /\ IsSettledSoFar(d, Settle(d, NewGraph(d), run[k - 1], formulas), values, failures, new)
          /\ \A f : f \in LeftOf(Settle(d, NewGraph(d), run[k - 1], formulas), new) <=>
                     f \in LeftOf(run[k - 1], new) /\ Deps(d, f) \intersect LeftOf(run[k - 1], new) # {}
      BY <2>1, SettleKeeps
    <3> QED BY <3>1, <3>2
  <2>3. left(k) \subseteq left(k - 1) /\ left(k - 1) \subseteq new
    BY <2>2 DEF LeftOf
  <2>4. Cardinality(left(k)) <= N - k
    <3> HIDE DEF left
    <3>0. k \in Nat /\ k <= N /\ k >= 1
      BY <1>1
    <3>1. CASE left(k - 1) = {}
      <4>1. left(k) = {}
        BY <2>3, <3>1
      <4> HIDE DEF N
      <4> QED BY <1>1, <3>0, <4>1, FS_EmptySet
    <3>2. CASE left(k - 1) # {}
      <4>1. PICK f \in left(k - 1) : Deps(d, f) \intersect left(k - 1) = {}
        BY <2>3, <3>2
      <4>2. left(k) # left(k - 1)
        BY <2>2, <4>1
      <4>3. /\ Cardinality(left(k)) <= Cardinality(left(k - 1))
            /\ Cardinality(left(k)) # Cardinality(left(k - 1))
        BY <1>4, <2>3, <4>2, FS_Subset
      <4>4. Cardinality(left(k)) \in Nat /\ Cardinality(left(k - 1)) \in Nat
        BY <1>4
      <4> HIDE DEF N
      <4> QED BY <1>1, <2>1, <3>0, <4>3, <4>4
    <3> QED BY <3>1, <3>2
  <2>5. k \in 0 .. N
    BY <1>1
  <2> QED BY <2>2, <2>4, <2>5
<1>7. IsSettledSoFar(d, run[N], values, failures, new) /\ left(N) = {}
  <2>1. N \in S
    <3> HIDE DEF S, N
    <3>1. 0 .. N \subseteq S
      BY <1>1, <1>5, <1>6, SegmentInduction
    <3> QED BY <1>1, <3>1
  <2>2. Cardinality(left(N)) <= N - N
    BY <2>1
  <2> HIDE DEF left
  <2>3. Cardinality(left(N)) = 0
    <3>1. Cardinality(left(N)) \in Nat
      BY <1>4
    <3> HIDE DEF N
    <3> QED BY <1>1, <2>2, <3>1
  <2>4. left(N) = {}
    BY <1>4, <2>3, FS_EmptySet
  <2> QED BY <2>1, <2>4
<1> DEFINE s == Settled(d, NewGraph(d), values, failures, formulas)
<1>8. s = [values |-> s.values, failures |-> s.failures, graph |-> NewGraph(d)]
      /\ s.values = run[N].values /\ s.failures = run[N].failures
  BY <1>2
<1> HIDE DEF s, N, S
<1>9. IsSettledSoFar(d, s, values, failures, new) /\ LeftOf(s, new) = {}
  BY <1>7, <1>8 DEF IsSettledSoFar, LeftOf, IsEvaluated
<1> QED BY <1>8, <1>9 DEF s

-----------------------------------------------------------------------------
(* The calculation of a document, by what it holds of each cell.           *)

\* A state holds of a cell what its phases find.
IsRightAt(d, s, c) ==
  LET failure == PregraphFailure(d, c)
  IN IF failure # {} THEN c \in DOMAIN s.failures /\ s.failures[c] = The(failure)
     ELSE IF c \notin FormulaCells(d) THEN c \in DOMAIN s.values /\ s.values[c] = Stored(d, c)
     ELSE IF c \in DOMAIN Cycles(d) THEN c \in DOMAIN s.failures /\ s.failures[c] = Cycles(d)[c]
     ELSE IsEvaluated(d, s, c)

\* Each cell that is calculated has a value or a failure, and not both.
Covering(d, s) ==
  /\ IsMap(s.values) /\ IsMap(s.failures)
  /\ (DOMAIN s.values) \intersect DOMAIN s.failures = {}
  /\ (DOMAIN s.values) \union DOMAIN s.failures = CalculationCells(d)

IsCalculation(d, s) ==
  /\ s = [values |-> s.values, failures |-> s.failures, graph |-> NewGraph(d)]
  /\ Covering(d, s)
  /\ \A c \in CalculationCells(d) : IsRightAt(d, s, c)

\* A document has one calculation.
LEMMA CalculationIsUnique ==
  ASSUME NEW d, IsInMemory(d), NEW s, NEW t, IsCalculation(d, s), IsCalculation(d, t)
  PROVE  s = t
<1> DEFINE same(c) == /\ c \in DOMAIN s.values <=> c \in DOMAIN t.values
                      /\ c \in DOMAIN s.values => s.values[c] = t.values[c]
                      /\ c \in DOMAIN s.failures <=> c \in DOMAIN t.failures
                      /\ c \in DOMAIN s.failures => s.failures[c] = t.failures[c]
           L == {c \in CalculationCells(d) : ~same(c)}
<1>1. \A c : c \notin L => same(c)
  BY DEF IsCalculation, Covering
<1>2. ASSUME NEW c \in L
      PROVE  /\ c \in Eligible(d) \ DOMAIN Cycles(d) /\ Deps(d, c) \intersect L # {}
  <2>1. /\ IsRightAt(d, s, c) /\ IsRightAt(d, t, c) /\ ~same(c)
        /\ ~(c \in DOMAIN s.values /\ c \in DOMAIN s.failures)
        /\ ~(c \in DOMAIN t.values /\ c \in DOMAIN t.failures)
    BY DEF IsCalculation, Covering
  <2> HIDE DEF L
  <2>2. c \in FormulaCells(d) /\ PregraphFailure(d, c) = {} /\ c \notin DOMAIN Cycles(d)
    BY <2>1 DEF IsRightAt
  <2>3. IsEvaluated(d, s, c) /\ IsEvaluated(d, t, c)
    BY <2>1, <2>2 DEF IsRightAt
  <2>4. ASSUME Deps(d, c) \intersect L = {} PROVE FALSE
    <3>1. Alike(s.values, t.values, Deps(d, c)) /\ Alike(s.failures, t.failures, Deps(d, c))
      BY <1>1, <2>4 DEF Alike
    <3>2. Evaluate(d, s.values, s.failures, Formula(d, c)) = Evaluate(d, t.values, t.failures, Formula(d, c))
      BY <3>1, EvaluateAlike
    <3> QED BY <2>1, <2>3, <3>2 DEF IsEvaluated
  <2> QED BY <2>2, <2>4 DEF Eligible
<1> HIDE DEF L
<1>3. L = {}
  <2> SUFFICES ASSUME L # {} PROVE FALSE
    OBVIOUS
  <2>1. L \subseteq Eligible(d) \ DOMAIN CycleFailures(NewGraph(d), Eligible(d))
    BY <1>2 DEF Cycles
  <2>2. Eligible(d) \subseteq FormulaCells(d)
    BY DEF Eligible
  <2>3. PICK f \in L : Deps(d, f) \intersect L = {}
    BY <2>1, <2>2, SomeIsReady
  <2> QED BY <1>2, <2>3
<1>4. \A c : same(c)
  BY <1>1, <1>3
<1>5. s.values = t.values
  <2>1. IsMap(s.values) /\ IsMap(t.values)
    BY DEF IsCalculation, Covering
  <2>2. DOMAIN s.values = DOMAIN t.values /\ \A c \in DOMAIN s.values : s.values[c] = t.values[c]
    BY <1>4
  <2> QED BY <2>1, <2>2, MapsEqual
<1>6. s.failures = t.failures
  <2>1. IsMap(s.failures) /\ IsMap(t.failures)
    BY DEF IsCalculation, Covering
  <2>2. DOMAIN s.failures = DOMAIN t.failures /\ \A c \in DOMAIN s.failures : s.failures[c] = t.failures[c]
    BY <1>4
  <2> QED BY <2>1, <2>2, MapsEqual
<1>7. /\ s = [values |-> s.values, failures |-> s.failures, graph |-> NewGraph(d)]
      /\ t = [values |-> t.values, failures |-> t.failures, graph |-> NewGraph(d)]
  BY DEF IsCalculation
<1> QED BY <1>5, <1>6, <1>7

\* What is kept of the cells that are not dirty is right.
IsKept(d, kept, dirty) ==
  /\ (DOMAIN kept.values) \intersect DOMAIN kept.failures \subseteq dirty
  /\ ((DOMAIN kept.values) \union DOMAIN kept.failures) \ dirty = CalculationCells(d) \ dirty
  /\ \A c \in CalculationCells(d) \ dirty : IsRightAt(d, kept, c)

\* The phases over the dirty cells: where each puts what.
ArePhases(d, kept, dirty, values, failures, new) ==
  /\ IsMap(values) /\ IsMap(failures)
  /\ new = NotIn(values, failures, dirty \intersect FormulaCells(d))
  /\ new = (dirty \intersect Eligible(d)) \ DOMAIN Cycles(d)
  /\ Recomputed(d, NewGraph(d), kept, dirty) =
       Settled(d, NewGraph(d), values, failures, dirty \intersect FormulaCells(d))
  /\ \A c : c \notin dirty =>
       /\ c \in DOMAIN values <=> c \in DOMAIN kept.values
       /\ c \in DOMAIN values => values[c] = kept.values[c]
       /\ c \in DOMAIN failures <=> c \in DOMAIN kept.failures
       /\ c \in DOMAIN failures => failures[c] = kept.failures[c]
  /\ \A c \in dirty :
       LET failing == c \in CalculationCells(d) /\ PregraphFailure(d, c) # {}
       IN /\ c \in DOMAIN failures <=> failing \/ c \in DOMAIN Cycles(d)
          /\ failing => failures[c] = The(PregraphFailure(d, c))
          /\ ~failing /\ c \in DOMAIN Cycles(d) => failures[c] = Cycles(d)[c]
          /\ c \in DOMAIN values <=> /\ c \in CalculationCells(d) \ FormulaCells(d)
                                     /\ PregraphFailure(d, c) = {}
          /\ c \in DOMAIN values => values[c] = Stored(d, c)

LEMMA PhasesAre ==
  ASSUME NEW d, IsInMemory(d), NEW kept, NEW dirty, IsClosed(d, dirty)
  PROVE  \E values, failures, new : ArePhases(d, kept, dirty, values, failures, new)
<1> DEFINE calc == CalculationCells(d)
           formulas == dirty \intersect FormulaCells(d)
           found == PregraphFailures(d, dirty \intersect calc)
           before == Leave(kept.failures, dirty)
           pregraph == Over(found, before)
           cycles == CycleFailures(NewGraph(d), formulas \ DOMAIN pregraph)
           failures == Over(cycles, pregraph)
           numbers == (dirty \intersect calc) \ (formulas \union DOMAIN failures)
           stored == [c \in numbers |-> Stored(d, c)]
           stay == Leave(kept.values, dirty)
           values == Over(stored, stay)
           new == NotIn(values, failures, formulas)
<1>1. Recomputed(d, NewGraph(d), kept, dirty) = Settled(d, NewGraph(d), values, failures, formulas)
  BY DEF Recomputed, AfterPregraph, Evaluated
<1>2. FormulaCells(d) \subseteq calc
  BY CellsAreFinite
<1>3. /\ IsMap(found) /\ DOMAIN found = {c \in dirty \intersect calc : PregraphFailure(d, c) # {}}
      /\ \A c \in DOMAIN found : found[c] = The(PregraphFailure(d, c))
  BY DEF PregraphFailures, IsMap
<1>4. /\ IsMap(before) /\ DOMAIN before = (DOMAIN kept.failures) \ dirty
      /\ \A c \in DOMAIN before : before[c] = kept.failures[c]
  BY DEF Leave, Restrict, IsMap
<1>5. /\ IsMap(stay) /\ DOMAIN stay = (DOMAIN kept.values) \ dirty
      /\ \A c \in DOMAIN stay : stay[c] = kept.values[c]
  BY DEF Leave, Restrict, IsMap
<1>6. IsMap(stored) /\ DOMAIN stored = numbers /\ \A c \in numbers : stored[c] = Stored(d, c)
  BY DEF IsMap
<1> HIDE DEF found, before, stay, stored
<1>7. /\ IsMap(pregraph) /\ DOMAIN pregraph = (DOMAIN found) \union DOMAIN before
      /\ \A c \in DOMAIN found : pregraph[c] = found[c]
      /\ \A c \in (DOMAIN before) \ DOMAIN found : pregraph[c] = before[c]
  BY <1>3, <1>4, OverIs, ZenonT(30)
<1> HIDE DEF pregraph
<1>8. formulas \ DOMAIN pregraph = dirty \intersect Eligible(d)
  BY <1>2, <1>3, <1>4, <1>7 DEF Eligible
<1>9. /\ IsMap(cycles) /\ DOMAIN cycles = (DOMAIN Cycles(d)) \intersect dirty
      /\ \A c \in DOMAIN cycles : cycles[c] = Cycles(d)[c]
  <2>1. cycles = CycleFailures(NewGraph(d), dirty \intersect Eligible(d))
    BY <1>8
  <2> HIDE DEF cycles
  <2>2. /\ IsMap(cycles) /\ \A f : f \in DOMAIN cycles <=> f \in DOMAIN Cycles(d) /\ f \in dirty
        /\ \A f \in DOMAIN cycles : cycles[f] = Cycles(d)[f]
    BY <2>1, CyclesAmongDirty
  <2> QED BY <2>2
<1>10. DOMAIN cycles \subseteq dirty \intersect Eligible(d)
  <2>1. DOMAIN CycleFailures(NewGraph(d), dirty \intersect Eligible(d)) = OnCycles(d, dirty \intersect Eligible(d))
    BY CycleFailuresAre DEF Eligible
  <2> QED BY <1>8, <2>1 DEF OnCycles
<1> HIDE DEF cycles
<1>11. /\ IsMap(failures) /\ DOMAIN failures = (DOMAIN cycles) \union DOMAIN pregraph
       /\ \A c \in DOMAIN cycles : failures[c] = cycles[c]
       /\ \A c \in (DOMAIN pregraph) \ DOMAIN cycles : failures[c] = pregraph[c]
  BY <1>7, <1>9, OverIs
<1> HIDE DEF failures
<1>12. /\ IsMap(values) /\ DOMAIN values = (DOMAIN stored) \union DOMAIN stay
       /\ \A c \in DOMAIN stored : values[c] = stored[c]
       /\ \A c \in (DOMAIN stay) \ DOMAIN stored : values[c] = stay[c]
  <2> HIDE DEF numbers
  <2> QED BY <1>5, <1>6, OverIs
<1> HIDE DEF values
<1>13. ASSUME NEW c, c \notin dirty
       PROVE  /\ c \in DOMAIN values <=> c \in DOMAIN kept.values
              /\ c \in DOMAIN values => values[c] = kept.values[c]
              /\ c \in DOMAIN failures <=> c \in DOMAIN kept.failures
              /\ c \in DOMAIN failures => failures[c] = kept.failures[c]
  BY <1>3, <1>4, <1>5, <1>6, <1>7, <1>9, <1>11, <1>12, <1>13
<1>14. ASSUME NEW c \in dirty
       PROVE  LET failing == c \in calc /\ PregraphFailure(d, c) # {}
              IN /\ c \in DOMAIN failures <=> failing \/ c \in DOMAIN Cycles(d)
                 /\ failing => failures[c] = The(PregraphFailure(d, c))
                 /\ ~failing /\ c \in DOMAIN Cycles(d) => failures[c] = Cycles(d)[c]
                 /\ c \in DOMAIN values <=> c \in calc \ FormulaCells(d) /\ PregraphFailure(d, c) = {}
                 /\ c \in DOMAIN values => values[c] = Stored(d, c)
  <2>1. c \in DOMAIN found <=> c \in calc /\ PregraphFailure(d, c) # {}
    BY <1>3
  <2>2. c \notin DOMAIN before /\ c \notin DOMAIN stay
    BY <1>4, <1>5
  <2>3. c \in DOMAIN cycles <=> c \in DOMAIN Cycles(d)
    BY <1>9
  <2>4. c \in DOMAIN cycles => c \in FormulaCells(d) /\ PregraphFailure(d, c) = {}
    BY <1>10 DEF Eligible
  <2> QED BY <1>2, <1>3, <1>6, <1>7, <1>9, <1>11, <1>12, <2>1, <2>2, <2>3, <2>4
<1>15. new = (dirty \intersect Eligible(d)) \ DOMAIN Cycles(d)
  <2>1. new = formulas \ ((DOMAIN values) \union DOMAIN failures)
    BY DEF NotIn
  <2>2. \A c \in formulas : c \notin DOMAIN values
    BY <1>14
  <2>3. \A c \in formulas : c \in DOMAIN failures <=> PregraphFailure(d, c) # {} \/ c \in DOMAIN Cycles(d)
    BY <1>2, <1>14
  <2> HIDE DEF new
  <2> QED BY <2>1, <2>2, <2>3 DEF Eligible
<1> HIDE DEF new
<1>16. ArePhases(d, kept, dirty, values, failures, new)
  <2> HIDE DEF numbers
  <2> QED BY <1>1, <1>11, <1>12, <1>13, <1>14, <1>15 DEF new, ArePhases
<1> QED BY <1>16

\* What is recomputed of closed cells, beside what is rightly kept of the
\* others, is the calculation of the document.
LEMMA RecomputedIsCalculation ==
  ASSUME NEW d, IsInMemory(d), NEW kept, NEW dirty, IsClosed(d, dirty), IsKept(d, kept, dirty)
  PROVE  IsCalculation(d, Recomputed(d, NewGraph(d), kept, dirty))
<1> DEFINE s == Recomputed(d, NewGraph(d), kept, dirty)
           formulas == dirty \intersect FormulaCells(d)
<1>1. PICK values, failures, new : ArePhases(d, kept, dirty, values, failures, new)
  BY PhasesAre
<1>2. /\ IsMap(values) /\ IsMap(failures) /\ new = NotIn(values, failures, formulas)
      /\ new = (dirty \intersect Eligible(d)) \ DOMAIN Cycles(d)
      /\ s = Settled(d, NewGraph(d), values, failures, formulas)
  BY <1>1 DEF ArePhases
<1>3. FormulaCells(d) \subseteq CalculationCells(d)
  BY CellsAreFinite
<1>4. ASSUME NEW c, c \notin dirty
      PROVE  /\ c \in DOMAIN values <=> c \in DOMAIN kept.values
             /\ c \in DOMAIN values => values[c] = kept.values[c]
             /\ c \in DOMAIN failures <=> c \in DOMAIN kept.failures
             /\ c \in DOMAIN failures => failures[c] = kept.failures[c]
  BY <1>1, <1>4 DEF ArePhases
<1>5. ASSUME NEW c \in dirty
      PROVE  LET failing == c \in CalculationCells(d) /\ PregraphFailure(d, c) # {}
             IN /\ c \in DOMAIN failures <=> failing \/ c \in DOMAIN Cycles(d)
                /\ failing => failures[c] = The(PregraphFailure(d, c))
                /\ ~failing /\ c \in DOMAIN Cycles(d) => failures[c] = Cycles(d)[c]
                /\ c \in DOMAIN values <=> /\ c \in CalculationCells(d) \ FormulaCells(d)
                                           /\ PregraphFailure(d, c) = {}
                /\ c \in DOMAIN values => values[c] = Stored(d, c)
  BY <1>1, <1>5 DEF ArePhases
<1>6. DOMAIN Cycles(d) \subseteq Eligible(d) /\ Eligible(d) \subseteq FormulaCells(d)
  <2>1. Eligible(d) \subseteq FormulaCells(d)
    BY DEF Eligible
  <2>2. DOMAIN Cycles(d) = OnCycles(d, Eligible(d))
    BY <2>1, CycleFailuresAre DEF Cycles
  <2> QED BY <2>1, <2>2 DEF OnCycles
<1> HIDE DEF s, formulas
<1>7. (DOMAIN values) \intersect DOMAIN failures = {}
  BY <1>4, <1>5, <1>6 DEF IsKept
<1>8. ASSUME NEW L \in SUBSET new, L # {} PROVE \E f \in L : Deps(d, f) \intersect L = {}
  <2> DEFINE places == dirty \intersect Eligible(d)
  <2>1. places \subseteq FormulaCells(d)
    BY DEF Eligible
  <2>2. L \subseteq places \ DOMAIN CycleFailures(NewGraph(d), places)
    BY <1>2, CyclesAmongDirty
  <2> HIDE DEF places
  <2> QED BY <1>8, <2>1, <2>2, SomeIsReady
<1>9. /\ s = [values |-> s.values, failures |-> s.failures, graph |-> NewGraph(d)]
      /\ IsSettledSoFar(d, s, values, failures, new) /\ LeftOf(s, new) = {}
  <2>1. formulas \subseteq FormulaCells(d)
    BY DEF formulas
  <2>2. /\ IsMap(values) /\ IsMap(failures) /\ new = NotIn(values, failures, formulas)
        /\ s = Settled(d, NewGraph(d), values, failures, formulas)
    BY <1>2
  <2> QED BY <1>7, <1>8, <2>1, <2>2, SettledIs
<1>10. /\ IsMap(s.values) /\ IsMap(s.failures) /\ (DOMAIN s.values) \intersect DOMAIN s.failures = {}
       /\ \A c \in new : IsEvaluated(d, s, c)
       /\ \A c : c \notin new => /\ c \in DOMAIN s.values <=> c \in DOMAIN values
                                 /\ c \in DOMAIN s.values => s.values[c] = values[c]
                                 /\ c \in DOMAIN s.failures <=> c \in DOMAIN failures
                                 /\ c \in DOMAIN s.failures => s.failures[c] = failures[c]
  BY <1>9 DEF IsSettledSoFar, IsExtension
<1>11. new \subseteq (DOMAIN s.values) \union DOMAIN s.failures
  BY <1>9 DEF LeftOf
<1>12. \A c : c \in new <=> c \in dirty /\ c \in Eligible(d) /\ c \notin DOMAIN Cycles(d)
  BY <1>2
<1>13. ASSUME NEW c \in CalculationCells(d), c \in dirty PROVE IsRightAt(d, s, c)
  <2>1. CASE c \in new
    <3>1. c \in FormulaCells(d) /\ PregraphFailure(d, c) = {} /\ c \notin DOMAIN Cycles(d)
      BY <1>12, <2>1 DEF Eligible
    <3> QED BY <1>10, <2>1, <3>1 DEF IsRightAt
  <2>2. CASE c \notin new
    <3>1. c \in FormulaCells(d) /\ PregraphFailure(d, c) = {} => c \in DOMAIN Cycles(d)
      BY <1>12, <1>13, <2>2 DEF Eligible
    <3> QED BY <1>5, <1>10, <1>13, <2>2, <3>1 DEF IsRightAt
  <2> QED BY <2>1, <2>2
<1>14. ASSUME NEW c \in CalculationCells(d), c \notin dirty PROVE IsRightAt(d, s, c)
  <2>1. IsRightAt(d, kept, c) /\ c \notin new
    BY <1>12, <1>14 DEF IsKept
  <2>2. ASSUME NEW k, k \notin dirty
        PROVE  /\ k \in DOMAIN kept.values <=> k \in DOMAIN s.values
               /\ k \in DOMAIN kept.values => kept.values[k] = s.values[k]
               /\ k \in DOMAIN kept.failures <=> k \in DOMAIN s.failures
               /\ k \in DOMAIN kept.failures => kept.failures[k] = s.failures[k]
    <3>1. k \notin new
      BY <1>12, <2>2
    <3> QED BY <1>4, <1>10, <2>2, <3>1
  <2>3. ASSUME c \in FormulaCells(d), IsEvaluated(d, kept, c) PROVE IsEvaluated(d, s, c)
    <3>1. Deps(d, c) \intersect dirty = {}
      BY <1>14, <2>3 DEF IsClosed
    <3>2. /\ Alike(kept.values, s.values, Deps(d, c) \union {c})
          /\ Alike(kept.failures, s.failures, Deps(d, c) \union {c})
      BY <1>14, <2>2, <3>1 DEF Alike
    <3> QED BY <2>3, <3>2, EvaluatedStays
  <2>4. /\ c \in DOMAIN kept.values <=> c \in DOMAIN s.values
        /\ c \in DOMAIN kept.values => kept.values[c] = s.values[c]
        /\ c \in DOMAIN kept.failures <=> c \in DOMAIN s.failures
        /\ c \in DOMAIN kept.failures => kept.failures[c] = s.failures[c]
    BY <1>14, <2>2
  <2> QED BY <2>1, <2>3, <2>4 DEF IsRightAt
<1>15. Covering(d, s)
  <2>1. ASSUME NEW c PROVE c \in (DOMAIN s.values) \union DOMAIN s.failures <=> c \in CalculationCells(d)
    <3>1. CASE c \in new
      BY <1>3, <1>11, <1>12, <3>1 DEF Eligible
    <3>2. CASE c \notin new /\ c \in dirty
      <4>1. c \in Eligible(d) => c \in DOMAIN Cycles(d)
        BY <1>12, <3>2
      <4> QED BY <1>3, <1>5, <1>6, <1>10, <3>2, <4>1 DEF Eligible
    <3>3. CASE c \notin new /\ c \notin dirty
      BY <1>4, <1>10, <3>3 DEF IsKept
    <3> QED BY <3>1, <3>2, <3>3
  <2> QED BY <1>10, <2>1 DEF Covering
<1>16. IsCalculation(d, s)
  BY <1>9, <1>13, <1>14, <1>15 DEF IsCalculation
<1> QED BY <1>16 DEF s

\* So is what is calculated from nothing.
LEMMA RebuiltIsCalculation ==
  ASSUME NEW d, IsInMemory(d)
  PROVE  IsCalculation(d, Rebuilt(d))
<1> DEFINE nothing == [values |-> <<>>, failures |-> <<>>]
<1>1. FormulaCells(d) \subseteq Cells(d) /\ CalculationCells(d) \subseteq Cells(d)
  BY CellsAreFinite
<1>2. IsClosed(d, Cells(d))
  BY <1>1 DEF IsClosed
<1>3. IsKept(d, nothing, Cells(d))
  BY <1>1 DEF IsKept
<1>4. IsCalculation(d, Recomputed(d, NewGraph(d), nothing, Cells(d)))
  BY <1>2, <1>3, RecomputedIsCalculation
<1> QED BY <1>4 DEF Rebuilt

-----------------------------------------------------------------------------
(* Two documents that are alike where a formula looks.                     *)

\* Of a field's definition, what a calculation asks.
Facets(definitions) == {<<f.type, f.required>> : f \in definitions}

SameCell(d, e, c) ==
  /\ c \in Cells(d) <=> c \in Cells(e)
  /\ c \in Cells(d) => Stored(d, c) = Stored(e, c)
  /\ Facets(Declaration(d, c)) = Facets(Declaration(e, c))
SameColumn(d, e, k) ==
  /\ Slots(d, k) = Slots(e, k)
  /\ k[1] \in DOMAIN d.schemas <=> k[1] \in DOMAIN e.schemas
  /\ Facets(DefinitionsOf(d, k)) = Facets(DefinitionsOf(e, k))
  /\ \A c \in Slots(d, k) : c \in Cells(d) \/ c \in Cells(e) => SameCell(d, e, c)
SameFor(d, e, x) ==
  /\ \A c \in DirectReferences(x) : SameCell(d, e, c)
  /\ \A k \in x.columns : SameColumn(d, e, k)

\* What two definitions' agreement comes to.
Matched(A, B) ==
  /\ A = {} <=> B = {}
  /\ \A f \in A : \E h \in B : h.type = f.type /\ h.required = f.required
  /\ \A h \in B : \E f \in A : h.type = f.type /\ h.required = f.required

LEMMA FacetsSame ==
  ASSUME NEW A, NEW B, Facets(A) = Facets(B)
  PROVE  Matched(A, B)
<1>1. ASSUME NEW f \in A PROVE \E h \in B : h.type = f.type /\ h.required = f.required
  <2>1. <<f.type, f.required>> \in Facets(B)
    BY DEF Facets
  <2> QED BY <2>1 DEF Facets
<1>2. ASSUME NEW h \in B PROVE \E f \in A : h.type = f.type /\ h.required = f.required
  <2>1. <<h.type, h.required>> \in Facets(A)
    BY DEF Facets
  <2> QED BY <2>1 DEF Facets
<1> QED BY <1>1, <1>2 DEF Matched

LEMMA ReferenceFailureSame ==
  ASSUME NEW d, NEW e, NEW c, SameCell(d, e, c)
  PROVE  /\ \A numeric \in BOOLEAN :
              StructuralReferenceFailure(d, c, numeric) = StructuralReferenceFailure(e, c, numeric)
         /\ ReferenceFailure(d, c) = ReferenceFailure(e, c)
<1> DEFINE A == Declaration(d, c)
           B == Declaration(e, c)
<1>0. Facets(Declaration(d, c)) = Facets(Declaration(e, c))
  BY DEF SameCell
<1>1. /\ A = {} <=> B = {}
      /\ \A f \in A : \E h \in B : h.type = f.type /\ h.required = f.required
      /\ \A h \in B : \E f \in A : h.type = f.type /\ h.required = f.required
  <2>1. Matched(Declaration(d, c), Declaration(e, c))
    BY <1>0, FacetsSame
  <2>2. Matched(A, B)
    BY <2>1
  <2> HIDE DEF A, B
  <2> QED BY <2>2 DEF Matched
<1> HIDE DEF A, B
<1>2. (\E f \in A : f.type # NumberType) <=> (\E f \in B : f.type # NumberType)
  BY <1>1
<1>3. \A numeric \in BOOLEAN :
        StructuralReferenceFailure(d, c, numeric) = StructuralReferenceFailure(e, c, numeric)
  BY <1>1, <1>2 DEF StructuralReferenceFailure, A, B
<1>4. {"non_numeric" : k \in {c} \ CalculationCells(d)} = {"non_numeric" : k \in {c} \ CalculationCells(e)}
  <2>1. c \in CalculationCells(d) <=> c \in CalculationCells(e)
    BY DEF SameCell, CalculationCells
  <2> QED BY <2>1
<1>5. {"missing" : f \in {f \in A : f.required}} = {"missing" : f \in {f \in B : f.required}}
  BY <1>1
<1>6. c \in Cells(d) <=> c \in Cells(e)
  BY DEF SameCell
<1> QED BY <1>3, <1>4, <1>5, <1>6 DEF ReferenceFailure, A, B

LEMMA ColumnFailuresSame ==
  ASSUME NEW d, NEW e, NEW x, \A k \in x.columns : SameColumn(d, e, k)
  PROVE  ColumnFailures(d, x) = ColumnFailures(e, x)
<1> DEFINE failure(doc, k) ==
             CASE k[1] \notin DOMAIN doc.schemas -> {"missing_schema"}
               [] DefinitionsOf(doc, k) = {} -> {"missing_field"}
               [] \E f \in DefinitionsOf(doc, k) : \/ x.op # "blanks" /\ f.type # NumberType
                                                   \/ f.type[1] = "reference" -> {"non_numeric"}
               [] OTHER -> {}
<1>1. \A doc : ColumnFailures(doc, x) = UNION {{k} \X failure(doc, k) : k \in x.columns}
  BY DEF ColumnFailures, DefinitionsOf
<1>2. ASSUME NEW k \in x.columns PROVE failure(d, k) = failure(e, k)
  <2> DEFINE A == DefinitionsOf(d, k)
             B == DefinitionsOf(e, k)
  <2>1. /\ A = {} <=> B = {}
        /\ \A f \in A : \E h \in B : h.type = f.type /\ h.required = f.required
        /\ \A h \in B : \E f \in A : h.type = f.type /\ h.required = f.required
    BY FacetsSame DEF SameColumn, Matched
  <2>2. k[1] \in DOMAIN d.schemas <=> k[1] \in DOMAIN e.schemas
    BY DEF SameColumn
  <2> DEFINE unfit(f) == \/ x.op # "blanks" /\ f.type # NumberType
                         \/ f.type[1] = "reference"
  <2> HIDE DEF A, B
  <2>3. (\E f \in A : unfit(f)) <=> (\E f \in B : unfit(f))
    BY <2>1
  <2> QED BY <2>1, <2>2, <2>3 DEF A, B
<1> HIDE DEF failure
<1>3. {{k} \X failure(d, k) : k \in x.columns} = {{k} \X failure(e, k) : k \in x.columns}
  BY <1>2
<1> QED BY <1>1, <1>3

\* The first of some cells is one of them.
LEMMA FirstIs ==
  ASSUME NEW S, S \subseteq Nat \X Nat, S # {}
  PROVE  First(S) \in S
<1> DEFINE rows == {c[1] : c \in S}
<1>1. rows \in SUBSET Nat /\ rows # {}
  OBVIOUS
<1>2. PICK row \in rows : \A other \in rows : row <= other
  BY <1>1, LeastNat
<1> DEFINE fields == {c[2] : c \in {c \in S : c[1] = row}}
<1>3. fields \in SUBSET Nat /\ fields # {}
  BY <1>2
<1>4. PICK field \in fields : \A other \in fields : field <= other
  BY <1>3, LeastNat
<1>5. PICK c \in S : c[1] = row /\ c[2] = field
  BY <1>4
<1>6. ASSUME NEW other \in S \ {c} PROVE CellBefore(c, other)
  <2>1. /\ other = <<other[1], other[2]>> /\ c = <<c[1], c[2]>>
        /\ c[1] \in Nat /\ c[2] \in Nat /\ other[1] \in Nat /\ other[2] \in Nat
    OBVIOUS
  <2>2. row <= other[1]
    BY <1>2
  <2>3. other[1] = row => field <= other[2]
    BY <1>4
  <2> HIDE DEF rows, fields
  <2> QED BY <1>5, <2>1, <2>2, <2>3 DEF CellBefore
<1>7. \E k \in S : \A other \in S \ {k} : CellBefore(k, other)
  BY <1>6
<1> QED BY <1>7 DEF First

LEMMA InvalidUsesSame ==
  ASSUME NEW d, NEW e, IsInMemory(d), NEW x, SameFor(d, e, x)
  PROVE  InvalidUses(d, x) = InvalidUses(e, x)
<1> DEFINE checked == IF x.op = "if_blank" THEN {} ELSE x.cells
           some(doc) == {k \in x.columns : x.op = "total" /\ Failing(doc, k) # {}}
           totalled(doc) == {First(Failing(doc, k)) : k \in some(doc)}
           tests(doc) == {{y} \X StructuralReferenceFailure(doc, y, FALSE) : y \in x.test}
           reads(doc) == {{y} \X StructuralReferenceFailure(doc, y, TRUE) : y \in x.cells}
           checks(doc, cells) == {{y} \X ReferenceFailure(doc, y) : y \in cells}
<1>1. \A y \in DirectReferences(x) :
          /\ StructuralReferenceFailure(d, y, FALSE) = StructuralReferenceFailure(e, y, FALSE)
          /\ StructuralReferenceFailure(d, y, TRUE) = StructuralReferenceFailure(e, y, TRUE)
          /\ ReferenceFailure(d, y) = ReferenceFailure(e, y)
  BY ReferenceFailureSame DEF SameFor
<1>2. ASSUME NEW k \in x.columns
      PROVE  /\ Failing(d, k) = Failing(e, k)
             /\ \A y \in Failing(d, k) : ReferenceFailure(d, y) = ReferenceFailure(e, y)
             /\ Failing(d, k) \subseteq Nat \X Nat
  <2>1. ColumnCells(d, k) = ColumnCells(e, k) /\ \A y \in ColumnCells(d, k) : SameCell(d, e, y)
    BY DEF SameFor, SameColumn, ColumnCells, SameCell
  <2>2. \A y \in ColumnCells(d, k) : ReferenceFailure(d, y) = ReferenceFailure(e, y)
    BY <2>1, ReferenceFailureSame
  <2>3. ColumnCells(d, k) \subseteq Nat \X Nat
    BY DEF IsInMemory, ColumnCells
  <2> QED BY <2>1, <2>2, <2>3 DEF Failing
<1>3. totalled(d) = totalled(e)
  <2>1. some(d) = some(e) /\ some(d) \subseteq x.columns
    BY <1>2
  <2> QED BY <1>2, <2>1
<1>4. \A y \in totalled(d) : ReferenceFailure(d, y) = ReferenceFailure(e, y)
  <2> SUFFICES ASSUME NEW k \in some(d)
               PROVE  ReferenceFailure(d, First(Failing(d, k))) = ReferenceFailure(e, First(Failing(d, k)))
    OBVIOUS
  <2>1. k \in x.columns /\ Failing(d, k) # {}
    OBVIOUS
  <2>2. First(Failing(d, k)) \in Failing(d, k)
    BY <1>2, <2>1, FirstIs
  <2> QED BY <1>2, <2>1, <2>2
<1>5. tests(d) = tests(e) /\ reads(d) = reads(e)
  BY <1>1 DEF DirectReferences
<1>6. checked \subseteq DirectReferences(x)
  BY DEF DirectReferences
<1> HIDE DEF totalled, checked
<1>7. checks(d, checked \union totalled(d)) = checks(e, checked \union totalled(e))
  BY <1>1, <1>3, <1>4, <1>6
<1>8. /\ InvalidUses(d, x) = (UNION tests(d)) \union (UNION reads(d)) \union UNION checks(d, checked \union totalled(d))
      /\ InvalidUses(e, x) = (UNION tests(e)) \union (UNION reads(e)) \union UNION checks(e, checked \union totalled(e))
  BY DEF InvalidUses, totalled, checked
<1> HIDE DEF tests, reads, checks
<1> QED BY <1>5, <1>7, <1>8

\* Nothing that is checked before the evaluation differs.
LEMMA PregraphSame ==
  ASSUME NEW d, NEW e, IsInMemory(d), NEW c, SameCell(d, e, c), c \in CalculationCells(d),
         c \in FormulaCells(d) => SameFor(d, e, Formula(d, c))
  PROVE  PregraphFailure(d, c) = PregraphFailure(e, c)
<1> DEFINE x == Formula(d, c)
<1>1. /\ c \in FormulaCells(d) <=> c \in FormulaCells(e)
      /\ c \in FormulaCells(d) => Formula(e, c) = x
  BY DEF SameCell, FormulaCells, CalculationCells, Formula
<1>2. ReferenceFailure(d, c) = ReferenceFailure(e, c)
  BY ReferenceFailureSame
<1> HIDE DEF x
<1>3. c \in FormulaCells(d) => InvalidUses(d, x) = InvalidUses(e, x)
  BY InvalidUsesSame DEF x
<1>6. InvalidTargets(d, c) = InvalidTargets(e, c)
  <2>1. CASE c \in FormulaCells(d)
    <3>1. {c} \intersect FormulaCells(d) = {c} /\ {c} \intersect FormulaCells(e) = {c}
      BY <1>1, <2>1
    <3>2. /\ {InvalidUses(d, Formula(d, k)) : k \in {c}} = {InvalidUses(d, x)}
          /\ {InvalidUses(e, Formula(e, k)) : k \in {c}} = {InvalidUses(e, x)}
      BY <1>1, <2>1 DEF x
    <3> QED BY <1>2, <1>3, <2>1, <3>1, <3>2 DEF InvalidTargets
  <2>2. CASE c \notin FormulaCells(d)
    <3>1. {c} \intersect FormulaCells(d) = {} /\ {c} \intersect FormulaCells(e) = {}
      BY <1>1, <2>2
    <3> QED BY <1>2, <3>1 DEF InvalidTargets
  <2> QED BY <2>1, <2>2
<1>7. c \in FormulaCells(d) => ColumnFailures(d, Formula(d, c)) = ColumnFailures(e, Formula(e, c))
  <2> SUFFICES ASSUME c \in FormulaCells(d)
               PROVE  ColumnFailures(d, x) = ColumnFailures(e, x)
    BY <1>1 DEF x
  <2>1. \A k \in x.columns : SameColumn(d, e, k)
    BY DEF SameFor, x
  <2> QED BY <2>1, ColumnFailuresSame
<1> QED BY <1>1, <1>6, <1>7 DEF PregraphFailure

\* Nor does the evaluation, of what has not failed before.
LEMMA EvaluateSameFor ==
  ASSUME NEW d, NEW e, NEW f \in FormulaCells(d), PregraphFailure(d, f) = {},
         SameFor(d, e, Formula(d, f)), NEW v, NEW u
  PROVE  Evaluate(d, v, u, Formula(d, f)) = Evaluate(e, v, u, Formula(d, f))
<1> DEFINE x == Formula(d, f)
<1>1. InvalidTargets(d, f) = {}
  BY DEF PregraphFailure
<1>2. \A y \in x.test : StructuralReferenceFailure(d, y, FALSE) = {}
  <2> DEFINE parts == {{y} \X StructuralReferenceFailure(d, y, FALSE) : y \in x.test}
  <2>1. InvalidUses(d, x) = {}
    BY <1>1 DEF InvalidTargets
  <2>2. UNION parts = {}
    BY <2>1 DEF InvalidUses
  <2> SUFFICES ASSUME NEW y \in x.test, NEW z \in StructuralReferenceFailure(d, y, FALSE) PROVE FALSE
    OBVIOUS
  <2>3. <<y, z>> \in {y} \X StructuralReferenceFailure(d, y, FALSE)
    OBVIOUS
  <2>4. {y} \X StructuralReferenceFailure(d, y, FALSE) \in parts
    OBVIOUS
  <2> HIDE DEF parts
  <2> QED BY <2>2, <2>3, <2>4
<1> HIDE DEF x
<1>3. SameFor(d, e, x)
  BY DEF x
<1>4. ASSUME NEW y \in x.test
      PROVE  /\ y[1] \in DOMAIN d.entities /\ y[1] \in DOMAIN e.entities
             /\ y \in Cells(d) <=> y \in Cells(e)
  <2>1. StructuralReferenceFailure(d, y, FALSE) = {}
    BY <1>2
  <2>2. Declaration(d, y) # {}
    BY <2>1 DEF StructuralReferenceFailure
  <2>3. SameCell(d, e, y)
    BY <1>3 DEF SameFor, DirectReferences
  <2>4. Facets(Declaration(d, y)) = Facets(Declaration(e, y))
    BY <2>3 DEF SameCell
  <2>5. Declaration(e, y) # {}
    BY <2>2, <2>4, FacetsSame DEF Matched
  <2> QED BY <2>2, <2>3, <2>5 DEF Declaration, Entry, SameCell
<1>5. ASSUME NEW k \in x.columns
      PROVE  /\ Slots(d, k) = Slots(e, k) /\ ColumnCells(d, k) = ColumnCells(e, k)
             /\ \A y \in Slots(d, k) : y \in Cells(d) <=> y \in Cells(e)
  BY <1>3 DEF SameFor, SameColumn, SameCell, ColumnCells
<1>6. ASSUME NEW y \in x.cells PROVE Readable(d, v, y) <=> Readable(e, v, y)
  <2>1. SameCell(d, e, y)
    BY <1>3 DEF SameFor, DirectReferences
  <2>2. Facets(Declaration(d, y)) = Facets(Declaration(e, y))
    BY <2>1 DEF SameCell
  <2>3. /\ \A h \in Declaration(d, y) : \E i \in Declaration(e, y) : i.type = h.type /\ i.required = h.required
        /\ \A i \in Declaration(e, y) : \E h \in Declaration(d, y) : i.type = h.type /\ i.required = h.required
    BY <2>2, FacetsSame DEF Matched
  <2> QED BY <2>1, <2>3 DEF Readable, SameCell
<1>7. Alike(v, v, ReadBy(d, x)) /\ Alike(u, u, ReadBy(d, x))
  BY DEF Alike
<1>8. (\E y \in x.test : y[1] \in DOMAIN d.entities /\ y \notin Cells(d))
        <=> (\E y \in x.test : y[1] \in DOMAIN e.entities /\ y \notin Cells(e))
  BY <1>4
<1>9. Evaluate(d, v, u, x) = Evaluate(e, v, u, x)
  BY <1>5, <1>6, <1>7, <1>8, EvaluateSame
<1> QED BY <1>9 DEF x

\* Two networks that agree on places closed in both reach the same from these.
LEMMA ReachedInside ==
  ASSUME NEW P, NEW next, IsNetwork(next, P), NEW Q, NEW other, IsNetwork(other, Q),
         NEW O, O \subseteq P, O \subseteq Q, \A x \in O : next[x] = other[x] /\ next[x] \subseteq O,
         NEW start, start \subseteq O
  PROVE  Reached(next, start) = Reached(other, start) /\ Reached(next, start) \subseteq O
<1> DEFINE A == Reached(next, start)
           B == Reached(other, start)
<1> HIDE DEF A, B
<1>1. /\ start \subseteq A /\ \A x \in A : next[x] \subseteq A
      /\ \A T : start \subseteq T /\ (\A x \in T \intersect P : next[x] \subseteq T) => A \subseteq T
  BY ReachedIs DEF A
<1>2. /\ start \subseteq B /\ \A x \in B : other[x] \subseteq B
      /\ \A T : start \subseteq T /\ (\A x \in T \intersect Q : other[x] \subseteq T) => B \subseteq T
  BY ReachedIs DEF B
<1>3. A \subseteq B \intersect O
  <2> DEFINE T == B \intersect O
  <2>1. start \subseteq T /\ \A x \in T \intersect P : next[x] \subseteq T
    BY <1>2
  <2> HIDE DEF T
  <2>2. A \subseteq T
    BY <1>1, <2>1
  <2> QED BY <2>2 DEF T
<1>4. B \subseteq A \intersect O
  <2> DEFINE T == A \intersect O
  <2>1. start \subseteq T /\ \A x \in T \intersect Q : other[x] \subseteq T
    BY <1>1
  <2> HIDE DEF T
  <2>2. B \subseteq T
    BY <1>2, <2>1
  <2> QED BY <2>2 DEF T
<1> QED BY <1>3, <1>4 DEF A, B

-----------------------------------------------------------------------------
(* What the roots of a change leave alone.                                 *)

LEMMA SlotIs ==
  ASSUME NEW d, NEW k, NEW slot
  PROVE  slot \in Slots(d, k) <=> /\ slot = <<slot[1], slot[2]>> /\ slot[1] \in DOMAIN d.entities
                                  /\ d.entities[slot[1]].schema = k[1] /\ slot[2] = k[2]
BY DEF Slots

LEMMA CellIs ==
  ASSUME NEW d, NEW c
  PROVE  c \in Cells(d) <=> /\ c = <<c[1], c[2]>> /\ c[1] \in DOMAIN d.entities
                            /\ c[2] \in DOMAIN d.entities[c[1]].fields
<1>1. ASSUME c \in Cells(d)
      PROVE  c = <<c[1], c[2]>> /\ c[1] \in DOMAIN d.entities /\ c[2] \in DOMAIN d.entities[c[1]].fields
  <2>1. PICK r \in DOMAIN d.entities : c \in {r} \X DOMAIN d.entities[r].fields
    BY <1>1 DEF Cells
  <2> QED BY <2>1
<1>2. ASSUME c = <<c[1], c[2]>>, c[1] \in DOMAIN d.entities, c[2] \in DOMAIN d.entities[c[1]].fields
      PROVE  c \in Cells(d)
  <2>1. c \in {c[1]} \X DOMAIN d.entities[c[1]].fields
    BY <1>2
  <2> QED BY <1>2, <2>1 DEF Cells
<1> QED BY <1>1, <1>2

LEMMA UnmovedIs ==
  ASSUME NEW d, NEW e, NEW r, r \notin Resettled(d, e)
  PROVE  /\ r \in DOMAIN d.entities <=> r \in DOMAIN e.entities
         /\ r \in DOMAIN d.entities => d.entities[r].schema = e.entities[r].schema
<1>1. CASE r \notin (DOMAIN d.entities) \union DOMAIN e.entities
  BY <1>1
<1>2. CASE r \in (DOMAIN d.entities) \union DOMAIN e.entities
  <2>1. {x.schema : x \in Entry(d.entities, r)} = {x.schema : x \in Entry(e.entities, r)}
    <3>1. CASE r \in Changed(d.entities, e.entities)
      BY <3>1 DEF Resettled
    <3>2. CASE r \notin Changed(d.entities, e.entities)
      <4>1. Entry(d.entities, r) = Entry(e.entities, r)
        BY <1>2, <3>2 DEF Changed
      <4> QED BY <4>1
    <3> QED BY <3>1, <3>2
  <2>2. \A doc : {x.schema : x \in Entry(doc.entities, r)} = {doc.entities[k].schema : k \in {r} \intersect DOMAIN doc.entities}
    BY DEF Entry
  <2>3. \A doc, s : s \in {doc.entities[k].schema : k \in {r} \intersect DOMAIN doc.entities} <=>
                 r \in DOMAIN doc.entities /\ s = doc.entities[r].schema
    OBVIOUS
  <2> QED BY <2>1, <2>2, <2>3
<1> QED BY <1>1, <1>2

LEMMA UnchangedIs ==
  ASSUME NEW d, NEW e, NEW c, c \in Cells(d) \union Cells(e), c \notin StoredChanges(d, e)
  PROVE  c \in Cells(d) /\ c \in Cells(e) /\ Stored(d, c) = Stored(e, c)
<1>1. {Stored(d, c) : x \in {c} \intersect Cells(d)} = {Stored(e, c) : x \in {c} \intersect Cells(e)}
  BY DEF StoredChanges
<1>2. \A doc, s : s \in {Stored(doc, c) : x \in {c} \intersect Cells(doc)} <=> c \in Cells(doc) /\ s = Stored(doc, c)
  OBVIOUS
<1> QED BY <1>1, <1>2

LEMMA DefinitionsSame ==
  ASSUME NEW d, NEW e, NEW k, k = <<k[1], k[2]>>, k \notin Retyped(d, e)
  PROVE  Facets(DefinitionsOf(d, k)) = Facets(DefinitionsOf(e, k))
<1>1. CASE k \in Redefined(d, e)
  BY <1>1 DEF Retyped, Facets
<1>2. CASE k \notin Redefined(d, e) /\ k \in Columns(d) \union Columns(e)
  <2>1. DefinitionsOf(d, k) = DefinitionsOf(e, k)
    BY <1>2 DEF Redefined
  <2> QED BY <2>1
<1>3. CASE k \notin Columns(d) \union Columns(e)
  <2>1. ASSUME NEW doc, k \notin Columns(doc) PROVE DefinitionsOf(doc, k) = {}
    <3> SUFFICES ASSUME NEW x \in DefinitionsOf(doc, k) PROVE FALSE
      OBVIOUS
    <3>1. PICK s \in Entry(doc.schemas, k[1]) : x \in Entry(s.fields, k[2])
      BY DEF DefinitionsOf
    <3>2. k[1] \in DOMAIN doc.schemas /\ k[2] \in DOMAIN doc.schemas[k[1]].fields
      BY <3>1 DEF Entry
    <3>3. k \in {k[1]} \X DOMAIN doc.schemas[k[1]].fields
      BY <3>2
    <3> QED BY <2>1, <3>2, <3>3 DEF Columns
  <2>2. DefinitionsOf(d, k) = DefinitionsOf(e, k)
    BY <1>3, <2>1
  <2> QED BY <2>2
<1> QED BY <1>1, <1>2, <1>3

LEMMA DeclarationIs ==
  ASSUME NEW d, NEW c, c[1] \in DOMAIN d.entities
  PROVE  Declaration(d, c) = DefinitionsOf(d, ColumnOf(d, c))
<1>1. Entry(d.entities, c[1]) = {d.entities[c[1]]}
  BY DEF Entry
<1>2. Declaration(d, c) = UNION {Entry(s.fields, c[2]) : s \in Entry(d.schemas, d.entities[c[1]].schema)}
  BY <1>1 DEF Declaration
<1> QED BY <1>2 DEF DefinitionsOf, ColumnOf

\* A cell that is no root is as it was.
LEMMA OffChanged ==
  ASSUME NEW d, NEW e, NEW c, c \in Cells(d) \union Cells(e), c \notin CalculationRoots(d, e)
  PROVE  SameCell(d, e, c) /\ c \in Cells(d) /\ c \in Cells(e)
<1>1. c \notin StoredChanges(d, e)
  BY DEF CalculationRoots
<1>2. c \in Cells(d) /\ c \in Cells(e) /\ Stored(d, c) = Stored(e, c)
  BY <1>1, UnchangedIs
<1>3. /\ c = <<c[1], c[2]>> /\ c[1] \in DOMAIN d.entities /\ c[2] \in DOMAIN d.entities[c[1]].fields
      /\ c[1] \in DOMAIN e.entities
  BY <1>2, CellIs
<1>4. c[1] \notin Resettled(d, e)
  <2> SUFFICES ASSUME c[1] \in Resettled(d, e) PROVE FALSE
    OBVIOUS
  <2>1. d.entities[c[1]] \in Entry(d.entities, c[1])
    BY <1>3 DEF Entry
  <2>2. c[2] \in RowFields(d, e, c[1])
    BY <1>3, <2>1 DEF RowFields
  <2>3. c \in {c[1]} \X RowFields(d, e, c[1])
    BY <1>3, <2>2
  <2>4. c \in RowsFields(d, e, Resettled(d, e))
    BY <2>3 DEF RowsFields
  <2> QED BY <2>4 DEF CalculationRoots
<1> DEFINE k == ColumnOf(d, c)
<1>5. d.entities[c[1]].schema = e.entities[c[1]].schema /\ ColumnOf(e, c) = k
  BY <1>3, <1>4, UnmovedIs DEF ColumnOf
<1>6. k = <<k[1], k[2]>> /\ k[1] = d.entities[c[1]].schema /\ k[2] = c[2]
  BY DEF ColumnOf
<1> HIDE DEF k
<1>7. k \notin Retyped(d, e)
  <2> SUFFICES ASSUME k \in Retyped(d, e) PROVE FALSE
    OBVIOUS
  <2>1. c \in Slots(d, k)
    BY <1>3, <1>6, SlotIs
  <2>2. c \in ColumnCells(d, k)
    BY <1>2, <2>1 DEF ColumnCells
  <2>3. c \in StoredIn(d, e, Retyped(d, e))
    BY <2>2 DEF StoredIn
  <2> QED BY <2>3 DEF CalculationRoots
<1>8. Facets(DefinitionsOf(d, k)) = Facets(DefinitionsOf(e, k))
  BY <1>6, <1>7, DefinitionsSame
<1>9. Declaration(d, c) = DefinitionsOf(d, k) /\ Declaration(e, c) = DefinitionsOf(e, k)
  BY <1>3, <1>5, DeclarationIs DEF k
<1> QED BY <1>2, <1>8, <1>9 DEF SameCell

\* The roots of the change from one document to the next, and the schemas of
\* the rows that change.
RootsOf(d, e) == WithColumnTotalRoots(e, NewGraph(d), CalculationRoots(d, e))
Moving(d, e) == UNION {SchemasOf(NewGraph(d), e, root[1]) : root \in CalculationRoots(d, e)}

LEMMA SchemasOfIs ==
  ASSUME NEW d, NEW e, NEW r, NEW s
  PROVE  s \in SchemasOf(NewGraph(d), e, r) <=>
           \/ r \in DOMAIN d.entities /\ s = d.entities[r].schema
           \/ r \in DOMAIN e.entities /\ s = e.entities[r].schema
<1>1. NewGraph(d).schemaOf = [k \in DOMAIN d.entities |-> d.entities[k].schema]
  BY NewGraphIs
<1>2. s \in Entry(NewGraph(d).schemaOf, r) <=> r \in DOMAIN d.entities /\ s = d.entities[r].schema
  BY <1>1 DEF Entry
<1>3. s \in {x.schema : x \in Entry(e.entities, r)} <=> r \in DOMAIN e.entities /\ s = e.entities[r].schema
  BY DEF Entry
<1> QED BY <1>2, <1>3 DEF SchemasOf

LEMMA MovingIs ==
  ASSUME NEW d, NEW e, NEW c \in CalculationRoots(d, e)
  PROVE  /\ c[1] \in DOMAIN d.entities => d.entities[c[1]].schema \in Moving(d, e)
         /\ c[1] \in DOMAIN e.entities => e.entities[c[1]].schema \in Moving(d, e)
<1>1. SchemasOf(NewGraph(d), e, c[1]) \subseteq Moving(d, e)
  BY DEF Moving
<1> QED BY <1>1, SchemasOfIs

\* The tables a row leaves or enters are among them.
LEMMA ResettledMove ==
  ASSUME NEW d, NEW e, Covers(d, e), NEW r \in Resettled(d, e)
  PROVE  /\ \E c \in CalculationRoots(d, e) : c[1] = r
         /\ r \in DOMAIN d.entities => d.entities[r].schema \in Moving(d, e)
         /\ r \in DOMAIN e.entities => e.entities[r].schema \in Moving(d, e)
<1>1. RowFields(d, e, r) # {}
  BY DEF Covers
<1>2. PICK p : p \in RowFields(d, e, r)
  BY <1>1
<1>3. <<r, p>> \in {r} \X RowFields(d, e, r)
  BY <1>2
<1>4. <<r, p>> \in CalculationRoots(d, e)
  BY <1>3 DEF CalculationRoots, RowsFields
<1>5. <<r, p>>[1] = r
  OBVIOUS
<1> QED BY <1>4, <1>5, MovingIs

LEMMA SlotsSame ==
  ASSUME NEW d, NEW e, Covers(d, e), NEW k, k[1] \notin Moving(d, e)
  PROVE  Slots(d, k) = Slots(e, k)
<1>1. ASSUME NEW slot, slot \in Slots(d, k) PROVE slot \in Slots(e, k)
  <2>1. /\ slot = <<slot[1], slot[2]>> /\ slot[1] \in DOMAIN d.entities
        /\ d.entities[slot[1]].schema = k[1] /\ slot[2] = k[2]
    BY <1>1, SlotIs
  <2>2. slot[1] \notin Resettled(d, e)
    BY <2>1, ResettledMove
  <2> QED BY <2>1, <2>2, UnmovedIs, SlotIs
<1>2. ASSUME NEW slot, slot \in Slots(e, k) PROVE slot \in Slots(d, k)
  <2>1. /\ slot = <<slot[1], slot[2]>> /\ slot[1] \in DOMAIN e.entities
        /\ e.entities[slot[1]].schema = k[1] /\ slot[2] = k[2]
    BY <1>2, SlotIs
  <2>2. slot[1] \notin Resettled(d, e)
    BY <2>1, ResettledMove
  <2> QED BY <2>1, <2>2, UnmovedIs, SlotIs
<1> QED BY <1>1, <1>2

\* A formula that is no root is as it was, and its columns have the same slots
\* and the same definition.
LEMMA OffRoots ==
  ASSUME NEW d, NEW e, IsInMemory(d), IsInMemory(e), Covers(d, e),
         NEW f, f \in FormulaCells(d) \union FormulaCells(e), f \notin RootsOf(d, e)
  PROVE  /\ f \in FormulaCells(d) /\ f \in FormulaCells(e) /\ Formula(d, f) = Formula(e, f)
         /\ \A k \in Formula(d, f).columns :
              /\ k[1] \notin Moving(d, e)
              /\ Slots(d, k) = Slots(e, k)
              /\ k[1] \in DOMAIN d.schemas <=> k[1] \in DOMAIN e.schemas
              /\ Facets(DefinitionsOf(d, k)) = Facets(DefinitionsOf(e, k))
         /\ Deps(d, f) = Deps(e, f)
<1> DEFINE g == NewGraph(d)
           x == Formula(d, f)
<1>1. f \notin CalculationRoots(d, e) /\ \A k \in TrackedColumns(g, Moving(d, e)) : f \notin ColumnReaders(g, k)
  BY DEF RootsOf, WithColumnTotalRoots, Moving
<1>2. f \in Cells(d) \union Cells(e)
  BY DEF FormulaCells
<1>3. f \in Cells(d) /\ f \in Cells(e) /\ Stored(d, f) = Stored(e, f)
  BY <1>1, <1>2, OffChanged DEF SameCell
<1>4. f \in FormulaCells(d) /\ f \in FormulaCells(e) /\ x = Formula(e, f)
  BY <1>3 DEF FormulaCells, Formula
<1>5. /\ f \in DOMAIN g.columns /\ g.columns[f] = x.columns /\ DOMAIN g.slots = ReadColumns(d)
  BY <1>4, NewGraphIs
<1> HIDE DEF g
<1>6. ASSUME NEW k \in x.columns
      PROVE  k[1] \notin Moving(d, e) /\ k = <<k[1], k[2]>>
  <2>1. k \in DOMAIN g.slots /\ f \in ColumnReaders(g, k)
    BY <1>4, <1>5 DEF ReadColumns, ColumnReaders
  <2>2. k = <<k[1], k[2]>>
    BY <1>4 DEF IsInMemory, IsParsed
  <2> QED BY <1>1, <2>1, <2>2 DEF TrackedColumns
<1> HIDE DEF x
<1>7. ASSUME NEW k \in x.columns PROVE k \notin Retyped(d, e)
  <2> SUFFICES ASSUME k \in Retyped(d, e) PROVE FALSE
    OBVIOUS
  <2>1. StoredIn(d, e, {k}) # {}
    <3>1. x \in {Formula(d, c) : c \in FormulaCells(d)} \union {Formula(e, c) : c \in FormulaCells(e)}
      BY <1>4 DEF x
    <3>2. k \in UNION {y.columns : y \in {Formula(d, c) : c \in FormulaCells(d)} \union {Formula(e, c) : c \in FormulaCells(e)}}
      BY <3>1
    <3> QED BY <3>2 DEF Covers
  <2>2. PICK c : c \in ColumnCells(d, k) \union ColumnCells(e, k)
    BY <2>1 DEF StoredIn
  <2>3. c \in CalculationRoots(d, e)
    BY <2>2 DEF CalculationRoots, StoredIn
  <2>4. \/ c[1] \in DOMAIN d.entities /\ d.entities[c[1]].schema = k[1]
        \/ c[1] \in DOMAIN e.entities /\ e.entities[c[1]].schema = k[1]
    BY <2>2, SlotIs DEF ColumnCells
  <2> QED BY <1>6, <2>3, <2>4, MovingIs
<1>8. ASSUME NEW k \in x.columns PROVE k[1] \in DOMAIN d.schemas <=> k[1] \in DOMAIN e.schemas
  <2>1. x \in {Formula(d, c) : c \in FormulaCells(d)} \union {Formula(e, c) : c \in FormulaCells(e)}
    BY <1>4 DEF x
  <2>2. k \in UNION {y.columns : y \in {Formula(d, c) : c \in FormulaCells(d)} \union {Formula(e, c) : c \in FormulaCells(e)}}
    BY <2>1
  <2> QED BY <1>7, <2>2 DEF Covers
<1>9. \A k \in x.columns : Slots(d, k) = Slots(e, k)
  BY <1>6, SlotsSame
<1>10. \A k \in x.columns : Facets(DefinitionsOf(d, k)) = Facets(DefinitionsOf(e, k))
  BY <1>6, <1>7, DefinitionsSame
<1>11. Deps(d, f) = Deps(e, f)
  <2>1. {Slots(d, k) : k \in x.columns} = {Slots(e, k) : k \in x.columns}
    BY <1>9
  <2>2. Deps(d, f) = DirectReferences(x) \union UNION {Slots(d, k) : k \in x.columns}
    BY DEF Deps, ExtractDependencies, x
  <2>3. Deps(e, f) = DirectReferences(x) \union UNION {Slots(e, k) : k \in x.columns}
    BY <1>4 DEF Deps, ExtractDependencies
  <2> QED BY <2>1, <2>2, <2>3
<1> QED BY <1>4, <1>6, <1>8, <1>9, <1>10, <1>11 DEF x

\* Whatever reads a root, or what is found from one, is found.
LEMMA ReverseClosureIs ==
  ASSUME NEW d, IsInMemory(d), NEW R
  PROVE  /\ ReverseClosure(NewGraph(d), R) \subseteq FormulaCells(d)
         /\ \A f \in FormulaCells(d) \ R :
              Deps(d, f) \intersect (R \union ReverseClosure(NewGraph(d), R)) # {}
                => f \in ReverseClosure(NewGraph(d), R)
<1> DEFINE g == NewGraph(d)
           P == FormulaCells(d) \ R
           next == [f \in P |-> DirectDependents(g, f) \ R]
           start == (UNION {DirectDependents(g, c) : c \in R}) \ R
           found == Reached(next, start)
<1>1. DOMAIN g.references = FormulaCells(d)
  BY NewGraphIs
<1>2. ReverseClosure(g, R) = found
  BY <1>1 DEF ReverseClosure
<1>3. /\ \A f \in FormulaCells(d) : \A c \in Deps(d, f) : f \in DirectDependents(g, c)
      /\ \A c : DirectDependents(g, c) \subseteq FormulaCells(d)
  BY NewDependents
<1> HIDE DEF g
<1>4. IsFiniteSet(P)
  BY CellsAreFinite, FS_Subset
<1>5. IsNetwork(next, P) /\ start \subseteq P
  BY <1>3, <1>4 DEF IsNetwork
<1>6. \A f \in P : \A c \in Deps(d, f) : /\ c \in R => f \in start
                                         /\ c \in P => f \in next[c]
  BY <1>3
<1> HIDE DEF next, start, P
<1>7. /\ start \subseteq found /\ found \subseteq P /\ \A x \in found : next[x] \subseteq found
  BY <1>5, ReachedIs
<1> HIDE DEF found
<1>8. ASSUME NEW f \in P, NEW c \in Deps(d, f), c \in R \union found PROVE f \in found
  BY <1>6, <1>7, <1>8
<1>9. P = FormulaCells(d) \ R
  BY DEF P
<1> QED BY <1>2, <1>7, <1>8, <1>9 DEF g

\* What an update recomputes.
DirtyOf(d, e) ==
  RootsOf(d, e) \union ReverseClosure(NewGraph(d), RootsOf(d, e))
    \union ReverseClosure(NewGraph(e), RootsOf(d, e))

\* Nothing else depends on it, before or after.
LEMMA DirtyIsClosed ==
  ASSUME NEW d, NEW e, IsInMemory(d), IsInMemory(e), Covers(d, e)
  PROVE  IsClosed(d, DirtyOf(d, e)) /\ IsClosed(e, DirtyOf(d, e))
<1> DEFINE R == RootsOf(d, e)
           A == ReverseClosure(NewGraph(d), R)
           B == ReverseClosure(NewGraph(e), R)
<1>1. \A f \in FormulaCells(d) \ R : Deps(d, f) \intersect (R \union A) # {} => f \in A
  BY ReverseClosureIs
<1>2. \A f \in FormulaCells(e) \ R : Deps(e, f) \intersect (R \union B) # {} => f \in B
  BY ReverseClosureIs
<1>3. \A f \in (FormulaCells(d) \union FormulaCells(e)) \ R :
        f \in FormulaCells(d) /\ f \in FormulaCells(e) /\ Deps(d, f) = Deps(e, f)
  BY OffRoots
<1>4. DirtyOf(d, e) = R \union A \union B
  BY DEF DirtyOf
<1> HIDE DEF R, A, B
<1> QED BY <1>1, <1>2, <1>3, <1>4 DEF IsClosed

\* A formula that is not recomputed reads what it read.
LEMMA OffDirty ==
  ASSUME NEW d, NEW e, IsInMemory(d), IsInMemory(e), Covers(d, e), NEW dirty,
         RootsOf(d, e) \subseteq dirty, IsClosed(d, dirty), IsClosed(e, dirty),
         NEW f, f \in FormulaCells(d) \union FormulaCells(e), f \notin dirty
  PROVE  SameFor(d, e, Formula(d, f))
<1> DEFINE x == Formula(d, f)
<1>1. /\ f \in FormulaCells(d) /\ f \in FormulaCells(e) /\ x = Formula(e, f)
      /\ \A k \in x.columns :
           /\ Slots(d, k) = Slots(e, k)
           /\ k[1] \in DOMAIN d.schemas <=> k[1] \in DOMAIN e.schemas
           /\ Facets(DefinitionsOf(d, k)) = Facets(DefinitionsOf(e, k))
  <2>1. f \notin RootsOf(d, e)
    OBVIOUS
  <2> QED BY <2>1, OffRoots
<1>2. CalculationRoots(d, e) \subseteq dirty
  BY DEF RootsOf, WithColumnTotalRoots
<1>3. Deps(d, f) \intersect dirty = {}
  BY <1>1 DEF IsClosed
<1>4. DirectReferences(x) \subseteq Deps(d, f) /\ \A k \in x.columns : Slots(d, k) \subseteq Deps(d, f)
  BY DEF Deps, ExtractDependencies
<1> HIDE DEF x
<1>5. ASSUME NEW c \in DirectReferences(x) PROVE SameCell(d, e, c)
  <2>1. CASE c \in Cells(d) \union Cells(e)
    <3>1. c \notin CalculationRoots(d, e)
      BY <1>2, <1>3, <1>4
    <3> QED BY <2>1, <3>1, OffChanged
  <2>2. CASE c \notin Cells(d) \union Cells(e)
    <3> DEFINE formulas == {Formula(d, k) : k \in FormulaCells(d)} \union {Formula(e, k) : k \in FormulaCells(e)}
               named == (UNION {DirectReferences(y) : y \in formulas}) \ (Cells(d) \union Cells(e))
    <3>1. x \in formulas
      BY <1>1 DEF x
    <3>2. c \in named
      BY <2>2, <3>1
    <3>3. {<<i.type, i.required>> : i \in Declaration(d, c)} = {<<i.type, i.required>> : i \in Declaration(e, c)}
      BY <3>2 DEF Covers
    <3>4. Facets(Declaration(d, c)) = Facets(Declaration(e, c))
      BY <3>3 DEF Facets
    <3> QED BY <2>2, <3>4 DEF SameCell
  <2> QED BY <2>1, <2>2
<1>6. ASSUME NEW k \in x.columns PROVE SameColumn(d, e, k)
  <2>1. ASSUME NEW c \in Slots(d, k), c \in Cells(d) \/ c \in Cells(e) PROVE SameCell(d, e, c)
    <3>1. c \notin CalculationRoots(d, e)
      BY <1>2, <1>3, <1>4
    <3> QED BY <2>1, <3>1, OffChanged
  <2> QED BY <1>1, <2>1 DEF SameColumn
<1> QED BY <1>5, <1>6 DEF SameFor, x

\* An update's cells: two documents, and what is dirty between them.
IsUpdate(d, e, dirty) ==
  /\ IsInMemory(d) /\ IsInMemory(e) /\ Covers(d, e)
  /\ RootsOf(d, e) \subseteq dirty /\ IsClosed(d, dirty) /\ IsClosed(e, dirty)

\* Off the dirty cells every cell is as it was and fails before evaluation as it did.
LEMMA CellsOffDirty ==
  ASSUME NEW d, NEW e, NEW dirty, IsUpdate(d, e, dirty)
  PROVE  /\ \A c : c \notin dirty =>
              /\ c \in CalculationCells(d) <=> c \in CalculationCells(e)
              /\ c \in FormulaCells(d) <=> c \in FormulaCells(e)
              /\ c \in Eligible(d) <=> c \in Eligible(e)
         /\ \A c \in CalculationCells(d) \ dirty :
              /\ Stored(d, c) = Stored(e, c)
              /\ PregraphFailure(d, c) = PregraphFailure(e, c)
         /\ \A f \in FormulaCells(d) \ dirty :
              /\ Formula(d, f) = Formula(e, f) /\ Deps(d, f) = Deps(e, f)
              /\ SameFor(d, e, Formula(d, f))
<1>1. CalculationRoots(d, e) \subseteq dirty
  BY DEF IsUpdate, RootsOf, WithColumnTotalRoots
<1>2. \A c \in (Cells(d) \union Cells(e)) \ dirty : SameCell(d, e, c) /\ c \in Cells(d) /\ c \in Cells(e)
  BY <1>1, OffChanged
<1>3. ASSUME NEW c, c \notin dirty
      PROVE  /\ c \in CalculationCells(d) <=> c \in CalculationCells(e)
             /\ c \in FormulaCells(d) <=> c \in FormulaCells(e)
             /\ c \in CalculationCells(d) => Stored(d, c) = Stored(e, c)
             /\ c \in FormulaCells(d) => c \in CalculationCells(d)
  BY <1>2, <1>3 DEF CalculationCells, FormulaCells, SameCell
<1>4. ASSUME NEW f \in FormulaCells(d) \ dirty
      PROVE  /\ Formula(d, f) = Formula(e, f) /\ Deps(d, f) = Deps(e, f)
             /\ SameFor(d, e, Formula(d, f))
  <2>1. f \notin RootsOf(d, e)
    BY DEF IsUpdate
  <2>2. SameFor(d, e, Formula(d, f))
    BY OffDirty DEF IsUpdate
  <2> QED BY <2>1, <2>2, OffRoots DEF IsUpdate
<1>5. ASSUME NEW c \in CalculationCells(d) \ dirty
      PROVE  PregraphFailure(d, c) = PregraphFailure(e, c)
  <2>1. SameCell(d, e, c)
    BY <1>2 DEF CalculationCells
  <2>2. c \in FormulaCells(d) => SameFor(d, e, Formula(d, c))
    BY <1>4
  <2> QED BY <2>1, <2>2, PregraphSame DEF IsUpdate
<1>6. ASSUME NEW c, c \notin dirty PROVE c \in Eligible(d) <=> c \in Eligible(e)
  BY <1>3, <1>5, <1>6 DEF Eligible
<1> QED BY <1>3, <1>4, <1>5, <1>6

\* So are the cycles.
LEMMA CyclesOffDirty ==
  ASSUME NEW d, NEW e, NEW dirty, IsUpdate(d, e, dirty), NEW f, f \notin dirty
  PROVE  /\ f \in DOMAIN Cycles(d) <=> f \in DOMAIN Cycles(e)
         /\ f \in DOMAIN Cycles(d) => Cycles(d)[f] = Cycles(e)[f]
<1> DEFINE P == Eligible(d)
           Q == Eligible(e)
           O == Eligible(d) \ dirty
           next == Among(d, P)
           other == Among(e, Q)
<1>1. P \subseteq FormulaCells(d) /\ Q \subseteq FormulaCells(e)
  BY DEF Eligible
<1>2. O \subseteq P /\ O \subseteq Q /\ O = Q \ dirty
  BY CellsOffDirty
<1>3. IsNetwork(next, P) /\ IsNetwork(other, Q)
  BY <1>1, CycleFailuresAre DEF IsUpdate
<1>4. ASSUME NEW x \in O PROVE next[x] = other[x] /\ next[x] \subseteq O
  <2>0. x \in FormulaCells(d) \ dirty
    BY <1>1
  <2>1. Deps(d, x) = Deps(e, x) /\ Deps(d, x) \intersect dirty = {}
    <3>1. Deps(d, x) = Deps(e, x)
      BY <2>0, CellsOffDirty
    <3>2. IsClosed(d, dirty)
      BY DEF IsUpdate
    <3> QED BY <2>0, <3>1, <3>2 DEF IsClosed
  <2>2. next[x] = Deps(d, x) \intersect P /\ other[x] = Deps(e, x) \intersect Q
    BY <1>2 DEF Among
  <2> QED BY <1>2, <2>1, <2>2
<1> HIDE DEF P, Q, O, next, other
<1>5. ASSUME NEW x \in O
      PROVE  Reached(next, next[x]) = Reached(other, other[x]) /\ Reached(next, next[x]) \subseteq O
  BY <1>2, <1>3, <1>4, ReachedInside
<1>6. ASSUME NEW x \in O PROVE Reaches(d, P, x) = Reaches(e, Q, x) /\ Reaches(d, P, x) \subseteq O
  BY <1>5 DEF Reaches, next, other
<1>7. f \in OnCycles(d, P) <=> f \in OnCycles(e, Q)
  BY <1>2, <1>6 DEF OnCycles, P, Q, O
<1>8. f \in OnCycles(d, P) => CycleOf(d, P, f) = CycleOf(e, Q, f)
  <2> SUFFICES ASSUME f \in OnCycles(d, P) PROVE CycleOf(d, P, f) = CycleOf(e, Q, f)
    OBVIOUS
  <2>1. f \in O
    BY DEF OnCycles, O, P
  <2>2. \A c : c \in CycleOf(d, P, f) <=> c \in O /\ c \in Reaches(d, P, f) /\ f \in Reaches(d, P, c)
    BY <1>2, <1>6, <2>1 DEF CycleOf
  <2>3. \A c : c \in CycleOf(e, Q, f) <=> c \in O /\ c \in Reaches(e, Q, f) /\ f \in Reaches(e, Q, c)
    BY <1>2, <1>6, <2>1 DEF CycleOf
  <2> QED BY <1>6, <2>1, <2>2, <2>3
<1>9. /\ DOMAIN Cycles(d) = OnCycles(d, P) /\ \A c \in OnCycles(d, P) : Cycles(d)[c] = <<"cycle", CycleOf(d, P, c)>>
      /\ DOMAIN Cycles(e) = OnCycles(e, Q) /\ \A c \in OnCycles(e, Q) : Cycles(e)[c] = <<"cycle", CycleOf(e, Q, c)>>
  BY <1>1, CycleFailuresAre DEF IsUpdate, Cycles, P, Q
<1> QED BY <1>7, <1>8, <1>9

\* What was right of the cells that are not dirty still is.
LEMMA RightOffDirty ==
  ASSUME NEW d, NEW e, NEW dirty, IsUpdate(d, e, dirty), NEW s, IsCalculation(d, s)
  PROVE  IsKept(e, s, dirty)
<1>1. /\ (DOMAIN s.values) \intersect DOMAIN s.failures = {}
      /\ (DOMAIN s.values) \union DOMAIN s.failures = CalculationCells(d)
  BY DEF IsCalculation, Covering
<1>2. ASSUME NEW c \in CalculationCells(e) \ dirty PROVE IsRightAt(e, s, c)
  <2>1. /\ c \in CalculationCells(d) /\ IsRightAt(d, s, c)
        /\ c \in FormulaCells(d) <=> c \in FormulaCells(e)
        /\ Stored(d, c) = Stored(e, c) /\ PregraphFailure(d, c) = PregraphFailure(e, c)
    BY CellsOffDirty DEF IsCalculation
  <2>2. /\ c \in DOMAIN Cycles(d) <=> c \in DOMAIN Cycles(e)
        /\ c \in DOMAIN Cycles(d) => Cycles(d)[c] = Cycles(e)[c]
    BY CyclesOffDirty
  <2>3. ASSUME c \in FormulaCells(d), PregraphFailure(d, c) = {}, IsEvaluated(d, s, c)
        PROVE  IsEvaluated(e, s, c)
    <3>1. SameFor(d, e, Formula(d, c)) /\ Formula(d, c) = Formula(e, c)
      BY <2>3, CellsOffDirty
    <3>2. Evaluate(d, s.values, s.failures, Formula(d, c)) = Evaluate(e, s.values, s.failures, Formula(d, c))
      BY <2>3, <3>1, EvaluateSameFor
    <3> QED BY <2>3, <3>1, <3>2 DEF IsEvaluated
  <2> QED BY <2>1, <2>2, <2>3 DEF IsRightAt
<1>3. CalculationCells(d) \ dirty = CalculationCells(e) \ dirty
  BY CellsOffDirty
<1> QED BY <1>1, <1>2, <1>3 DEF IsKept

\* An update, with the graph of the new document, calculates that document.
LEMMA UpdateIsCalculation ==
  ASSUME NEW d, NEW e, NEW dirty, IsUpdate(d, e, dirty), NEW s, IsCalculation(d, s)
  PROVE  IsCalculation(e, Recomputed(e, NewGraph(e), s, dirty))
<1>1. IsKept(e, s, dirty)
  BY RightOffDirty
<1> QED BY <1>1, RecomputedIsCalculation DEF IsUpdate

-----------------------------------------------------------------------------
(* The graph of an update.                                                 *)

\* The order of the roots leaves none out.
LEMMA InOrderCovers ==
  ASSUME NEW S, IsFiniteSet(S), S \subseteq Nat \X Nat
  PROVE  /\ Len(InOrder(S)) = Cardinality(S) /\ Cardinality(S) \in Nat
         /\ \A c \in S : \E i \in 1 .. Cardinality(S) : InOrder(S)[i] = c
<1> DEFINE N == Cardinality(S)
           prior(c) == {other \in S : CellBefore(other, c)}
           rank(c) == Cardinality(prior(c))
<1>1. N \in Nat
  BY FS_CardinalityType
<1>2. ASSUME NEW c \in S
      PROVE  IsFiniteSet(prior(c)) /\ rank(c) \in Nat /\ rank(c) <= N - 1
  <2>1. prior(c) \in SUBSET S
    OBVIOUS
  <2>2. c \notin prior(c)
    <3>1. c[1] \in Nat /\ c[2] \in Nat
      OBVIOUS
    <3> QED BY <3>1 DEF CellBefore
  <2> HIDE DEF prior
  <2>3. /\ IsFiniteSet(prior(c)) /\ Cardinality(prior(c)) <= N /\ Cardinality(prior(c)) # N
    BY <2>1, <2>2, FS_Subset
  <2>4. Cardinality(prior(c)) \in Nat
    BY <2>3, FS_CardinalityType
  <2> HIDE DEF N
  <2> QED BY <1>1, <2>3, <2>4
<1>3. ASSUME NEW a \in S, NEW b \in S, CellBefore(a, b) PROVE rank(a) < rank(b)
  <2>1. prior(a) \in SUBSET prior(b)
    <3>1. \A c \in S : c[1] \in Nat /\ c[2] \in Nat
      OBVIOUS
    <3>2. ASSUME NEW c \in S, CellBefore(c, a) PROVE CellBefore(c, b)
      BY <1>3, <3>1, <3>2 DEF CellBefore
    <3> QED BY <3>2
  <2>2. a \in prior(b) /\ a \notin prior(a)
    <3>1. a[1] \in Nat /\ a[2] \in Nat
      OBVIOUS
    <3> QED BY <1>3, <3>1 DEF CellBefore
  <2>3. IsFiniteSet(prior(b)) /\ rank(a) \in Nat /\ rank(b) \in Nat
    BY <1>2
  <2> HIDE DEF prior
  <2>4. rank(a) <= rank(b) /\ rank(a) # rank(b)
    BY <2>1, <2>2, <2>3, FS_Subset
  <2> HIDE DEF rank
  <2> QED BY <2>3, <2>4
<1>4. ASSUME NEW a \in S, NEW b \in S, rank(a) = rank(b) PROVE a = b
  <2>1. CellBefore(a, b) \/ CellBefore(b, a) \/ a = b
    <3>1. /\ a = <<a[1], a[2]>> /\ a[1] \in Nat /\ a[2] \in Nat
          /\ b = <<b[1], b[2]>> /\ b[1] \in Nat /\ b[2] \in Nat
      OBVIOUS
    <3> QED BY <3>1 DEF CellBefore
  <2>2. rank(a) \in Nat /\ rank(b) \in Nat
    BY <1>2
  <2> HIDE DEF rank
  <2> QED BY <1>3, <1>4, <2>1, <2>2
<1>5. InOrder(S) = [i \in 1 .. N |-> CHOOSE c \in S : rank(c) = i - 1]
  BY DEF InOrder
<1>6. Len(InOrder(S)) = N
  <2> HIDE DEF N, rank
  <2> QED BY <1>1, <1>5
<1>7. ASSUME NEW c \in S PROVE \E i \in 1 .. N : InOrder(S)[i] = c
  <2> DEFINE i == rank(c) + 1
  <2>1. rank(c) \in Nat /\ rank(c) <= N - 1
    BY <1>2
  <2> HIDE DEF rank, N
  <2>2. i \in 1 .. N /\ i - 1 = rank(c)
    BY <1>1, <2>1
  <2>3. InOrder(S)[i] = CHOOSE b \in S : rank(b) = rank(c)
    BY <1>5, <2>2
  <2>4. (CHOOSE b \in S : rank(b) = rank(c)) = c
    BY <1>4
  <2> QED BY <2>2, <2>3, <2>4
<1> QED BY <1>1, <1>6, <1>7

\* What putting slots in, taking them out and putting a formula in make of a graph.
SlotsEnsured(g, d, columns, h) ==
  /\ DOMAIN h.slots = (DOMAIN g.slots) \union columns
  /\ \A k \in DOMAIN g.slots : h.slots[k] = g.slots[k]
  /\ \A k \in columns \ DOMAIN g.slots : h.slots[k] = Slots(d, k)
  /\ \A c : c \in DOMAIN h.slotColumn <=>
              c \in DOMAIN g.slotColumn \/ \E k \in columns \ DOMAIN g.slots : c \in Slots(d, k)
  /\ \A c \in DOMAIN h.slotColumn :
       h.slotColumn[c] = IF \E k \in columns \ DOMAIN g.slots : c \in Slots(d, k) THEN ColumnOf(d, c)
                         ELSE g.slotColumn[c]

IsEnsured(g, d, columns, h) ==
  /\ IsGraph(h) /\ SlotsEnsured(g, d, columns, h)
  /\ h.references = g.references /\ h.columns = g.columns /\ h.schemaOf = g.schemaOf

IsCleared(g, columns, h) ==
  /\ IsGraph(h)
  /\ h.references = g.references /\ h.columns = g.columns /\ h.schemaOf = g.schemaOf
  /\ DOMAIN h.slots = (DOMAIN g.slots) \ columns
  /\ \A k \in DOMAIN h.slots : h.slots[k] = g.slots[k]
  /\ \A c : c \in DOMAIN h.slotColumn <=>
              c \in DOMAIN g.slotColumn /\ \A k \in columns \intersect DOMAIN g.slots : c \notin g.slots[k]
  /\ \A c \in DOMAIN h.slotColumn : h.slotColumn[c] = g.slotColumn[c]

IsInserted(g, d, formulas, h) ==
  /\ IsGraph(h) /\ h.schemaOf = g.schemaOf
  /\ SlotsEnsured(g, d, UNION {Formula(d, f).columns : f \in formulas}, h)
  /\ DOMAIN h.references = formulas \union DOMAIN g.references
  /\ DOMAIN h.columns = formulas \union DOMAIN g.columns
  /\ \A f \in formulas : /\ h.references[f] = DirectReferences(Formula(d, f))
                         /\ h.columns[f] = Formula(d, f).columns
  /\ \A f \in (DOMAIN g.references) \ formulas : h.references[f] = g.references[f]
  /\ \A f \in (DOMAIN g.columns) \ formulas : h.columns[f] = g.columns[f]

LEMMA EnsureIs ==
  ASSUME NEW g, IsGraph(g), NEW d, NEW columns
  PROVE  IsEnsured(g, d, columns, EnsureColumnSlots(g, d, columns))
<1> DEFINE h == EnsureColumnSlots(g, d, columns)
           new == columns \ DOMAIN g.slots
           slots == UNION {Slots(d, k) : k \in new}
           of == [k \in new |-> Slots(d, k)]
           column == [slot \in slots |-> ColumnOf(d, slot)]
<1>1. h = [g EXCEPT !.slots = Over(of, @), !.slotColumn = Over(column, @)]
  BY DEF EnsureColumnSlots
<1>2. /\ IsMap(of) /\ DOMAIN of = new /\ \A k \in new : of[k] = Slots(d, k)
      /\ IsMap(column) /\ DOMAIN column = slots /\ \A c \in slots : column[c] = ColumnOf(d, c)
  BY DEF IsMap
<1>3. \A c : c \in slots <=> \E k \in new : c \in Slots(d, k)
  OBVIOUS
<1>4. new = columns \ DOMAIN g.slots
  OBVIOUS
<1> HIDE DEF of, column, slots, new
<1>5. g = [references |-> g.references, columns |-> g.columns, slots |-> g.slots,
           slotColumn |-> g.slotColumn, schemaOf |-> g.schemaOf]
      /\ IsMap(g.references) /\ IsMap(g.columns) /\ IsMap(g.slots) /\ IsMap(g.slotColumn) /\ IsMap(g.schemaOf)
  BY DEF IsGraph
<1>6. /\ IsMap(Over(of, g.slots)) /\ DOMAIN Over(of, g.slots) = (DOMAIN of) \union DOMAIN g.slots
      /\ \A k \in DOMAIN of : Over(of, g.slots)[k] = of[k]
      /\ \A k \in (DOMAIN g.slots) \ DOMAIN of : Over(of, g.slots)[k] = g.slots[k]
  BY <1>2, <1>5, OverIs
<1>7. /\ IsMap(Over(column, g.slotColumn))
      /\ DOMAIN Over(column, g.slotColumn) = (DOMAIN column) \union DOMAIN g.slotColumn
      /\ \A c \in DOMAIN column : Over(column, g.slotColumn)[c] = column[c]
      /\ \A c \in (DOMAIN g.slotColumn) \ DOMAIN column : Over(column, g.slotColumn)[c] = g.slotColumn[c]
  BY <1>2, <1>5, OverIs
<1>8. /\ h = [references |-> g.references, columns |-> g.columns, slots |-> Over(of, g.slots),
              slotColumn |-> Over(column, g.slotColumn), schemaOf |-> g.schemaOf]
  BY <1>1, <1>5
<1>9. /\ h.references = g.references /\ h.columns = g.columns /\ h.schemaOf = g.schemaOf
      /\ h.slots = Over(of, g.slots) /\ h.slotColumn = Over(column, g.slotColumn)
  BY <1>8
<1>10. IsGraph(h)
  BY <1>5, <1>6, <1>7, <1>8, <1>9 DEF IsGraph
<1> HIDE DEF h
<1>11. SlotsEnsured(g, d, columns, h)
  BY <1>2, <1>3, <1>4, <1>6, <1>7, <1>9 DEF SlotsEnsured
<1>12. IsEnsured(g, d, columns, h)
  BY <1>9, <1>10, <1>11 DEF IsEnsured
<1> QED BY <1>12 DEF h

LEMMA ClearIs ==
  ASSUME NEW g, IsGraph(g), NEW columns
  PROVE  IsCleared(g, columns, ClearSlots(g, columns))
<1> DEFINE h == ClearSlots(g, columns)
           cells == UNION {g.slots[k] : k \in columns \intersect DOMAIN g.slots}
<1>1. \A c : c \in cells <=> \E k \in columns \intersect DOMAIN g.slots : c \in g.slots[k]
  OBVIOUS
<1>2. h = [g EXCEPT !.slots = Leave(@, columns), !.slotColumn = Leave(@, cells)]
  BY DEF ClearSlots
<1> HIDE DEF cells
<1>3. g = [references |-> g.references, columns |-> g.columns, slots |-> g.slots,
           slotColumn |-> g.slotColumn, schemaOf |-> g.schemaOf]
      /\ IsMap(g.references) /\ IsMap(g.columns) /\ IsMap(g.schemaOf)
  BY DEF IsGraph
<1>4. /\ h = [references |-> g.references, columns |-> g.columns, slots |-> Leave(g.slots, columns),
              slotColumn |-> Leave(g.slotColumn, cells), schemaOf |-> g.schemaOf]
  BY <1>2, <1>3
<1>5. /\ h.references = g.references /\ h.columns = g.columns /\ h.schemaOf = g.schemaOf
      /\ h.slots = Leave(g.slots, columns) /\ h.slotColumn = Leave(g.slotColumn, cells)
  BY <1>4
<1>6. /\ IsMap(Leave(g.slots, columns)) /\ DOMAIN Leave(g.slots, columns) = (DOMAIN g.slots) \ columns
      /\ \A k \in (DOMAIN g.slots) \ columns : Leave(g.slots, columns)[k] = g.slots[k]
  BY LeaveIs
<1>7. /\ IsMap(Leave(g.slotColumn, cells)) /\ DOMAIN Leave(g.slotColumn, cells) = (DOMAIN g.slotColumn) \ cells
      /\ \A c \in (DOMAIN g.slotColumn) \ cells : Leave(g.slotColumn, cells)[c] = g.slotColumn[c]
  BY LeaveIs
<1>8. IsGraph(h)
  BY <1>3, <1>4, <1>5, <1>6, <1>7 DEF IsGraph
<1> HIDE DEF h
<1>9. IsCleared(g, columns, h)
  BY <1>1, <1>5, <1>6, <1>7, <1>8 DEF IsCleared
<1> QED BY <1>9 DEF h

LEMMA InsertIs ==
  ASSUME NEW g, IsGraph(g), NEW d, NEW formulas
  PROVE  IsInserted(g, d, formulas, InsertEdges(g, d, formulas))
<1> DEFINE h == InsertEdges(g, d, formulas)
           columns == UNION {Formula(d, f).columns : f \in formulas}
           slotted == EnsureColumnSlots(g, d, columns)
           edges == [f \in formulas |-> DirectReferences(Formula(d, f))]
           reads == [f \in formulas |-> Formula(d, f).columns]
<1>1. h = [slotted EXCEPT !.references = Over(edges, @), !.columns = Over(reads, @)]
  BY DEF InsertEdges
<1>2. /\ IsMap(edges) /\ DOMAIN edges = formulas /\ \A f \in formulas : edges[f] = DirectReferences(Formula(d, f))
      /\ IsMap(reads) /\ DOMAIN reads = formulas /\ \A f \in formulas : reads[f] = Formula(d, f).columns
  BY DEF IsMap
<1> HIDE DEF edges, reads
<1>3. IsEnsured(g, d, columns, slotted)
  <2> HIDE DEF columns
  <2> QED BY EnsureIs
<1> HIDE DEF slotted
<1>4. /\ slotted = [references |-> slotted.references, columns |-> slotted.columns, slots |-> slotted.slots,
                    slotColumn |-> slotted.slotColumn, schemaOf |-> slotted.schemaOf]
      /\ IsMap(slotted.slots) /\ IsMap(slotted.slotColumn) /\ IsMap(slotted.schemaOf)
      /\ IsMap(slotted.references) /\ IsMap(slotted.columns)
      /\ slotted.references = g.references /\ slotted.columns = g.columns /\ slotted.schemaOf = g.schemaOf
  BY <1>3 DEF IsEnsured, IsGraph
<1>5. /\ IsMap(Over(edges, g.references)) /\ DOMAIN Over(edges, g.references) = (DOMAIN edges) \union DOMAIN g.references
      /\ \A k \in DOMAIN edges : Over(edges, g.references)[k] = edges[k]
      /\ \A k \in (DOMAIN g.references) \ DOMAIN edges : Over(edges, g.references)[k] = g.references[k]
  BY <1>2, <1>4, OverIs
<1>6. /\ IsMap(Over(reads, g.columns)) /\ DOMAIN Over(reads, g.columns) = (DOMAIN reads) \union DOMAIN g.columns
      /\ \A k \in DOMAIN reads : Over(reads, g.columns)[k] = reads[k]
      /\ \A k \in (DOMAIN g.columns) \ DOMAIN reads : Over(reads, g.columns)[k] = g.columns[k]
  BY <1>2, <1>4, OverIs, ZenonT(30)
<1>7. h = [references |-> Over(edges, g.references), columns |-> Over(reads, g.columns), slots |-> slotted.slots,
           slotColumn |-> slotted.slotColumn, schemaOf |-> g.schemaOf]
  BY <1>1, <1>4
<1>8. /\ h.references = Over(edges, g.references) /\ h.columns = Over(reads, g.columns) /\ h.schemaOf = g.schemaOf
      /\ h.slots = slotted.slots /\ h.slotColumn = slotted.slotColumn
  BY <1>7
<1>9. IsGraph(h)
  BY <1>4, <1>5, <1>6, <1>7, <1>8 DEF IsGraph
<1> HIDE DEF h
<1>10. SlotsEnsured(g, d, columns, h)
  <2>1. SlotsEnsured(g, d, columns, slotted)
    BY <1>3 DEF IsEnsured
  <2> HIDE DEF columns
  <2> QED BY <1>8, <2>1 DEF SlotsEnsured
<1>11. IsInserted(g, d, formulas, h)
  BY <1>2, <1>5, <1>6, <1>8, <1>9, <1>10 DEF IsInserted
<1> QED BY <1>11 DEF h

\* The columns only a root reads, and those it is to read.
Unread(g, root) ==
  {k \in UNION Entry(g.columns, root) : \A f \in (DOMAIN g.columns) \ {root} : k \notin g.columns[f]}
Added(d, root) == UNION {Formula(d, f).columns : f \in {root} \intersect FormulaCells(d)}
Staying(g, root) == (DOMAIN g.slots) \ Unread(g, root)

IsReplaced(g, d, root, h) ==
  /\ IsGraph(h) /\ h.schemaOf = g.schemaOf
  /\ DOMAIN h.references = ((DOMAIN g.references) \ {root}) \union ({root} \intersect FormulaCells(d))
  /\ DOMAIN h.columns = ((DOMAIN g.columns) \ {root}) \union ({root} \intersect FormulaCells(d))
  /\ \A f \in DOMAIN h.references :
       h.references[f] = IF f = root THEN DirectReferences(Formula(d, root)) ELSE g.references[f]
  /\ \A f \in DOMAIN h.columns :
       h.columns[f] = IF f = root THEN Formula(d, root).columns ELSE g.columns[f]
  /\ DOMAIN h.slots = Staying(g, root) \union Added(d, root)
  /\ \A k \in Staying(g, root) : h.slots[k] = g.slots[k]
  /\ \A k \in Added(d, root) \ Staying(g, root) : h.slots[k] = Slots(d, k)
  /\ \A c : c \in DOMAIN h.slotColumn <=>
              \/ c \in DOMAIN g.slotColumn /\ \A k \in Unread(g, root) \intersect DOMAIN g.slots : c \notin g.slots[k]
              \/ \E k \in Added(d, root) \ Staying(g, root) : c \in Slots(d, k)
  /\ \A c \in DOMAIN h.slotColumn :
       h.slotColumn[c] = IF \E k \in Added(d, root) \ Staying(g, root) : c \in Slots(d, k) THEN ColumnOf(d, c)
                         ELSE g.slotColumn[c]

LEMMA ReplaceIs ==
  ASSUME NEW g, IsGraph(g), NEW d, NEW root
  PROVE  IsReplaced(g, d, root, ReplaceFormula(g, d, root))
<1> DEFINE dropped == [g EXCEPT !.references = Leave(@, {root}), !.columns = Leave(@, {root})]
           unread == {k \in UNION Entry(g.columns, root) : ColumnReaders(dropped, k) = {}}
           cleared == ClearSlots(dropped, unread)
           own == {root} \intersect FormulaCells(d)
           h == InsertEdges(cleared, d, own)
<1>1. ReplaceFormula(g, d, root) = h
  BY DEF ReplaceFormula
<1>2. g = [references |-> g.references, columns |-> g.columns, slots |-> g.slots,
           slotColumn |-> g.slotColumn, schemaOf |-> g.schemaOf]
      /\ IsMap(g.slots) /\ IsMap(g.slotColumn) /\ IsMap(g.schemaOf)
  BY DEF IsGraph
<1>3. dropped = [references |-> Leave(g.references, {root}), columns |-> Leave(g.columns, {root}), slots |-> g.slots,
                 slotColumn |-> g.slotColumn, schemaOf |-> g.schemaOf]
  <2> SUFFICES ASSUME NEW a, NEW b, NEW m, m = [g EXCEPT !.references = a, !.columns = b]
               PROVE  m = [references |-> a, columns |-> b, slots |-> g.slots,
                           slotColumn |-> g.slotColumn, schemaOf |-> g.schemaOf]
    OBVIOUS
  <2> HIDE DEF dropped, unread, cleared, own, h
  <2> QED BY <1>2
<1>4. /\ IsMap(Leave(g.references, {root})) /\ DOMAIN Leave(g.references, {root}) = (DOMAIN g.references) \ {root}
      /\ \A k \in (DOMAIN g.references) \ {root} : Leave(g.references, {root})[k] = g.references[k]
  BY LeaveIs
<1>5. /\ IsMap(Leave(g.columns, {root})) /\ DOMAIN Leave(g.columns, {root}) = (DOMAIN g.columns) \ {root}
      /\ \A k \in (DOMAIN g.columns) \ {root} : Leave(g.columns, {root})[k] = g.columns[k]
  BY LeaveIs
<1>6. /\ dropped.references = Leave(g.references, {root}) /\ dropped.columns = Leave(g.columns, {root})
      /\ dropped.slots = g.slots /\ dropped.slotColumn = g.slotColumn /\ dropped.schemaOf = g.schemaOf
  BY <1>3
<1>7. IsGraph(dropped)
  BY <1>2, <1>3, <1>4, <1>5, <1>6 DEF IsGraph
<1> HIDE DEF dropped
<1>8. unread = Unread(g, root)
  BY <1>5, <1>6 DEF Unread, ColumnReaders
<1> HIDE DEF unread
<1>9. IsCleared(dropped, unread, cleared)
  BY <1>7, ClearIs
<1> HIDE DEF cleared
<1>10. IsInserted(cleared, d, own, h)
  <2>1. IsGraph(cleared)
    BY <1>9 DEF IsCleared
  <2> HIDE DEF own
  <2> QED BY <2>1, InsertIs
<1>11. UNION {Formula(d, f).columns : f \in own} = Added(d, root)
  BY DEF Added
<1>12. \A f : f \in own <=> f = root /\ root \in FormulaCells(d)
  OBVIOUS
<1>13. own = {root} \intersect FormulaCells(d)
  OBVIOUS
<1> HIDE DEF own, h
<1>14. /\ DOMAIN cleared.slots = Staying(g, root)
       /\ \A k \in Staying(g, root) : cleared.slots[k] = g.slots[k]
       /\ \A c : c \in DOMAIN cleared.slotColumn <=>
            c \in DOMAIN g.slotColumn /\ \A k \in Unread(g, root) \intersect DOMAIN g.slots : c \notin g.slots[k]
       /\ \A c \in DOMAIN cleared.slotColumn : cleared.slotColumn[c] = g.slotColumn[c]
  BY <1>6, <1>8, <1>9 DEF IsCleared, Staying
<1>15. /\ SlotsEnsured(cleared, d, Added(d, root), h)
  BY <1>10, <1>11 DEF IsInserted
<1>16. /\ DOMAIN h.slots = Staying(g, root) \union Added(d, root)
       /\ \A k \in Staying(g, root) : h.slots[k] = g.slots[k]
       /\ \A k \in Added(d, root) \ Staying(g, root) : h.slots[k] = Slots(d, k)
  BY <1>14, <1>15 DEF SlotsEnsured
<1>17. /\ \A c : c \in DOMAIN h.slotColumn <=>
              \/ c \in DOMAIN g.slotColumn /\ \A k \in Unread(g, root) \intersect DOMAIN g.slots : c \notin g.slots[k]
              \/ \E k \in Added(d, root) \ Staying(g, root) : c \in Slots(d, k)
       /\ \A c \in DOMAIN h.slotColumn :
            h.slotColumn[c] = IF \E k \in Added(d, root) \ Staying(g, root) : c \in Slots(d, k) THEN ColumnOf(d, c)
                         ELSE g.slotColumn[c]
  BY <1>14, <1>15 DEF SlotsEnsured
<1>18. /\ cleared.references = Leave(g.references, {root}) /\ cleared.columns = Leave(g.columns, {root})
       /\ cleared.schemaOf = g.schemaOf
  BY <1>6, <1>9 DEF IsCleared
<1>19. /\ IsGraph(h) /\ h.schemaOf = g.schemaOf
       /\ DOMAIN h.references = own \union DOMAIN Leave(g.references, {root})
       /\ DOMAIN h.columns = own \union DOMAIN Leave(g.columns, {root})
       /\ \A f \in own : /\ h.references[f] = DirectReferences(Formula(d, f))
                         /\ h.columns[f] = Formula(d, f).columns
       /\ \A f \in (DOMAIN Leave(g.references, {root})) \ own : h.references[f] = Leave(g.references, {root})[f]
       /\ \A f \in (DOMAIN Leave(g.columns, {root})) \ own : h.columns[f] = Leave(g.columns, {root})[f]
  BY <1>10, <1>18 DEF IsInserted
<1>20. \A f \in DOMAIN h.references :
         h.references[f] = IF f = root THEN DirectReferences(Formula(d, root)) ELSE g.references[f]
  BY <1>4, <1>12, <1>19
<1>21. \A f \in DOMAIN h.columns :
         h.columns[f] = IF f = root THEN Formula(d, root).columns ELSE g.columns[f]
  BY <1>5, <1>12, <1>19
<1>22. /\ DOMAIN h.references = ((DOMAIN g.references) \ {root}) \union ({root} \intersect FormulaCells(d))
       /\ DOMAIN h.columns = ((DOMAIN g.columns) \ {root}) \union ({root} \intersect FormulaCells(d))
  BY <1>4, <1>5, <1>13, <1>19
<1>23. IsReplaced(g, d, root, h)
  BY <1>16, <1>17, <1>19, <1>20, <1>21, <1>22 DEF IsReplaced
<1> QED BY <1>1, <1>23

\* Between the graphs of two documents, some cells done: which formulas it has.
FormulasIn(d, e, done) == (FormulaCells(d) \ done) \union (FormulaCells(e) \intersect done)
FormulaIn(d, e, done, f) == IF f \in done THEN Formula(e, f) ELSE Formula(d, f)

IsCarried(d, e, done, G) ==
  IsGraph(G) /\ DOMAIN G.references = FormulasIn(d, e, done) /\ DOMAIN G.columns = FormulasIn(d, e, done)

LEMMA CarriedOn ==
  ASSUME NEW d, NEW e, NEW done, NEW G, IsCarried(d, e, done, G), NEW r
  PROVE  /\ IsCarried(d, e, done \union {r}, ReplaceFormula(G, e, r))
         /\ ReplaceFormula(G, e, r).schemaOf = G.schemaOf
<1> DEFINE h == ReplaceFormula(G, e, r)
<1>1. IsReplaced(G, e, r, h)
  BY ReplaceIs DEF IsCarried
<1> HIDE DEF h
<1>2. FormulasIn(d, e, done \union {r}) = (FormulasIn(d, e, done) \ {r}) \union ({r} \intersect FormulaCells(e))
  BY DEF FormulasIn
<1>3. IsCarried(d, e, done \union {r}, h) /\ h.schemaOf = G.schemaOf
  BY <1>1, <1>2 DEF IsReplaced, IsCarried
<1> QED BY <1>3 DEF h

\* Rows that some schemas do not have moved from or into.
RowsStay(d, e, schemas) ==
  /\ \A r \in DOMAIN d.entities : d.entities[r].schema \notin schemas =>
       r \in DOMAIN e.entities /\ e.entities[r].schema = d.entities[r].schema
  /\ \A r \in DOMAIN e.entities : e.entities[r].schema \notin schemas =>
       r \in DOMAIN d.entities /\ d.entities[r].schema = e.entities[r].schema

LEMMA SlotsStay ==
  ASSUME NEW d, NEW e, NEW schemas, RowsStay(d, e, schemas), NEW k, k = <<k[1], k[2]>>, k[1] \notin schemas
  PROVE  /\ Slots(d, k) = Slots(e, k)
         /\ \A c \in Slots(d, k) : ColumnOf(e, c) = k
         /\ \A j, c : j = <<j[1], j[2]>> /\ c \in Slots(d, k) /\ (c \in Slots(d, j) \/ c \in Slots(e, j)) => j = k
<1>1. \A c : c \in Slots(d, k) <=> c \in Slots(e, k)
  BY SlotIs DEF RowsStay
<1>2. \A c \in Slots(d, k) : /\ c[1] \in DOMAIN d.entities /\ d.entities[c[1]].schema = k[1] /\ c[2] = k[2]
                             /\ c[1] \in DOMAIN e.entities /\ e.entities[c[1]].schema = k[1]
  BY <1>1, SlotIs
<1>3. ASSUME NEW j, NEW c, j = <<j[1], j[2]>>, c \in Slots(d, k), c \in Slots(d, j) \/ c \in Slots(e, j)
      PROVE  j = k
  <2>1. j[1] = k[1] /\ j[2] = k[2]
    BY <1>2, <1>3, SlotIs
  <2> QED BY <1>3, <2>1
<1> QED BY <1>1, <1>2, <1>3 DEF ColumnOf

\* And what it holds: each formula as its document has it, the slots of every
\* column it reads as one document has them, and of a column no row left or
\* entered the column of every slot.
IsPartway(d, e, schemas, done, G) ==
  /\ IsCarried(d, e, done, G)
  /\ \A f \in FormulasIn(d, e, done) :
       /\ G.references[f] = DirectReferences(FormulaIn(d, e, done, f))
       /\ G.columns[f] = FormulaIn(d, e, done, f).columns
  /\ \A k : k \in DOMAIN G.slots <=> \E f \in FormulasIn(d, e, done) : k \in G.columns[f]
  /\ \A k \in DOMAIN G.slots : /\ k = <<k[1], k[2]>>
                               /\ G.slots[k] = Slots(d, k) \/ G.slots[k] = Slots(e, k)
  /\ \A c \in DOMAIN G.slotColumn : \E k \in DOMAIN G.slots : c \in G.slots[k]
  /\ \A k \in DOMAIN G.slots : k[1] \notin schemas =>
       \A c \in G.slots[k] : c \in DOMAIN G.slotColumn /\ G.slotColumn[c] = k

LEMMA PartwayOn ==
  ASSUME NEW d, NEW e, IsInMemory(e), NEW schemas, RowsStay(d, e, schemas),
         NEW done, NEW G, IsPartway(d, e, schemas, done, G), NEW r
  PROVE  IsPartway(d, e, schemas, done \union {r}, ReplaceFormula(G, e, r))
<1> DEFINE h == ReplaceFormula(G, e, r)
           more == done \union {r}
           here == FormulasIn(d, e, done)
           there == FormulasIn(d, e, more)
           un == Unread(G, r)
           ad == Added(e, r)
           st == Staying(G, r)
<1>1. IsReplaced(G, e, r, h)
  BY ReplaceIs DEF IsPartway, IsCarried
<1>2. IsCarried(d, e, more, h)
  BY CarriedOn DEF IsPartway
<1>3. /\ DOMAIN h.columns = there /\ DOMAIN G.columns = here /\ DOMAIN h.references = there
  BY <1>2 DEF IsCarried, IsPartway
<1>4. there = (here \ {r}) \union ({r} \intersect FormulaCells(e))
  BY DEF FormulasIn
<1>5. /\ \A f \in there \ {r} : FormulaIn(d, e, more, f) = FormulaIn(d, e, done, f)
      /\ FormulaIn(d, e, more, r) = Formula(e, r)
  BY DEF FormulaIn
<1>6. ad = IF r \in FormulaCells(e) THEN Formula(e, r).columns ELSE {}
  <2>1. CASE r \in FormulaCells(e)
    <3>1. {r} \intersect FormulaCells(e) = {r}
      BY <2>1
    <3> QED BY <2>1, <3>1 DEF Added
  <2>2. CASE r \notin FormulaCells(e)
    <3>1. {r} \intersect FormulaCells(e) = {}
      BY <2>2
    <3> QED BY <2>2, <3>1 DEF Added
  <2> QED BY <2>1, <2>2
<1>7. \A k : k \in un <=> /\ r \in here /\ k \in G.columns[r]
                          /\ \A f \in here \ {r} : k \notin G.columns[f]
  <2>1. \A k : k \in UNION Entry(G.columns, r) <=> r \in here /\ k \in G.columns[r]
    BY <1>3 DEF Entry
  <2> QED BY <1>3, <2>1 DEF Unread
<1>8. st = (DOMAIN G.slots) \ un
  BY DEF Staying
<1> HIDE DEF h, more, here, there, un, ad, st
<1>9. /\ \A f \in here : /\ G.references[f] = DirectReferences(FormulaIn(d, e, done, f))
                         /\ G.columns[f] = FormulaIn(d, e, done, f).columns
      /\ \A k : k \in DOMAIN G.slots <=> \E f \in here : k \in G.columns[f]
      /\ \A k \in DOMAIN G.slots : /\ k = <<k[1], k[2]>>
                                   /\ G.slots[k] = Slots(d, k) \/ G.slots[k] = Slots(e, k)
      /\ \A c \in DOMAIN G.slotColumn : \E k \in DOMAIN G.slots : c \in G.slots[k]
      /\ \A k \in DOMAIN G.slots : k[1] \notin schemas =>
           \A c \in G.slots[k] : c \in DOMAIN G.slotColumn /\ G.slotColumn[c] = k
  BY DEF IsPartway, here
<1>10. /\ \A f \in there : h.references[f] = IF f = r THEN DirectReferences(Formula(e, r)) ELSE G.references[f]
       /\ \A f \in there : h.columns[f] = IF f = r THEN Formula(e, r).columns ELSE G.columns[f]
       /\ DOMAIN h.slots = st \union ad
       /\ \A k \in st : h.slots[k] = G.slots[k]
       /\ \A k \in ad \ st : h.slots[k] = Slots(e, k)
       /\ \A c : c \in DOMAIN h.slotColumn <=>
                   \/ c \in DOMAIN G.slotColumn /\ \A k \in un \intersect DOMAIN G.slots : c \notin G.slots[k]
                   \/ \E k \in ad \ st : c \in Slots(e, k)
       /\ \A c \in DOMAIN h.slotColumn :
            h.slotColumn[c] = IF \E k \in ad \ st : c \in Slots(e, k) THEN ColumnOf(e, c) ELSE G.slotColumn[c]
  BY <1>1, <1>3 DEF IsReplaced, un, ad, st
<1>11. \A f \in there : /\ h.references[f] = DirectReferences(FormulaIn(d, e, more, f))
                        /\ h.columns[f] = FormulaIn(d, e, more, f).columns
  BY <1>4, <1>5, <1>9, <1>10
<1>12. \A k : k \in DOMAIN h.slots <=> \E f \in there : k \in h.columns[f]
  <2>1. ASSUME NEW k, k \in DOMAIN h.slots PROVE \E f \in there : k \in h.columns[f]
    <3>1. CASE k \in ad
      <4>1. r \in there /\ k \in h.columns[r]
        BY <1>4, <1>6, <1>10, <3>1
      <4> QED BY <4>1
    <3>2. CASE k \in st
      <4>1. PICK f \in here : k \in G.columns[f] /\ (f # r \/ k \notin un)
        BY <1>8, <1>9, <3>2
      <4>2. PICK j \in here \ {r} : k \in G.columns[j]
        BY <1>7, <1>8, <3>2, <4>1
      <4> QED BY <1>4, <1>10, <4>2
    <3> QED BY <1>10, <2>1, <3>1, <3>2
  <2>2. ASSUME NEW f \in there, NEW k \in h.columns[f] PROVE k \in DOMAIN h.slots
    <3>1. CASE f = r
      BY <1>4, <1>6, <1>10, <2>2, <3>1
    <3>2. CASE f # r
      <4>1. f \in here /\ k \in G.columns[f]
        BY <1>4, <1>10, <2>2, <3>2
      <4>2. k \in st
        BY <1>7, <1>8, <1>9, <3>2, <4>1
      <4> QED BY <1>10, <4>2
    <3> QED BY <3>1, <3>2
  <2> QED BY <2>1, <2>2
<1>13. \A k \in ad : k = <<k[1], k[2]>>
  BY <1>6 DEF IsInMemory, IsParsed
<1>14. \A k \in DOMAIN h.slots : /\ k = <<k[1], k[2]>>
                                 /\ h.slots[k] = Slots(d, k) \/ h.slots[k] = Slots(e, k)
  BY <1>8, <1>9, <1>10, <1>13
<1>15. \A c \in DOMAIN h.slotColumn : \E k \in DOMAIN h.slots : c \in h.slots[k]
  <2> SUFFICES ASSUME NEW c \in DOMAIN h.slotColumn PROVE \E k \in DOMAIN h.slots : c \in h.slots[k]
    OBVIOUS
  <2>1. CASE \E k \in ad \ st : c \in Slots(e, k)
    BY <1>10, <2>1
  <2>2. CASE c \in DOMAIN G.slotColumn /\ \A k \in un \intersect DOMAIN G.slots : c \notin G.slots[k]
    <3>1. PICK k \in DOMAIN G.slots : c \in G.slots[k]
      BY <1>9, <2>2
    <3>2. k \in st
      BY <1>8, <2>2, <3>1
    <3> QED BY <1>10, <3>1, <3>2
  <2> QED BY <1>10, <2>1, <2>2
<1>16. ASSUME NEW k \in DOMAIN h.slots, k[1] \notin schemas, NEW c \in h.slots[k]
       PROVE  c \in DOMAIN h.slotColumn /\ h.slotColumn[c] = k
  <2>1. /\ k = <<k[1], k[2]>> /\ Slots(d, k) = Slots(e, k) /\ c \in Slots(d, k) /\ ColumnOf(e, c) = k
        /\ \A j : j = <<j[1], j[2]>> /\ (c \in Slots(d, j) \/ c \in Slots(e, j)) => j = k
    BY <1>14, <1>16, SlotsStay
  <2>2. CASE k \in st
    <3>1. c \in DOMAIN G.slotColumn /\ G.slotColumn[c] = k
      BY <1>8, <1>9, <1>10, <1>16, <2>2
    <3>2. ASSUME NEW j \in un \intersect DOMAIN G.slots, c \in G.slots[j] PROVE FALSE
      <4>1. j = k
        BY <1>9, <2>1, <3>2
      <4> QED BY <1>8, <2>2, <3>2, <4>1
    <3> QED BY <1>10, <2>1, <3>1, <3>2
  <2>3. CASE k \in ad \ st
    BY <1>10, <2>1, <2>3
  <2> QED BY <1>10, <2>2, <2>3
<1>17. IsPartway(d, e, schemas, more, h)
  BY <1>2, <1>11, <1>12, <1>14, <1>15, <1>16 DEF IsPartway, there
<1> QED BY <1>17 DEF more, h

IsReplacing(run, start, d, order, n) ==
  run = [k \in 0 .. n |-> IF k = 0 THEN start ELSE ReplaceFormula(run[k - 1], d, order[k])]

LEMMA ReplacingExists ==
  ASSUME NEW start, NEW d, NEW order, NEW N \in Nat
  PROVE  \E run : IsReplacing(run, start, d, order, N)
<1> DEFINE Is(run, n) == IsReplacing(run, start, d, order, n)
           S == {n \in 0 .. N : \E run : Is(run, n)}
<1>1. 0 \in S
  <2>1. Is([k \in 0 .. 0 |-> start], 0)
    BY DEF IsReplacing
  <2> QED BY <2>1
<1>2. ASSUME NEW n \in 1 .. N, n - 1 \in S PROVE n \in S
  <2>1. PICK run : Is(run, n - 1)
    BY <1>2
  <2> DEFINE last == ReplaceFormula(run[n - 1], d, order[n])
             longer == [k \in 0 .. n |-> IF k = n THEN last ELSE run[k]]
  <2>2. longer[n] = last /\ \A k \in 0 .. n - 1 : longer[k] = run[k]
    OBVIOUS
  <2>3. \A k \in 0 .. n - 1 : run[k] = IF k = 0 THEN start ELSE ReplaceFormula(run[k - 1], d, order[k])
    BY <2>1 DEF IsReplacing
  <2>4. ASSUME NEW k \in 0 .. n
        PROVE  longer[k] = IF k = 0 THEN start ELSE ReplaceFormula(longer[k - 1], d, order[k])
    <3> HIDE DEF longer
    <3>1. CASE k = n
      <4>1. longer[k - 1] = run[n - 1] /\ k # 0
        BY <2>2, <3>1
      <4> QED BY <2>2, <3>1, <4>1
    <3>2. CASE k # n
      <4>1. k \in 0 .. n - 1 /\ (k # 0 => k - 1 \in 0 .. n - 1)
        BY <3>2
      <4>2. k # 0 => longer[k - 1] = run[k - 1]
        BY <2>2, <4>1
      <4> QED BY <2>2, <2>3, <4>1, <4>2
    <3> QED BY <3>1, <3>2
  <2>5. Is(longer, n)
    BY <2>4 DEF IsReplacing
  <2> QED BY <2>5
<1> HIDE DEF S
<1>3. N \in S
  BY <1>1, <1>2, SegmentInduction
<1> QED BY <1>3 DEF S

\* An update of the graph, from its first step to its last.
RootRows(roots) == {root[1] : root \in roots}
SchemasAt(d, g, roots) == UNION {SchemasOf(g, d, root[1]) : root \in roots}
Started(d, g, roots) ==
  [g EXCEPT !.schemaOf = Over([r \in RootRows(roots) \intersect DOMAIN d.entities |-> d.entities[r].schema], @)]
Finished(d, g, roots, last) ==
  [RefreshColumnSlots(last, d, TrackedColumns(last, SchemasAt(d, g, roots)))
     EXCEPT !.schemaOf = Leave(@, RootRows(roots) \ DOMAIN d.entities)]
IsRun(run, d, g, roots) ==
  /\ run[0] = Started(d, g, roots)
  /\ \A k \in 1 .. Cardinality(roots) : run[k] = ReplaceFormula(run[k - 1], d, InOrder(roots)[k])
  /\ UpdatedGraph(d, g, roots) = Finished(d, g, roots, run[Cardinality(roots)])

LEMMA RunExists ==
  ASSUME NEW d, NEW g, NEW roots, IsFiniteSet(roots), roots \subseteq Nat \X Nat
  PROVE  \E run : IsRun(run, d, g, roots)
<1> DEFINE order == InOrder(roots)
           N == Len(order)
           start == Started(d, g, roots)
           replaced == CHOOSE run : IsReplacing(run, start, d, order, N)
<1>1. N = Cardinality(roots) /\ N \in Nat
  BY InOrderCovers
<1>2. IsReplacing(replaced, start, d, order, N)
  BY <1>1, ReplacingExists
<1>3. UpdatedGraph(d, g, roots) = Finished(d, g, roots, replaced[N])
  BY DEF UpdatedGraph, Finished, Started, IsReplacing, RootRows, SchemasAt
<1> HIDE DEF replaced, start
<1>4. \A k \in 0 .. N : replaced[k] = IF k = 0 THEN start ELSE ReplaceFormula(replaced[k - 1], d, order[k])
  BY <1>2 DEF IsReplacing
<1> HIDE DEF N
<1>5. replaced[0] = start /\ \A k \in 1 .. N : replaced[k] = ReplaceFormula(replaced[k - 1], d, order[k])
  <2>1. 0 \in 0 .. N /\ \A k \in 1 .. N : k \in 0 .. N /\ k # 0
    BY <1>1
  <2> QED BY <1>4, <2>1
<1> QED BY <1>1, <1>3, <1>5 DEF IsRun, start

\* The formulas done after some steps.
DoneBy(roots, n) == {InOrder(roots)[i] : i \in 1 .. n}

LEMMA DoneIs ==
  ASSUME NEW roots, IsFiniteSet(roots), roots \subseteq Nat \X Nat
  PROVE  /\ Cardinality(roots) \in Nat /\ DoneBy(roots, 0) = {}
         /\ \A n \in 1 .. Cardinality(roots) : DoneBy(roots, n) = DoneBy(roots, n - 1) \union {InOrder(roots)[n]}
         /\ roots \subseteq DoneBy(roots, Cardinality(roots))
<1>1. Cardinality(roots) \in Nat /\ \A c \in roots : \E i \in 1 .. Cardinality(roots) : InOrder(roots)[i] = c
  BY InOrderCovers
<1>2. DoneBy(roots, 0) = {}
  BY DEF DoneBy
<1>3. ASSUME NEW n \in 1 .. Cardinality(roots)
      PROVE  DoneBy(roots, n) = DoneBy(roots, n - 1) \union {InOrder(roots)[n]}
  <2>1. 1 .. n = (1 .. n - 1) \union {n}
    BY <1>1
  <2> QED BY <2>1 DEF DoneBy
<1> QED BY <1>1, <1>2, <1>3 DEF DoneBy

LEMMA CarriedThrough ==
  ASSUME NEW d, NEW e, NEW roots, IsFiniteSet(roots), roots \subseteq Nat \X Nat,
         NEW g, NEW run, IsRun(run, e, g, roots), IsCarried(d, e, {}, run[0])
  PROVE  /\ IsCarried(d, e, DoneBy(roots, Cardinality(roots)), run[Cardinality(roots)])
         /\ run[Cardinality(roots)].schemaOf = run[0].schemaOf
<1> DEFINE N == Cardinality(roots)
           S == {n \in 0 .. N : IsCarried(d, e, DoneBy(roots, n), run[n]) /\ run[n].schemaOf = run[0].schemaOf}
<1>1. /\ N \in Nat /\ DoneBy(roots, 0) = {}
      /\ \A n \in 1 .. N : DoneBy(roots, n) = DoneBy(roots, n - 1) \union {InOrder(roots)[n]}
  BY DoneIs
<1>2. \A n \in 1 .. N : run[n] = ReplaceFormula(run[n - 1], e, InOrder(roots)[n])
  BY DEF IsRun
<1> HIDE DEF N
<1>3. 0 \in S
  <2>1. IsCarried(d, e, DoneBy(roots, 0), run[0])
    BY <1>1
  <2>2. 0 \in 0 .. N
    BY <1>1
  <2> QED BY <2>1, <2>2
<1>4. ASSUME NEW n \in 1 .. N, n - 1 \in S PROVE n \in S
  <2>1. IsCarried(d, e, DoneBy(roots, n - 1), run[n - 1]) /\ run[n - 1].schemaOf = run[0].schemaOf
    BY <1>4
  <2>2. IsCarried(d, e, DoneBy(roots, n), run[n]) /\ run[n].schemaOf = run[0].schemaOf
    BY <1>1, <1>2, <2>1, CarriedOn
  <2> QED BY <1>1, <2>2
<1> HIDE DEF S
<1>5. N \in S
  <2>1. 0 .. N \subseteq S
    BY <1>1, <1>3, <1>4, SegmentInduction
  <2> QED BY <1>1, <2>1
<1> QED BY <1>5 DEF S, N

LEMMA PartwayThrough ==
  ASSUME NEW d, NEW e, IsInMemory(e), NEW schemas, RowsStay(d, e, schemas),
         NEW roots, IsFiniteSet(roots), roots \subseteq Nat \X Nat,
         NEW g, NEW run, IsRun(run, e, g, roots), IsPartway(d, e, schemas, {}, run[0])
  PROVE  IsPartway(d, e, schemas, DoneBy(roots, Cardinality(roots)), run[Cardinality(roots)])
<1> DEFINE N == Cardinality(roots)
           S == {n \in 0 .. N : IsPartway(d, e, schemas, DoneBy(roots, n), run[n])}
<1>1. /\ N \in Nat /\ DoneBy(roots, 0) = {}
      /\ \A n \in 1 .. N : DoneBy(roots, n) = DoneBy(roots, n - 1) \union {InOrder(roots)[n]}
  BY DoneIs
<1>2. \A n \in 1 .. N : run[n] = ReplaceFormula(run[n - 1], e, InOrder(roots)[n])
  BY DEF IsRun
<1> HIDE DEF N
<1>3. 0 \in S
  BY <1>1
<1>4. ASSUME NEW n \in 1 .. N, n - 1 \in S PROVE n \in S
  <2>1. IsPartway(d, e, schemas, DoneBy(roots, n - 1), run[n - 1])
    BY <1>4
  <2>2. IsPartway(d, e, schemas, DoneBy(roots, n), run[n])
    BY <1>1, <1>2, <2>1, PartwayOn
  <2> QED BY <1>1, <2>2
<1> HIDE DEF S
<1>5. N \in S
  <2>1. 0 .. N \subseteq S
    BY <1>1, <1>3, <1>4, SegmentInduction
  <2> QED BY <1>1, <2>1
<1> QED BY <1>5 DEF S, N

\* When all that changed is done, and the slots of the columns that rows moved
\* between are taken again, the graph is the new document's.
LEMMA RefreshedIsNew ==
  ASSUME NEW d, NEW e, IsInMemory(e), NEW schemas, RowsStay(d, e, schemas), NEW done,
         FormulasIn(d, e, done) = FormulaCells(e),
         \A f \in FormulaCells(e) : FormulaIn(d, e, done, f) = Formula(e, f),
         NEW G, IsPartway(d, e, schemas, done, G)
  PROVE  LET h == RefreshColumnSlots(G, e, TrackedColumns(G, schemas))
         IN /\ IsGraph(h) /\ h.schemaOf = G.schemaOf
            /\ h.references = NewGraph(e).references /\ h.columns = NewGraph(e).columns
            /\ h.slots = NewGraph(e).slots /\ h.slotColumn = NewGraph(e).slotColumn
<1> DEFINE tracked == TrackedColumns(G, schemas)
           cleared == ClearSlots(G, tracked)
           filled == {k \in tracked : ColumnReaders(G, k) # {}}
           h == EnsureColumnSlots(cleared, e, filled)
           F == FormulaCells(e)
<1>1. RefreshColumnSlots(G, e, tracked) = h
  BY DEF RefreshColumnSlots
<1>2. /\ IsGraph(G) /\ DOMAIN G.references = F /\ DOMAIN G.columns = F
      /\ \A f \in F : /\ G.references[f] = DirectReferences(Formula(e, f))
                      /\ G.columns[f] = Formula(e, f).columns
      /\ \A k : k \in DOMAIN G.slots <=> \E f \in F : k \in G.columns[f]
      /\ \A k \in DOMAIN G.slots : /\ k = <<k[1], k[2]>>
                                   /\ G.slots[k] = Slots(d, k) \/ G.slots[k] = Slots(e, k)
      /\ \A c \in DOMAIN G.slotColumn : \E k \in DOMAIN G.slots : c \in G.slots[k]
      /\ \A k \in DOMAIN G.slots : k[1] \notin schemas =>
           \A c \in G.slots[k] : c \in DOMAIN G.slotColumn /\ G.slotColumn[c] = k
  BY DEF IsPartway, IsCarried
<1>3. DOMAIN G.slots = ReadColumns(e)
  BY <1>2 DEF ReadColumns
<1>4. \A k : k \in tracked <=> k \in DOMAIN G.slots /\ k[1] \in schemas
  BY DEF TrackedColumns
<1>5. filled = tracked
  BY <1>2, <1>4 DEF ColumnReaders
<1> HIDE DEF tracked, filled
<1>6. IsCleared(G, tracked, cleared)
  BY <1>2, ClearIs
<1> HIDE DEF cleared
<1>7. IsEnsured(cleared, e, tracked, h)
  BY <1>5, <1>6, EnsureIs DEF IsCleared
<1> HIDE DEF h, F
<1>8. /\ IsGraph(h) /\ h.references = G.references /\ h.columns = G.columns /\ h.schemaOf = G.schemaOf
  BY <1>6, <1>7 DEF IsCleared, IsEnsured
<1>9. /\ DOMAIN cleared.slots = (DOMAIN G.slots) \ tracked
      /\ \A k \in DOMAIN cleared.slots : cleared.slots[k] = G.slots[k]
      /\ \A c : c \in DOMAIN cleared.slotColumn <=>
                  c \in DOMAIN G.slotColumn /\ \A k \in tracked \intersect DOMAIN G.slots : c \notin G.slots[k]
      /\ \A c \in DOMAIN cleared.slotColumn : cleared.slotColumn[c] = G.slotColumn[c]
  BY <1>6 DEF IsCleared
<1>10. /\ DOMAIN h.slots = (DOMAIN cleared.slots) \union tracked
       /\ \A k \in DOMAIN cleared.slots : h.slots[k] = cleared.slots[k]
       /\ \A k \in tracked \ DOMAIN cleared.slots : h.slots[k] = Slots(e, k)
       /\ \A c : c \in DOMAIN h.slotColumn <=>
                   c \in DOMAIN cleared.slotColumn \/ \E k \in tracked \ DOMAIN cleared.slots : c \in Slots(e, k)
       /\ \A c \in DOMAIN h.slotColumn :
            h.slotColumn[c] = IF \E k \in tracked \ DOMAIN cleared.slots : c \in Slots(e, k) THEN ColumnOf(e, c)
                              ELSE cleared.slotColumn[c]
  BY <1>7 DEF IsEnsured, SlotsEnsured
<1>11. ASSUME NEW k \in DOMAIN G.slots, k \notin tracked
       PROVE  /\ G.slots[k] = Slots(e, k) /\ G.slots[k] = Slots(d, k)
              /\ \A c \in Slots(e, k) : ColumnOf(e, c) = k
              /\ \A j, c : j = <<j[1], j[2]>> /\ c \in Slots(e, k) /\ (c \in Slots(d, j) \/ c \in Slots(e, j)) => j = k
  BY <1>2, <1>4, <1>11, SlotsStay
<1>12. DOMAIN h.slots = ReadColumns(e) /\ \A k \in ReadColumns(e) : h.slots[k] = Slots(e, k)
  BY <1>3, <1>4, <1>9, <1>10, <1>11
<1>13. ASSUME NEW c, c \in DOMAIN h.slotColumn PROVE c \in ReadSlots(e) /\ h.slotColumn[c] = ColumnOf(e, c)
  <2>1. CASE \E k \in tracked : c \in Slots(e, k)
    <3>1. PICK k \in tracked \ DOMAIN cleared.slots : c \in Slots(e, k)
      BY <1>9, <2>1
    <3>2. h.slotColumn[c] = ColumnOf(e, c)
      BY <1>10, <1>13, <3>1
    <3> QED BY <1>3, <1>4, <3>1, <3>2 DEF ReadSlots
  <2>2. CASE ~\E k \in tracked : c \in Slots(e, k)
    <3>1. /\ c \in DOMAIN cleared.slotColumn /\ h.slotColumn[c] = cleared.slotColumn[c]
      BY <1>10, <1>13, <2>2
    <3>2. c \in DOMAIN G.slotColumn /\ h.slotColumn[c] = G.slotColumn[c]
          /\ \A k \in tracked : c \notin G.slots[k]
      BY <1>4, <1>9, <3>1
    <3>3. PICK k \in DOMAIN G.slots : c \in G.slots[k]
      BY <1>2, <3>2
    <3>4. k \notin tracked
      BY <3>2, <3>3
    <3>5. G.slotColumn[c] = k
      BY <1>2, <1>4, <3>3, <3>4
    <3>6. c \in Slots(e, k) /\ ColumnOf(e, c) = k
      BY <1>11, <3>3, <3>4
    <3> QED BY <1>3, <3>2, <3>5, <3>6 DEF ReadSlots
  <2> QED BY <2>1, <2>2
<1>14. ASSUME NEW c \in ReadSlots(e) PROVE c \in DOMAIN h.slotColumn
  <2>1. PICK k \in DOMAIN G.slots : c \in Slots(e, k)
    BY <1>3 DEF ReadSlots
  <2>2. CASE k \in tracked
    BY <1>9, <1>10, <2>1, <2>2
  <2>3. CASE k \notin tracked
    <3>1. c \in DOMAIN G.slotColumn
      BY <1>2, <1>4, <1>11, <2>1, <2>3
    <3>2. ASSUME NEW j \in tracked \intersect DOMAIN G.slots, c \in G.slots[j] PROVE FALSE
      <4>1. j = k
        BY <1>2, <1>11, <2>1, <2>3, <3>2
      <4> QED BY <2>3, <3>2, <4>1
    <3> QED BY <1>9, <1>10, <3>1, <3>2
  <2> QED BY <2>2, <2>3
<1> DEFINE N == NewGraph(e)
<1>15. /\ IsMap(N.references) /\ DOMAIN N.references = F /\ \A f \in F : N.references[f] = DirectReferences(Formula(e, f))
       /\ IsMap(N.columns) /\ DOMAIN N.columns = F /\ \A f \in F : N.columns[f] = Formula(e, f).columns
       /\ IsMap(N.slots) /\ DOMAIN N.slots = ReadColumns(e) /\ \A k \in ReadColumns(e) : N.slots[k] = Slots(e, k)
       /\ IsMap(N.slotColumn) /\ DOMAIN N.slotColumn = ReadSlots(e)
       /\ \A c \in ReadSlots(e) : N.slotColumn[c] = ColumnOf(e, c)
  BY NewGraphIs DEF IsMap, F
<1> HIDE DEF N
<1>16. IsMap(h.references) /\ IsMap(h.columns) /\ IsMap(h.slots) /\ IsMap(h.slotColumn)
  BY <1>8 DEF IsGraph
<1>17. h.references = N.references /\ h.columns = N.columns
  <2>1. h.references = N.references
    BY <1>2, <1>8, <1>15, <1>16, MapsEqual
  <2>2. h.columns = N.columns
    BY <1>2, <1>8, <1>15, <1>16, MapsEqual
  <2> QED BY <2>1, <2>2
<1>18. h.slots = N.slots
  BY <1>12, <1>15, <1>16, MapsEqual
<1>19. h.slotColumn = N.slotColumn
  <2>1. DOMAIN h.slotColumn = DOMAIN N.slotColumn
    BY <1>13, <1>14, <1>15
  <2>2. \A c \in DOMAIN h.slotColumn : h.slotColumn[c] = N.slotColumn[c]
    BY <1>13, <1>15
  <2> QED BY <1>15, <1>16, <2>1, <2>2, MapsEqual
<1> QED BY <1>1, <1>8, <1>17, <1>18, <1>19 DEF N, tracked

\* The update starts between the documents, with none done.
LEMMA StartedIsPartway ==
  ASSUME NEW d, NEW e, IsInMemory(d), NEW schemas, RowsStay(d, e, schemas), NEW roots
  PROVE  IsPartway(d, e, schemas, {}, Started(e, NewGraph(d), roots))
<1> DEFINE g == NewGraph(d)
           h == Started(e, g, roots)
           rows == [r \in RootRows(roots) \intersect DOMAIN e.entities |-> e.entities[r].schema]
<1>1. /\ g = [references |-> g.references, columns |-> g.columns, slots |-> g.slots,
              slotColumn |-> g.slotColumn, schemaOf |-> g.schemaOf]
      /\ IsMap(g.references) /\ DOMAIN g.references = FormulaCells(d)
      /\ \A f \in FormulaCells(d) : g.references[f] = DirectReferences(Formula(d, f))
      /\ IsMap(g.columns) /\ DOMAIN g.columns = FormulaCells(d)
      /\ \A f \in FormulaCells(d) : g.columns[f] = Formula(d, f).columns
      /\ IsMap(g.slots) /\ DOMAIN g.slots = ReadColumns(d) /\ \A k \in ReadColumns(d) : g.slots[k] = Slots(d, k)
      /\ IsMap(g.slotColumn) /\ DOMAIN g.slotColumn = ReadSlots(d)
      /\ \A c \in ReadSlots(d) : g.slotColumn[c] = ColumnOf(d, c)
      /\ IsMap(g.schemaOf)
  BY NewGraphIs DEF IsMap
<1> HIDE DEF g
<1>2. h = [g EXCEPT !.schemaOf = Over(rows, @)]
  BY DEF Started
<1>3. IsMap(rows)
  BY DEF IsMap
<1> HIDE DEF rows
<1>4. IsMap(Over(rows, g.schemaOf))
  BY <1>1, <1>3, OverIs
<1>5. h = [references |-> g.references, columns |-> g.columns, slots |-> g.slots,
           slotColumn |-> g.slotColumn, schemaOf |-> Over(rows, g.schemaOf)]
  BY <1>1, <1>2
<1>6. /\ h.references = g.references /\ h.columns = g.columns /\ h.slots = g.slots
      /\ h.slotColumn = g.slotColumn /\ h.schemaOf = Over(rows, g.schemaOf)
  BY <1>5
<1>7. IsGraph(h)
  BY <1>1, <1>4, <1>5, <1>6 DEF IsGraph
<1> HIDE DEF h
<1>8. FormulasIn(d, e, {}) = FormulaCells(d) /\ \A f : FormulaIn(d, e, {}, f) = Formula(d, f)
  BY DEF FormulasIn, FormulaIn
<1>9. IsCarried(d, e, {}, h)
  BY <1>1, <1>6, <1>7, <1>8 DEF IsCarried
<1>10. \A k : k \in ReadColumns(d) <=> \E f \in FormulaCells(d) : k \in g.columns[f]
  BY <1>1 DEF ReadColumns
<1>11. \A k \in ReadColumns(d) : k = <<k[1], k[2]>>
  BY DEF ReadColumns, IsInMemory, IsParsed
<1>12. \A c \in ReadSlots(d) : \E k \in ReadColumns(d) : c \in Slots(d, k)
  BY DEF ReadSlots
<1>13. ASSUME NEW k \in ReadColumns(d), NEW c \in Slots(d, k) PROVE c \in ReadSlots(d) /\ ColumnOf(d, c) = k
  <2>1. d.entities[c[1]].schema = k[1] /\ c[2] = k[2]
    BY SlotIs
  <2> QED BY <1>11, <2>1 DEF ReadSlots, ColumnOf
<1>14. IsPartway(d, e, schemas, {}, h)
  BY <1>1, <1>6, <1>8, <1>9, <1>10, <1>11, <1>12, <1>13 DEF IsPartway
<1> QED BY <1>14 DEF h, g

\* The roots are cells of one document or the other.
LEMMA RowsFieldsAreCells ==
  ASSUME NEW d, NEW e, NEW rows
  PROVE  RowsFields(d, e, rows) \subseteq Cells(d) \union Cells(e)
<1> SUFFICES ASSUME NEW c \in RowsFields(d, e, rows) PROVE c \in Cells(d) \union Cells(e)
  OBVIOUS
<1>1. PICK r \in rows : c \in {r} \X RowFields(d, e, r)
  BY DEF RowsFields
<1>2. c = <<r, c[2]>> /\ c[1] = r /\ c[2] \in RowFields(d, e, r)
  BY <1>1
<1>3. PICK x \in Entry(d.entities, r) \union Entry(e.entities, r) : c[2] \in DOMAIN x.fields
  BY <1>2 DEF RowFields
<1>4. CASE x \in Entry(d.entities, r)
  <2>1. r \in DOMAIN d.entities /\ x = d.entities[r]
    BY <1>4 DEF Entry
  <2> QED BY <1>2, <1>3, <2>1, CellIs
<1>5. CASE x \in Entry(e.entities, r)
  <2>1. r \in DOMAIN e.entities /\ x = e.entities[r]
    BY <1>5 DEF Entry
  <2> QED BY <1>2, <1>3, <2>1, CellIs
<1> QED BY <1>3, <1>4, <1>5

LEMMA RootsAreCells ==
  ASSUME NEW d, NEW e, IsInMemory(d), IsInMemory(e), NEW g, DOMAIN g.columns = FormulaCells(d),
         NEW roots, roots = WithColumnTotalRoots(e, g, CalculationRoots(d, e))
  PROVE  /\ CalculationRoots(d, e) \subseteq roots
         /\ roots \subseteq Cells(d) \union Cells(e)
         /\ IsFiniteSet(roots) /\ roots \subseteq Nat \X Nat
<1>1. StoredChanges(d, e) \subseteq Cells(d) \union Cells(e)
  BY DEF StoredChanges
<1>2. \A columns : StoredIn(d, e, columns) \subseteq Cells(d) \union Cells(e)
  BY DEF StoredIn, ColumnCells
<1>3. CalculationRoots(d, e) \subseteq Cells(d) \union Cells(e)
  BY <1>1, <1>2, RowsFieldsAreCells DEF CalculationRoots
<1>4. \A k : ColumnReaders(g, k) \subseteq Cells(d)
  BY DEF ColumnReaders, FormulaCells
<1>5. CalculationRoots(d, e) \subseteq roots /\ roots \subseteq Cells(d) \union Cells(e)
  BY <1>3, <1>4 DEF WithColumnTotalRoots
<1>6. IsFiniteSet(Cells(d) \union Cells(e)) /\ Cells(d) \union Cells(e) \subseteq Nat \X Nat
  BY FS_Union DEF IsInMemory
<1> QED BY <1>5, <1>6, FS_Subset

\* An update's graph is the graph of the new document.
LEMMA UpdatedGraphIsNew ==
  ASSUME NEW d, NEW e, IsInMemory(d), IsInMemory(e), Covers(d, e)
  PROVE  UpdatedGraph(e, NewGraph(d), RootsOf(d, e)) = NewGraph(e)
<1> DEFINE g == NewGraph(d)
           roots == RootsOf(d, e)
           schemas == SchemasAt(e, g, roots)
           N == Cardinality(roots)
           done == DoneBy(roots, N)
<1>1. CalculationRoots(d, e) \subseteq roots /\ IsFiniteSet(roots) /\ roots \subseteq Nat \X Nat
  <2>1. DOMAIN g.columns = FormulaCells(d)
    BY NewGraphIs
  <2> QED BY <2>1, RootsAreCells DEF RootsOf
<1>2. Moving(d, e) \subseteq schemas
  BY <1>1 DEF Moving, SchemasAt
<1>3. RowsStay(d, e, schemas)
  <2>1. ASSUME NEW r \in DOMAIN d.entities, d.entities[r].schema \notin schemas
        PROVE  r \in DOMAIN e.entities /\ e.entities[r].schema = d.entities[r].schema
    <3>1. r \notin Resettled(d, e)
      BY <1>2, <2>1, ResettledMove
    <3> QED BY <3>1, UnmovedIs
  <2>2. ASSUME NEW r \in DOMAIN e.entities, e.entities[r].schema \notin schemas
        PROVE  r \in DOMAIN d.entities /\ d.entities[r].schema = e.entities[r].schema
    <3>1. r \notin Resettled(d, e)
      BY <1>2, <2>2, ResettledMove
    <3> QED BY <3>1, UnmovedIs
  <2> HIDE DEF schemas
  <2> QED BY <2>1, <2>2 DEF RowsStay
<1>4. ASSUME NEW r, r \notin RootRows(roots)
      PROVE  /\ r \in DOMAIN d.entities <=> r \in DOMAIN e.entities
             /\ r \in DOMAIN d.entities => d.entities[r].schema = e.entities[r].schema
  <2>1. r \notin Resettled(d, e)
    <3> SUFFICES ASSUME r \in Resettled(d, e) PROVE FALSE
      OBVIOUS
    <3>1. PICK c \in CalculationRoots(d, e) : c[1] = r
      BY ResettledMove
    <3> QED BY <1>1, <1>4, <3>1 DEF RootRows
  <2> QED BY <2>1, UnmovedIs
<1> HIDE DEF schemas
<1>5. PICK run : IsRun(run, e, g, roots)
  BY <1>1, RunExists
<1>6. run[0] = Started(e, g, roots) /\ IsPartway(d, e, schemas, {}, run[0])
  BY <1>3, <1>5, StartedIsPartway DEF IsRun
<1>7. IsPartway(d, e, schemas, done, run[N])
  BY <1>1, <1>3, <1>5, <1>6, PartwayThrough
<1>8. run[N].schemaOf = run[0].schemaOf
  <2>1. IsCarried(d, e, {}, run[0])
    BY <1>6 DEF IsPartway
  <2> HIDE DEF roots, N
  <2> QED BY <1>1, <1>5, <2>1, CarriedThrough DEF N
<1>9. roots \subseteq done
  BY <1>1, DoneIs
<1>10. \A f : f \notin done => /\ f \in FormulaCells(d) <=> f \in FormulaCells(e)
                               /\ f \in FormulaCells(d) => Formula(d, f) = Formula(e, f)
  BY <1>9, OffRoots
<1> HIDE DEF done
<1>11. FormulasIn(d, e, done) = FormulaCells(e) /\ \A f \in FormulaCells(e) : FormulaIn(d, e, done, f) = Formula(e, f)
  BY <1>10 DEF FormulasIn, FormulaIn
<1> DEFINE h == RefreshColumnSlots(run[N], e, TrackedColumns(run[N], schemas))
           stay == Leave(h.schemaOf, RootRows(roots) \ DOMAIN e.entities)
<1>12. /\ IsGraph(h) /\ h.schemaOf = run[N].schemaOf
       /\ h.references = NewGraph(e).references /\ h.columns = NewGraph(e).columns
       /\ h.slots = NewGraph(e).slots /\ h.slotColumn = NewGraph(e).slotColumn
  BY <1>3, <1>7, <1>11, RefreshedIsNew
<1>13. UpdatedGraph(e, g, roots) = [h EXCEPT !.schemaOf = stay]
  BY <1>5 DEF IsRun, Finished, schemas
<1> HIDE DEF h
<1>14. stay = NewGraph(e).schemaOf
  <2> DEFINE rows == [r \in RootRows(roots) \intersect DOMAIN e.entities |-> e.entities[r].schema]
             before == [r \in DOMAIN d.entities |-> d.entities[r].schema]
             after == [r \in DOMAIN e.entities |-> e.entities[r].schema]
             over == Over(rows, before)
  <2>1. g.schemaOf = before /\ NewGraph(e).schemaOf = after
    BY NewGraphIs
  <2>2. h.schemaOf = over
    <3>1. run[0] = [g EXCEPT !.schemaOf = Over(rows, g.schemaOf)]
      BY <1>6 DEF Started
    <3>2. IsGraph(run[0])
      BY <1>6 DEF IsPartway, IsCarried
    <3>3. run[0].schemaOf = Over(rows, g.schemaOf)
      <4>1. "schemaOf" \in DOMAIN g
        BY NewGraphIs
      <4> HIDE DEF rows, g
      <4> QED BY <3>1, <4>1
    <3> QED BY <1>8, <1>12, <2>1, <3>3
  <2>3. /\ IsMap(rows) /\ DOMAIN rows = RootRows(roots) \intersect DOMAIN e.entities
        /\ \A r \in DOMAIN rows : rows[r] = e.entities[r].schema
        /\ IsMap(before) /\ DOMAIN before = DOMAIN d.entities
        /\ \A r \in DOMAIN before : before[r] = d.entities[r].schema
        /\ IsMap(after) /\ DOMAIN after = DOMAIN e.entities
        /\ \A r \in DOMAIN after : after[r] = e.entities[r].schema
    BY DEF IsMap
  <2> HIDE DEF rows, before, after
  <2>4. /\ IsMap(over) /\ DOMAIN over = (DOMAIN rows) \union DOMAIN before
        /\ \A r \in DOMAIN rows : over[r] = rows[r]
        /\ \A r \in (DOMAIN before) \ DOMAIN rows : over[r] = before[r]
    <3>1. IsMap(rows) /\ IsMap(before)
      BY <2>3
    <3> QED BY <3>1, OverIs
  <2> HIDE DEF over
  <2>5. /\ IsMap(stay) /\ DOMAIN stay = (DOMAIN over) \ (RootRows(roots) \ DOMAIN e.entities)
        /\ \A r \in DOMAIN stay : stay[r] = over[r]
    BY <2>2 DEF Leave, Restrict, IsMap
  <2> HIDE DEF stay
  <2>6. DOMAIN stay = DOMAIN after
    BY <1>4, <2>3, <2>4, <2>5
  <2>7. \A r \in DOMAIN stay : stay[r] = after[r]
    BY <1>4, <2>3, <2>4, <2>5, <2>6
  <2>8. stay = after
    BY <2>3, <2>5, <2>6, <2>7, MapsEqual
  <2> QED BY <2>1, <2>8
<1> HIDE DEF stay
<1>15. UpdatedGraph(e, g, roots) = [references |-> NewGraph(e).references, columns |-> NewGraph(e).columns,
          slots |-> NewGraph(e).slots, slotColumn |-> NewGraph(e).slotColumn, schemaOf |-> NewGraph(e).schemaOf]
  <2>1. h = [references |-> h.references, columns |-> h.columns, slots |-> h.slots,
             slotColumn |-> h.slotColumn, schemaOf |-> h.schemaOf]
    BY <1>12 DEF IsGraph
  <2> QED BY <1>12, <1>13, <1>14, <2>1
<1>16. NewGraph(e) = [references |-> NewGraph(e).references, columns |-> NewGraph(e).columns,
          slots |-> NewGraph(e).slots, slotColumn |-> NewGraph(e).slotColumn, schemaOf |-> NewGraph(e).schemaOf]
  BY NewGraphIs
<1> QED BY <1>15, <1>16

-----------------------------------------------------------------------------
(* The session.                                                            *)

\* Without roots the new document has the graph of the old.
LEMMA SameGraph ==
  ASSUME NEW d, NEW e, IsInMemory(d), IsInMemory(e), Covers(d, e), CalculationRoots(d, e) = {}
  PROVE  RootsOf(d, e) = {} /\ NewGraph(d) = NewGraph(e)
<1>1. RootsOf(d, e) = {} /\ Moving(d, e) = {}
  BY DEF RootsOf, WithColumnTotalRoots, Moving, TrackedColumns
<1>2. \A f : /\ f \in FormulaCells(d) <=> f \in FormulaCells(e)
             /\ f \in FormulaCells(d) => Formula(d, f) = Formula(e, f)
  BY <1>1, OffRoots
<1>3. FormulaCells(d) = FormulaCells(e)
  BY <1>2
<1>4. ReadColumns(d) = ReadColumns(e)
  <2>1. {Formula(d, f).columns : f \in FormulaCells(d)} = {Formula(e, f).columns : f \in FormulaCells(e)}
    BY <1>2
  <2> QED BY <2>1 DEF ReadColumns
<1>5. \A k : Slots(d, k) = Slots(e, k)
  BY <1>1, SlotsSame
<1>6. ReadSlots(d) = ReadSlots(e)
  <2>1. {Slots(d, k) : k \in ReadColumns(d)} = {Slots(e, k) : k \in ReadColumns(e)}
    BY <1>4, <1>5
  <2> QED BY <2>1 DEF ReadSlots
<1>7. \A r : /\ r \in DOMAIN d.entities <=> r \in DOMAIN e.entities
             /\ r \in DOMAIN d.entities => d.entities[r].schema = e.entities[r].schema
  BY ResettledMove, UnmovedIs
<1>8. \A c \in ReadSlots(d) : ColumnOf(d, c) = ColumnOf(e, c)
  <2> SUFFICES ASSUME NEW c \in ReadSlots(d) PROVE ColumnOf(d, c) = ColumnOf(e, c)
    OBVIOUS
  <2>1. c[1] \in DOMAIN d.entities
    BY SlotIs DEF ReadSlots
  <2> QED BY <1>7, <2>1 DEF ColumnOf
<1>9. /\ [f \in FormulaCells(d) |-> DirectReferences(Formula(d, f))] = [f \in FormulaCells(e) |-> DirectReferences(Formula(e, f))]
      /\ [f \in FormulaCells(d) |-> Formula(d, f).columns] = [f \in FormulaCells(e) |-> Formula(e, f).columns]
  BY <1>2, <1>3
<1>10. [k \in ReadColumns(d) |-> Slots(d, k)] = [k \in ReadColumns(e) |-> Slots(e, k)]
  BY <1>4, <1>5
<1>11. [c \in ReadSlots(d) |-> ColumnOf(d, c)] = [c \in ReadSlots(e) |-> ColumnOf(e, c)]
  BY <1>6, <1>8
<1>12. [r \in DOMAIN d.entities |-> d.entities[r].schema] = [r \in DOMAIN e.entities |-> e.entities[r].schema]
  BY <1>7
<1> QED BY <1>1, <1>9, <1>10, <1>11, <1>12, NewGraphIs

\* What an update leaves is what a calculation from nothing gives.
LEMMA UpdatedIsRebuilt ==
  ASSUME NEW d, NEW e, IsInMemory(d), IsInMemory(e), Covers(d, e)
  PROVE  Updated(e, Rebuilt(d), CalculationRoots(d, e)).state = Rebuilt(e)
<1> DEFINE s == Rebuilt(d)
           changed == CalculationRoots(d, e)
           roots == RootsOf(d, e)
           dirty == DirtyOf(d, e)
<1>1. IsCalculation(d, s) /\ IsCalculation(e, Rebuilt(e))
  BY RebuiltIsCalculation
<1>2. s.graph = NewGraph(d)
  BY <1>1 DEF IsCalculation
<1>3. CASE changed = {}
  <2>1. Updated(e, s, changed).state = s
    BY <1>3 DEF Updated
  <2>2. roots = {} /\ NewGraph(d) = NewGraph(e)
    BY <1>3, SameGraph
  <2>3. IsUpdate(d, e, {})
    BY <2>2 DEF IsUpdate, IsClosed
  <2>4. IsKept(e, s, {})
    BY <1>1, <2>3, RightOffDirty
  <2>5. Covering(e, s)
    BY <1>1, <2>4 DEF IsCalculation, Covering, IsKept
  <2>6. IsCalculation(e, s)
    BY <1>1, <2>2, <2>4, <2>5 DEF IsCalculation, IsKept
  <2> QED BY <1>1, <2>1, <2>6, CalculationIsUnique
<1>4. CASE changed # {}
  <2>1. WithColumnTotalRoots(e, s.graph, changed) = roots
    BY <1>2 DEF RootsOf
  <2>2. UpdatedGraph(e, s.graph, roots) = NewGraph(e)
    BY <1>2, UpdatedGraphIsNew
  <2>3. Updated(e, s, changed) = UpdatedThrough(e, s, NewGraph(e), roots)
    BY <1>4, <2>1, <2>2 DEF Updated
  <2>4. dirty = roots \union (ReverseClosure(s.graph, roots) \union ReverseClosure(NewGraph(e), roots))
    BY <1>2 DEF DirtyOf
  <2> HIDE DEF s, changed, roots, dirty
  <2>5. UpdatedThrough(e, s, NewGraph(e), roots).state = Recomputed(e, NewGraph(e), s, dirty)
    BY <2>4 DEF UpdatedThrough, Named
  <2>6. IsUpdate(d, e, dirty)
    BY DirtyIsClosed DEF IsUpdate, dirty, DirtyOf
  <2>7. IsCalculation(e, Recomputed(e, NewGraph(e), s, dirty))
    BY <1>1, <2>6, UpdateIsCalculation
  <2> QED BY <1>1, <2>3, <2>5, <2>7, CalculationIsUnique DEF s, changed
<1> QED BY <1>3, <1>4

LEMMA NewDependenciesAre ==
  ASSUME NEW d
  PROVE  Dependencies(NewGraph(d)) = [f \in FormulaCells(d) |-> ExtractDependencies(d, Formula(d, f))]
<1>1. DOMAIN NewGraph(d).references = FormulaCells(d)
  BY NewGraphIs
<1>2. \A f \in FormulaCells(d) : DependenciesOf(NewGraph(d), f) = ExtractDependencies(d, Formula(d, f))
  BY NewDependencies DEF Deps
<1> QED BY <1>1, <1>2 DEF Dependencies

\* Where no key, table or set of subjects changed the index is as it was.
LEMMA IndexSame ==
  ASSUME NEW d, NEW e, ~AddressesChanged(d, e)
  PROVE  AddressIndex(d) = AddressIndex(e)
<1>1. Resettled(d, e) = {} /\ \A r \in DOMAIN d.entities \intersect DOMAIN e.entities : d.entities[r].key = e.entities[r].key
  BY DEF AddressesChanged, Readdressed
<1>2. \A r : /\ r \in DOMAIN d.entities <=> r \in DOMAIN e.entities
             /\ r \in DOMAIN d.entities => d.entities[r].key = e.entities[r].key
  BY <1>1, UnmovedIs
<1>3. DOMAIN d.entities = DOMAIN e.entities
  BY <1>2
<1>4. DOMAIN d.schemas = DOMAIN e.schemas /\ \A s \in DOMAIN d.schemas : d.schemas[s].key = e.schemas[s].key
  <2>1. [s \in DOMAIN d.schemas |-> d.schemas[s].key] = [s \in DOMAIN e.schemas |-> e.schemas[s].key]
    BY DEF AddressesChanged, Keys
  <2> QED BY <2>1
<1>5. ASSUME NEW s \in DOMAIN d.schemas
      PROVE  /\ DOMAIN d.schemas[s].fields = DOMAIN e.schemas[s].fields
             /\ \A p \in DOMAIN d.schemas[s].fields : d.schemas[s].fields[p].key = e.schemas[s].fields[p].key
  <2> SUFFICES ASSUME NEW p
               PROVE  /\ p \in DOMAIN d.schemas[s].fields <=> p \in DOMAIN e.schemas[s].fields
                      /\ p \in DOMAIN d.schemas[s].fields => d.schemas[s].fields[p].key = e.schemas[s].fields[p].key
    OBVIOUS
  <2> DEFINE c == <<s, p>>
  <2>1. ASSUME NEW doc, s \in DOMAIN doc.schemas
        PROVE  /\ \A f : f \in DefinitionsOf(doc, c) <=> p \in DOMAIN doc.schemas[s].fields /\ f = doc.schemas[s].fields[p]
               /\ p \in DOMAIN doc.schemas[s].fields => c \in Columns(doc)
    <3>1. Entry(doc.schemas, s) = {doc.schemas[s]}
      BY <2>1 DEF Entry
    <3>2. DefinitionsOf(doc, c) = Entry(doc.schemas[s].fields, p)
      BY <3>1 DEF DefinitionsOf
    <3>3. \A f : f \in Entry(doc.schemas[s].fields, p) <=> p \in DOMAIN doc.schemas[s].fields /\ f = doc.schemas[s].fields[p]
      BY DEF Entry
    <3>4. p \in DOMAIN doc.schemas[s].fields => c \in {s} \X DOMAIN doc.schemas[s].fields
      OBVIOUS
    <3> QED BY <2>1, <3>2, <3>3, <3>4 DEF Columns
  <2> HIDE DEF c
  <2>2. CASE c \in Redefined(d, e)
    <3>1. {f.key : f \in DefinitionsOf(d, c)} = {f.key : f \in DefinitionsOf(e, c)}
      BY <2>2 DEF AddressesChanged
    <3>2. /\ \A f \in DefinitionsOf(d, c) : \E h \in DefinitionsOf(e, c) : h.key = f.key
          /\ \A h \in DefinitionsOf(e, c) : \E f \in DefinitionsOf(d, c) : h.key = f.key
      BY <3>1
    <3>3. s \in DOMAIN e.schemas
      BY <1>4
    <3>4. \A f : f \in DefinitionsOf(d, c) <=> p \in DOMAIN d.schemas[s].fields /\ f = d.schemas[s].fields[p]
      BY <2>1
    <3>5. \A f : f \in DefinitionsOf(e, c) <=> p \in DOMAIN e.schemas[s].fields /\ f = e.schemas[s].fields[p]
      BY <2>1, <3>3
    <3>6. ASSUME p \in DOMAIN d.schemas[s].fields
          PROVE  p \in DOMAIN e.schemas[s].fields /\ d.schemas[s].fields[p].key = e.schemas[s].fields[p].key
      BY <3>2, <3>4, <3>5, <3>6
    <3>7. ASSUME p \in DOMAIN e.schemas[s].fields
          PROVE  p \in DOMAIN d.schemas[s].fields
      BY <3>2, <3>4, <3>5, <3>7
    <3> QED BY <3>6, <3>7
  <2>3. CASE c \in (Columns(d) \union Columns(e)) \ Redefined(d, e)
    <3>1. DefinitionsOf(d, c) = DefinitionsOf(e, c)
      BY <2>3 DEF Redefined
    <3> QED BY <1>4, <2>1, <3>1
  <2>4. CASE c \notin Columns(d) \union Columns(e)
    BY <1>4, <2>1, <2>4
  <2> QED BY <2>2, <2>3, <2>4
<1>6. Keys(d.schemas) = Keys(e.schemas) /\ Keys(d.entities) = Keys(e.entities)
      /\ \A s \in DOMAIN d.schemas : Keys(d.schemas[s].fields) = Keys(e.schemas[s].fields)
  BY <1>2, <1>3, <1>4, <1>5 DEF Keys
<1>7. ByKey(d.schemas) = ByKey(e.schemas)
  BY <1>4 DEF ByKey
<1>8. ByKey(d.entities) = ByKey(e.entities)
  BY <1>2, <1>3 DEF ByKey
<1>9. \A s \in DOMAIN d.schemas : ByKey(d.schemas[s].fields) = ByKey(e.schemas[s].fields)
  BY <1>5 DEF ByKey
<1>10. {<<s, ByKey(d.schemas[s].fields)>> : s \in DOMAIN d.schemas} = {<<s, ByKey(e.schemas[s].fields)>> : s \in DOMAIN e.schemas}
  BY <1>4, <1>9
<1>11. (\A s \in Range(d.schemas) : IsInjective(Keys(s.fields))) <=> (\A s \in Range(e.schemas) : IsInjective(Keys(s.fields)))
  BY <1>4, <1>6 DEF Range
<1> HIDE DEF Keys
<1> QED BY <1>6, <1>7, <1>8, <1>10, <1>11 DEF AddressIndex

\* What a session keeps is right of the document it has, as long as the roots covered.
SessionIsRight ==
  /\ IsInMemory(document)
  /\ covered => calculation = Rebuilt(document)
  /\ addresses = AddressIndex(document)

LEMMA RebuiltFromIs ==
  ASSUME NEW d, NEW s, NEW changed
  PROVE  RebuiltFrom(d, s, changed).state = Rebuilt(d)
BY DEF RebuiltFrom, Replaced

LEMMA PublishKeepsRight ==
  ASSUME SessionIsRight, NEW candidate, Publish(candidate)
  PROVE  SessionIsRight'
<1> DEFINE index == IF AddressesChanged(document, candidate) THEN AddressIndex(candidate) ELSE addresses
           transition == Transition(candidate, index, CalculationRoots(document, candidate))
<1>1. IsInMemory(candidate) /\ Install(candidate, index, transition)
  BY DEF Publish
<1>2. index = AddressIndex(candidate)
  BY IndexSame DEF SessionIsRight
<1>3. ASSUME covered, Covers(document, candidate)
      PROVE  transition.state = Rebuilt(candidate)
  <2>1. Updated(candidate, calculation, CalculationRoots(document, candidate)).state = Rebuilt(candidate)
    BY <1>1, <1>3, UpdatedIsRebuilt DEF SessionIsRight
  <2>2. RebuiltFrom(candidate, calculation, CalculationRoots(document, candidate)).state = Rebuilt(candidate)
    BY RebuiltFromIs
  <2> QED BY <2>1, <2>2 DEF Transition
<1> HIDE DEF index, transition
<1> QED BY <1>1, <1>2, <1>3 DEF Install, SessionIsRight

LEMMA SessionStaysRight == Spec => []SessionIsRight
<1>1. Init => SessionIsRight
  BY BasesAssumption DEF Init, SessionIsRight
<1>2. SessionIsRight /\ [Next]_vars => SessionIsRight'
  <2> SUFFICES ASSUME SessionIsRight, [Next]_vars PROVE SessionIsRight'
    OBVIOUS
  <2>1. CASE Next
    BY <2>1, PublishKeepsRight DEF Next
  <2>2. CASE UNCHANGED vars
    BY <2>2 DEF vars, SessionIsRight
  <2> QED BY <2>1, <2>2
<1> QED BY <1>1, <1>2, PTL DEF Spec

\* As long as the roots of every publication covered its change, the values,
\* the failures and the dependency graph a session carries from revision to
\* revision are what a calculation of its document from nothing gives, and each
\* formula depends on what extract_dependencies finds; the address index is
\* the document's always (ResidentDerivedState::update, publish_if_current).
THEOREM DerivedStateStaysRebuilt == Spec => []DerivedStateIsRebuilt
<1>1. SessionIsRight => DerivedStateIsRebuilt
  <2> SUFFICES ASSUME SessionIsRight PROVE DerivedStateIsRebuilt
    OBVIOUS
  <2>1. AddressesAreCurrent
    BY DEF AddressesAreCurrent, SessionIsRight
  <2>2. ASSUME covered
        PROVE  /\ calculation = Rebuilt(document)
               /\ Dependencies(calculation.graph) =
                    [f \in FormulaCells(document) |-> ExtractDependencies(document, Formula(document, f))]
    <3>1. calculation = Rebuilt(document) /\ IsInMemory(document)
      BY <2>2 DEF SessionIsRight
    <3>2. calculation.graph = NewGraph(document)
      BY <3>1, RebuiltIsCalculation DEF IsCalculation
    <3> QED BY <3>1, <3>2, NewDependenciesAre
  <2> QED BY <2>1, <2>2 DEF DerivedStateIsRebuilt, CalculationIsRebuilt
<1> QED BY <1>1, SessionStaysRight, PTL

\* As long as the roots of every publication covered its change, every number
\* and every formula of the document has a value or a failure, and not both:
\* no formula is left waiting for another (evaluate_remaining_formulas asserts
\* that "SCC condensation must be acyclic").
THEOREM NothingIsLeftUncalculated == Spec => [](covered => Covering(document, calculation))
<1>1. SessionIsRight => (covered => Covering(document, calculation))
  BY RebuiltIsCalculation DEF SessionIsRight, IsCalculation
<1> QED BY <1>1, SessionStaysRight, PTL

-----------------------------------------------------------------------------
(* What a publication names.                                               *)

\* Settling and the phases before it touch the dirty cells only, whatever the graph.
SettledOn(s, values, failures, formulas) ==
  /\ IsMap(s.values) /\ IsMap(s.failures)
  /\ Alike(s.values, values, {c \in (DOMAIN values) \union DOMAIN s.values : c \notin formulas})
  /\ Alike(s.failures, failures, {c \in (DOMAIN failures) \union DOMAIN s.failures : c \notin formulas})

LEMMA SettleTouches ==
  ASSUME NEW d, NEW g, NEW values, NEW failures, NEW formulas, NEW s, SettledOn(s, values, failures, formulas)
  PROVE  SettledOn(Settle(d, g, s, formulas), values, failures, formulas)
<1> DEFINE left == formulas \ (DOMAIN s.values \union DOMAIN s.failures)
           ready == {f \in left : DependenciesOf(g, f) \intersect left = {}}
           result == [f \in ready |-> Evaluate(d, s.values, s.failures, Formula(d, f))]
           good == {f \in ready : Kind(result[f]) = "number"}
           v == Restrict(result, good)
           w == Restrict(result, ready \ good)
           t == Settle(d, g, s, formulas)
<1>1. t = [values |-> Over(v, s.values), failures |-> Over(w, s.failures)]
  BY DEF Settle
<1>2. IsMap(v) /\ DOMAIN v \subseteq formulas /\ IsMap(w) /\ DOMAIN w \subseteq formulas
  BY DEF Restrict, IsMap
<1> HIDE DEF v, w, t, left, ready, result, good
<1>3. t.values = Over(v, s.values) /\ t.failures = Over(w, s.failures)
  BY <1>1
<1>4. IsMap(s.values) /\ IsMap(s.failures)
  BY DEF SettledOn
<1>5. /\ IsMap(t.values) /\ DOMAIN t.values = (DOMAIN v) \union DOMAIN s.values
      /\ \A k \in (DOMAIN s.values) \ DOMAIN v : t.values[k] = s.values[k]
  <2> DEFINE x == s.values
  <2>1. IsMap(v) /\ IsMap(x) /\ t.values = Over(v, x)
    BY <1>2, <1>3, <1>4
  <2> HIDE DEF x
  <2> DEFINE over == Over(v, x)
  <2>2. /\ IsMap(over) /\ DOMAIN over = (DOMAIN v) \union DOMAIN x
        /\ \A k \in (DOMAIN x) \ DOMAIN v : over[k] = x[k]
    <3>1. IsMap(v) /\ IsMap(x)
      BY <2>1
    <3> QED BY <3>1, OverIs
  <2>3. t.values = over
    BY <2>1
  <2> HIDE DEF over
  <2> QED BY <2>2, <2>3 DEF x
<1>6. /\ IsMap(t.failures) /\ DOMAIN t.failures = (DOMAIN w) \union DOMAIN s.failures
      /\ \A k \in (DOMAIN s.failures) \ DOMAIN w : t.failures[k] = s.failures[k]
  <2> DEFINE x == s.failures
  <2>1. IsMap(w) /\ IsMap(x) /\ t.failures = Over(w, x)
    BY <1>2, <1>3, <1>4
  <2> HIDE DEF x
  <2> DEFINE over == Over(w, x)
  <2>2. /\ IsMap(over) /\ DOMAIN over = (DOMAIN w) \union DOMAIN x
        /\ \A k \in (DOMAIN x) \ DOMAIN w : over[k] = x[k]
    <3>1. IsMap(w) /\ IsMap(x)
      BY <2>1
    <3> QED BY <3>1, OverIs
  <2>3. t.failures = over
    BY <2>1
  <2> HIDE DEF over
  <2> QED BY <2>2, <2>3 DEF x
<1>7. Alike(t.values, values, {c \in (DOMAIN values) \union DOMAIN t.values : c \notin formulas})
  <2>1. Alike(s.values, values, {c \in (DOMAIN values) \union DOMAIN s.values : c \notin formulas})
    BY DEF SettledOn
  <2> QED BY <1>2, <1>5, <2>1 DEF Alike
<1>8. Alike(t.failures, failures, {c \in (DOMAIN failures) \union DOMAIN t.failures : c \notin formulas})
  <2>1. Alike(s.failures, failures, {c \in (DOMAIN failures) \union DOMAIN s.failures : c \notin formulas})
    BY DEF SettledOn
  <2> QED BY <1>2, <1>6, <2>1 DEF Alike
<1>9. SettledOn(t, values, failures, formulas)
  BY <1>5, <1>6, <1>7, <1>8 DEF SettledOn
<1> QED BY <1>9 DEF t

LEMMA SettledTouches ==
  ASSUME NEW d, NEW g, NEW values, NEW failures, IsMap(values), IsMap(failures),
         NEW formulas, IsFiniteSet(formulas)
  PROVE  /\ Settled(d, g, values, failures, formulas).graph = g
         /\ SettledOn(Settled(d, g, values, failures, formulas), values, failures, formulas)
<1> DEFINE N == Cardinality(formulas)
           last == Settled(d, g, values, failures, formulas)
<1>1. N \in Nat
  BY FS_CardinalityType
<1>2. PICK run : /\ IsSettling(run, d, g, values, failures, formulas, N)
                 /\ last = [values |-> run[N].values, failures |-> run[N].failures, graph |-> g]
  BY <1>1, SettledIsSettling
<1> HIDE DEF N, last
<1> DEFINE S == {n \in 0 .. N : SettledOn(run[n], values, failures, formulas)}
<1>3. 0 \in S
  <2>1. run[0] = [values |-> values, failures |-> failures]
    BY <1>1, <1>2 DEF IsSettling
  <2> QED BY <1>1, <2>1 DEF SettledOn, Alike
<1>4. ASSUME NEW k \in 1 .. N, k - 1 \in S PROVE k \in S
  <2>1. run[k] = Settle(d, g, run[k - 1], formulas)
    BY <1>1, <1>2 DEF IsSettling
  <2> QED BY <1>1, <1>4, <2>1, SettleTouches
<1>5. N \in S
  <2> HIDE DEF S
  <2>1. 0 .. N \subseteq S
    BY <1>1, <1>3, <1>4, SegmentInduction
  <2> QED BY <1>1, <2>1
<1>6. SettledOn(run[N], values, failures, formulas)
  BY <1>5
<1>7. last.graph = g /\ last.values = run[N].values /\ last.failures = run[N].failures
  BY <1>2
<1>8. SettledOn(last, values, failures, formulas)
  BY <1>6, <1>7 DEF SettledOn
<1> QED BY <1>7, <1>8 DEF last

\* A state holds of a cell what another holds.
HoldsSame(s, t, c) ==
  /\ c \in DOMAIN s.values <=> c \in DOMAIN t.values
  /\ c \in DOMAIN s.values => s.values[c] = t.values[c]
  /\ c \in DOMAIN s.failures <=> c \in DOMAIN t.failures
  /\ c \in DOMAIN s.failures => s.failures[c] = t.failures[c]

LEMMA RecomputedTouches ==
  ASSUME NEW d, IsInMemory(d), NEW g, NEW kept, NEW dirty
  PROVE  /\ Recomputed(d, g, kept, dirty).graph = g
         /\ \A c : c \notin dirty => HoldsSame(kept, Recomputed(d, g, kept, dirty), c)
<1> DEFINE formulas == dirty \intersect FormulaCells(d)
           before == PregraphFailures(d, dirty \intersect CalculationCells(d))
           off == Leave(kept.failures, dirty)
           pregraph == Over(before, off)
           eligible == (dirty \intersect FormulaCells(d)) \ DOMAIN pregraph
           cycles == CycleFailures(g, eligible)
           failures == Over(cycles, pregraph)
           numbers == (dirty \intersect CalculationCells(d)) \ (formulas \union DOMAIN failures)
           fresh == [c \in numbers |-> Stored(d, c)]
           rest == Leave(kept.values, dirty)
           values == Over(fresh, rest)
           s == Settled(d, g, values, failures, formulas)
<1>1. Recomputed(d, g, kept, dirty) = s
  BY DEF Recomputed, AfterPregraph, Evaluated
<1>2. IsFiniteSet(formulas) /\ formulas \subseteq dirty
  BY CellsAreFinite, FS_Subset
<1>3. IsMap(before) /\ DOMAIN before \subseteq dirty
  BY DEF PregraphFailures, IsMap
<1>4. IsMap(cycles) /\ DOMAIN cycles \subseteq dirty
  BY DEF CycleFailures, IsMap
<1>5. IsMap(fresh) /\ DOMAIN fresh \subseteq dirty
  BY DEF IsMap
<1> HIDE DEF before, cycles, fresh, formulas, numbers
<1>6. /\ IsMap(off) /\ DOMAIN off = (DOMAIN kept.failures) \ dirty
      /\ \A c \in (DOMAIN kept.failures) \ dirty : off[c] = kept.failures[c]
  BY LeaveIs
<1>7. /\ IsMap(rest) /\ DOMAIN rest = (DOMAIN kept.values) \ dirty
      /\ \A c \in (DOMAIN kept.values) \ dirty : rest[c] = kept.values[c]
  BY LeaveIs
<1> HIDE DEF off, rest
<1>8. /\ IsMap(pregraph) /\ DOMAIN pregraph = (DOMAIN before) \union DOMAIN off
      /\ \A c \in (DOMAIN off) \ DOMAIN before : pregraph[c] = off[c]
  BY <1>3, <1>6, OverIs
<1> HIDE DEF pregraph
<1>9. /\ IsMap(failures) /\ DOMAIN failures = (DOMAIN cycles) \union DOMAIN pregraph
      /\ \A c \in (DOMAIN pregraph) \ DOMAIN cycles : failures[c] = pregraph[c]
  BY <1>4, <1>8, OverIs
<1>10. /\ IsMap(values) /\ DOMAIN values = (DOMAIN fresh) \union DOMAIN rest
       /\ \A c \in (DOMAIN rest) \ DOMAIN fresh : values[c] = rest[c]
  BY <1>5, <1>7, OverIs
<1> HIDE DEF failures, values
<1>11. s.graph = g /\ SettledOn(s, values, failures, formulas)
  BY <1>2, <1>9, <1>10, SettledTouches
<1> HIDE DEF s
<1>12. ASSUME NEW c, c \notin dirty
       PROVE  HoldsSame(kept, s, c)
  <2>1. c \in DOMAIN failures <=> c \in DOMAIN kept.failures
    BY <1>3, <1>4, <1>6, <1>8, <1>9, <1>12
  <2>2. c \in DOMAIN kept.failures => failures[c] = kept.failures[c]
    BY <1>3, <1>4, <1>6, <1>8, <1>9, <1>12
  <2>3. c \in DOMAIN values <=> c \in DOMAIN kept.values
    BY <1>5, <1>7, <1>10, <1>12
  <2>4. c \in DOMAIN kept.values => values[c] = kept.values[c]
    BY <1>5, <1>7, <1>10, <1>12
  <2>5. /\ c \in DOMAIN s.values <=> c \in DOMAIN values
        /\ c \in DOMAIN s.values => s.values[c] = values[c]
        /\ c \in DOMAIN s.failures <=> c \in DOMAIN failures
        /\ c \in DOMAIN s.failures => s.failures[c] = failures[c]
    BY <1>2, <1>11, <1>12 DEF SettledOn, Alike
  <2> QED BY <2>1, <2>2, <2>3, <2>4, <2>5 DEF HoldsSame
<1> QED BY <1>1, <1>11, <1>12

\* A graph has the formulas of a document, whatever else it holds.
HasFormulas(g, d) == IsGraph(g) /\ DOMAIN g.references = FormulaCells(d) /\ DOMAIN g.columns = FormulaCells(d)

LEMMA NewHasFormulas ==
  ASSUME NEW d
  PROVE  HasFormulas(NewGraph(d), d)
<1> DEFINE references == [f \in FormulaCells(d) |-> DirectReferences(Formula(d, f))]
           columns == [f \in FormulaCells(d) |-> Formula(d, f).columns]
           slots == [k \in ReadColumns(d) |-> Slots(d, k)]
           slotColumn == [slot \in ReadSlots(d) |-> ColumnOf(d, slot)]
           schemaOf == [e \in DOMAIN d.entities |-> d.entities[e].schema]
           g == NewGraph(d)
<1>1. g = [references |-> references, columns |-> columns, slots |-> slots, slotColumn |-> slotColumn,
           schemaOf |-> schemaOf]
  BY NewGraphIs
<1>2. /\ IsMap(references) /\ DOMAIN references = FormulaCells(d) /\ IsMap(columns) /\ DOMAIN columns = FormulaCells(d)
      /\ IsMap(slots) /\ IsMap(slotColumn) /\ IsMap(schemaOf)
  BY DEF IsMap
<1> HIDE DEF references, columns, slots, slotColumn, schemaOf, g
<1>3. HasFormulas(g, d)
  BY <1>1, <1>2 DEF HasFormulas, IsGraph
<1> QED BY <1>3 DEF g

LEMMA ReSchemaed ==
  ASSUME NEW g, NEW d, HasFormulas(g, d), NEW m, IsMap(m)
  PROVE  HasFormulas([g EXCEPT !.schemaOf = m], d)
<1> DEFINE h == [g EXCEPT !.schemaOf = m]
<1>1. g = [references |-> g.references, columns |-> g.columns, slots |-> g.slots,
           slotColumn |-> g.slotColumn, schemaOf |-> g.schemaOf]
  BY DEF HasFormulas, IsGraph
<1>2. h = [references |-> g.references, columns |-> g.columns, slots |-> g.slots,
           slotColumn |-> g.slotColumn, schemaOf |-> m]
  BY <1>1
<1> HIDE DEF h
<1>3. HasFormulas(h, d)
  BY <1>2 DEF HasFormulas, IsGraph
<1> QED BY <1>3 DEF h

LEMMA RefreshedHasFormulas ==
  ASSUME NEW g, NEW d, HasFormulas(g, d), NEW e, NEW columns
  PROVE  HasFormulas(RefreshColumnSlots(g, e, columns), d)
<1> DEFINE h == ClearSlots(g, columns)
           read == {c \in columns : ColumnReaders(g, c) # {}}
<1>1. IsCleared(g, columns, h)
  BY ClearIs DEF HasFormulas
<1>2. IsGraph(h) /\ h.references = g.references /\ h.columns = g.columns
  BY <1>1 DEF IsCleared
<1>3. RefreshColumnSlots(g, e, columns) = EnsureColumnSlots(h, e, read)
  BY DEF RefreshColumnSlots
<1> HIDE DEF h, read
<1>4. IsEnsured(h, e, read, EnsureColumnSlots(h, e, read))
  BY <1>2, EnsureIs
<1> QED BY <1>2, <1>3, <1>4 DEF IsEnsured, HasFormulas

\* Whether or not the roots cover the change, an update's graph has the new
\* document's formulas.
LEMMA UpdatedHasFormulas ==
  ASSUME NEW d, NEW e, IsInMemory(d), IsInMemory(e), NEW g, HasFormulas(g, d)
  PROVE  HasFormulas(UpdatedGraph(e, g, WithColumnTotalRoots(e, g, CalculationRoots(d, e))), e)
<1> DEFINE roots == WithColumnTotalRoots(e, g, CalculationRoots(d, e))
           N == Cardinality(roots)
           done == DoneBy(roots, N)
           rows == [r \in RootRows(roots) \intersect DOMAIN e.entities |-> e.entities[r].schema]
<1>1. CalculationRoots(d, e) \subseteq roots /\ IsFiniteSet(roots) /\ roots \subseteq Nat \X Nat
  BY RootsAreCells DEF HasFormulas
<1> HIDE DEF roots
<1>2. PICK run : IsRun(run, e, g, roots)
  BY <1>1, RunExists
<1>3. HasFormulas(run[0], d)
  <2>1. IsMap(rows)
    BY DEF IsMap
  <2>2. run[0] = [g EXCEPT !.schemaOf = Over(rows, g.schemaOf)]
    BY <1>2 DEF IsRun, Started
  <2> HIDE DEF rows
  <2>3. IsMap(Over(rows, g.schemaOf))
    BY <2>1, OverIs DEF HasFormulas, IsGraph
  <2>4. HasFormulas([g EXCEPT !.schemaOf = Over(rows, g.schemaOf)], d)
    BY <2>3, ReSchemaed
  <2> QED BY <2>2, <2>4
<1>4. IsCarried(d, e, {}, run[0])
  BY <1>3 DEF HasFormulas, IsCarried, FormulasIn
<1>5. IsCarried(d, e, done, run[N])
  BY <1>1, <1>2, <1>4, CarriedThrough
<1>6. roots \subseteq done
  BY <1>1, DoneIs
<1>7. StoredChanges(d, e) \subseteq done
  BY <1>1, <1>6 DEF CalculationRoots
<1> HIDE DEF done, N
<1>8. FormulasIn(d, e, done) = FormulaCells(e)
  <2>1. ASSUME NEW f, f \notin done
        PROVE  f \in FormulaCells(d) <=> f \in FormulaCells(e)
    BY <1>7, <2>1, UnchangedIs DEF FormulaCells
  <2> QED BY <2>1 DEF FormulasIn
<1>9. HasFormulas(run[N], e)
  BY <1>5, <1>8 DEF IsCarried, HasFormulas
<1> DEFINE columns == TrackedColumns(run[N], SchemasAt(e, g, roots))
           h == RefreshColumnSlots(run[N], e, columns)
           gone == RootRows(roots) \ DOMAIN e.entities
<1>10. HasFormulas(h, e)
  <2> HIDE DEF columns
  <2> QED BY <1>9, RefreshedHasFormulas
<1>11. UpdatedGraph(e, g, roots) = [h EXCEPT !.schemaOf = Leave(h.schemaOf, gone)]
  BY <1>2 DEF IsRun, Finished, N
<1> HIDE DEF h, gone
<1>12. IsMap(Leave(h.schemaOf, gone))
  BY LeaveIs
<1>13. HasFormulas([h EXCEPT !.schemaOf = Leave(h.schemaOf, gone)], e)
  BY <1>10, <1>12, ReSchemaed
<1> QED BY <1>11, <1>13 DEF roots

\* What a cell shows of its place and of what it stores stands wherever neither is named.
LEMMA AddressStands ==
  ASSUME NEW d, NEW e, NEW c, c \in Cells(d), c \in Cells(e), c \notin ChangedFields(d, e)
  PROVE  /\ Stored(d, c) = Stored(e, c)
         /\ d.entities[c[1]].key = e.entities[c[1]].key
         /\ Declaration(d, c) = Declaration(e, c)
<1>1. Stored(d, c) = Stored(e, c)
  BY UnchangedIs DEF ChangedFields
<1>2. /\ c = <<c[1], c[2]>> /\ c[1] \in DOMAIN d.entities /\ c[1] \in DOMAIN e.entities
      /\ c[2] \in DOMAIN d.entities[c[1]].fields
  BY CellIs
<1>3. c \in {c[1]} \X RowFields(d, e, c[1])
  <2>1. Entry(d.entities, c[1]) = {d.entities[c[1]]}
    BY <1>2 DEF Entry
  <2>2. c[2] \in RowFields(d, e, c[1])
    BY <1>2, <2>1 DEF RowFields
  <2> QED BY <1>2, <2>2
<1>4. c[1] \notin Readdressed(d, e)
  BY <1>3 DEF ChangedFields, RowsFields
<1>5. d.entities[c[1]].key = e.entities[c[1]].key /\ d.entities[c[1]].schema = e.entities[c[1]].schema
  BY <1>2, <1>4, UnmovedIs DEF Readdressed
<1> DEFINE k == ColumnOf(d, c)
<1>6. k = ColumnOf(e, c)
  BY <1>5 DEF ColumnOf
<1>7. c \in ColumnCells(d, k)
  <2>1. c \in Slots(d, k)
    BY <1>2, SlotIs DEF ColumnOf
  <2> QED BY <2>1 DEF ColumnCells
<1> HIDE DEF k
<1>8. k \notin Redefined(d, e)
  BY <1>7 DEF ChangedFields, StoredIn
<1>9. DefinitionsOf(d, k) = DefinitionsOf(e, k)
  <2>1. CASE k \in Columns(d) \union Columns(e)
    BY <1>8, <2>1 DEF Redefined
  <2>2. CASE k \notin Columns(d) \union Columns(e)
    <3>1. k = <<k[1], k[2]>>
      BY DEF k, ColumnOf
    <3>2. ASSUME NEW doc, k \notin Columns(doc) PROVE DefinitionsOf(doc, k) = {}
      <4>1. ASSUME k[1] \in DOMAIN doc.schemas, k[2] \in DOMAIN doc.schemas[k[1]].fields PROVE FALSE
        <5>1. k \in {k[1]} \X DOMAIN doc.schemas[k[1]].fields
          BY <3>1, <4>1
        <5> QED BY <3>2, <4>1, <5>1 DEF Columns
      <4>2. \A s \in Entry(doc.schemas, k[1]) : Entry(s.fields, k[2]) = {}
        BY <4>1 DEF Entry
      <4> QED BY <4>2 DEF DefinitionsOf
    <3>3. DefinitionsOf(d, k) = {} /\ DefinitionsOf(e, k) = {}
      BY <2>2, <3>2
    <3> QED BY <3>3
  <2> QED BY <2>1, <2>2
<1>10. Declaration(d, c) = DefinitionsOf(d, k) /\ Declaration(e, c) = DefinitionsOf(e, k)
  BY <1>2, <1>6, DeclarationIs DEF k
<1> QED BY <1>1, <1>5, <1>9, <1>10

\* An update or a calculation anew has the new document's formulas, and shows
\* of a formula that it does not name what was shown.
ShowsAll(s, e, transition) ==
  /\ HasFormulas(transition.state.graph, e)
  /\ \A f \in (DOMAIN s.graph.references) \intersect FormulaCells(e) :
       f \notin transition.named => NodeProjection(s, f) = NodeProjection(transition.state, f)

LEMMA RebuiltShowsAll ==
  ASSUME NEW e, IsInMemory(e), NEW s, NEW changed
  PROVE  ShowsAll(s, e, RebuiltFrom(e, s, changed))
<1> DEFINE t == Rebuilt(e)
           formulas == (DOMAIN s.graph.references) \union DOMAIN t.graph.references
           shown == {f \in formulas : NodeProjection(s, f) # NodeProjection(t, f)}
           found == ReverseClosure(s.graph, changed) \union ReverseClosure(t.graph, changed)
           r == RebuiltFrom(e, s, changed)
<1>1. r = [state |-> t, named |-> found \union shown]
  BY DEF RebuiltFrom, Replaced
<1>2. t.graph = NewGraph(e)
  BY RebuiltIsCalculation DEF IsCalculation
<1>3. HasFormulas(t.graph, e)
  BY <1>2, NewHasFormulas
<1>4. \A f \in DOMAIN s.graph.references : f \notin shown => NodeProjection(s, f) = NodeProjection(t, f)
  OBVIOUS
<1> HIDE DEF t, shown, found, r
<1>5. r.state = t /\ r.named = found \union shown
  BY <1>1
<1>6. ShowsAll(s, e, r)
  BY <1>3, <1>4, <1>5 DEF ShowsAll
<1> QED BY <1>6 DEF r

LEMMA HeldIsShown ==
  ASSUME NEW s, NEW t, NEW f, HoldsSame(s, t, f), s.failures = <<>> <=> t.failures = <<>>
  PROVE  NodeProjection(s, f) = NodeProjection(t, f)
<1>1. Entry(s.values, f) = Entry(t.values, f)
  BY DEF HoldsSame, Entry
<1>2. Entry(s.failures, f) = Entry(t.failures, f)
  BY DEF HoldsSame, Entry
<1> QED BY <1>1, <1>2 DEF NodeProjection

LEMMA ThroughShowsAll ==
  ASSUME NEW e, IsInMemory(e), NEW s, NEW graph, HasFormulas(graph, e), NEW roots
  PROVE  ShowsAll(s, e, UpdatedThrough(e, s, graph, roots))
<1> DEFINE dirty == roots \union (ReverseClosure(s.graph, roots) \union ReverseClosure(graph, roots))
           t == Recomputed(e, graph, s, dirty)
           r == UpdatedThrough(e, s, graph, roots)
           others == dirty \ roots
           shown == ChangedProjections(s, t, dirty)
<1>1. r = [state |-> t, named |-> others \union shown]
  BY DEF UpdatedThrough, Named
<1> HIDE DEF dirty
<1>2. t.graph = graph /\ \A c : c \notin dirty => HoldsSame(s, t, c)
  BY RecomputedTouches
<1> HIDE DEF t, others
<1>3. ASSUME NEW f \in (DOMAIN s.graph.references) \intersect FormulaCells(e), f \notin shown
      PROVE  NodeProjection(s, f) = NodeProjection(t, f)
  <2>1. CASE (s.failures = <<>>) = (t.failures = <<>>)
    <3>1. CASE f \in dirty
      BY <1>3, <2>1, <3>1 DEF ChangedProjections
    <3>2. CASE f \notin dirty
      BY <1>2, <2>1, <3>2, HeldIsShown
    <3> QED BY <3>1, <3>2
  <2>2. CASE (s.failures = <<>>) # (t.failures = <<>>)
    <3>1. f \in shown
      BY <1>3, <2>2 DEF ChangedProjections
    <3> QED BY <1>3, <3>1
  <2> QED BY <2>1, <2>2
<1> HIDE DEF shown, r
<1>4. r.state = t /\ r.named = others \union shown
  BY <1>1
<1>5. ShowsAll(s, e, r)
  BY <1>2, <1>3, <1>4 DEF ShowsAll
<1> QED BY <1>5 DEF r

LEMMA UpdatedShowsAll ==
  ASSUME NEW d, NEW e, IsInMemory(d), IsInMemory(e), NEW s, HasFormulas(s.graph, d)
  PROVE  ShowsAll(s, e, Updated(e, s, CalculationRoots(d, e)))
<1> DEFINE changed == CalculationRoots(d, e)
           roots == WithColumnTotalRoots(e, s.graph, changed)
           graph == UpdatedGraph(e, s.graph, roots)
<1>1. CASE changed = {}
  <2>1. Updated(e, s, changed).state = s
    BY <1>1 DEF Updated
  <2>2. StoredChanges(d, e) = {}
    BY <1>1 DEF CalculationRoots
  <2>3. FormulaCells(d) = FormulaCells(e)
    <3>1. ASSUME NEW f PROVE f \in FormulaCells(d) <=> f \in FormulaCells(e)
      BY <2>2, UnchangedIs DEF FormulaCells
    <3> QED BY <3>1
  <2> HIDE DEF changed
  <2>4. ShowsAll(s, e, Updated(e, s, changed))
    BY <2>1, <2>3 DEF ShowsAll, HasFormulas
  <2> QED BY <2>4 DEF changed
<1>2. CASE changed # {}
  <2>1. HasFormulas(graph, e)
    BY UpdatedHasFormulas
  <2>2. Updated(e, s, changed) = UpdatedThrough(e, s, graph, roots)
    BY <1>2 DEF Updated
  <2> HIDE DEF graph, roots
  <2>3. ShowsAll(s, e, UpdatedThrough(e, s, graph, roots))
    BY <2>1, ThroughShowsAll
  <2> QED BY <2>2, <2>3
<1> QED BY <1>1, <1>2

\* A session keeps what its document's formulas are, whatever the roots cover.
SessionHasFormulas == IsInMemory(document) /\ HasFormulas(calculation.graph, document)

LEMMA PublicationShowsAll ==
  ASSUME SessionHasFormulas, NEW candidate, Publish(candidate)
  PROVE  \E transition :
           /\ document' = candidate /\ calculation' = transition.state /\ IsInMemory(candidate)
           /\ notice' = [fields |-> ChangedFields(document, candidate), calculations |-> transition.named]
           /\ ShowsAll(calculation, candidate, transition)
<1> DEFINE index == IF AddressesChanged(document, candidate) THEN AddressIndex(candidate) ELSE addresses
           roots == CalculationRoots(document, candidate)
           transition == Transition(candidate, index, roots)
<1>1. IsInMemory(candidate) /\ Install(candidate, index, transition)
  BY DEF Publish
<1>2. ShowsAll(calculation, candidate, Updated(candidate, calculation, roots))
  BY <1>1, UpdatedShowsAll DEF SessionHasFormulas
<1> HIDE DEF index, roots
<1>3. ShowsAll(calculation, candidate, RebuiltFrom(candidate, calculation, roots))
  BY <1>1, RebuiltShowsAll
<1>4. ShowsAll(calculation, candidate, transition)
  BY <1>2, <1>3 DEF Transition
<1> HIDE DEF transition
<1> QED BY <1>1, <1>4 DEF Install

LEMMA SessionKeepsFormulas == Spec => []SessionHasFormulas
<1>1. Init => SessionHasFormulas
  <2> SUFFICES ASSUME Init PROVE SessionHasFormulas
    OBVIOUS
  <2>1. IsInMemory(document) /\ calculation = Rebuilt(document)
    BY BasesAssumption DEF Init
  <2>2. calculation.graph = NewGraph(document)
    BY <2>1, RebuiltIsCalculation DEF IsCalculation
  <2> QED BY <2>1, <2>2, NewHasFormulas DEF SessionHasFormulas
<1>2. SessionHasFormulas /\ [Next]_vars => SessionHasFormulas'
  <2> SUFFICES ASSUME SessionHasFormulas, [Next]_vars PROVE SessionHasFormulas'
    OBVIOUS
  <2>1. ASSUME NEW candidate, Publish(candidate) PROVE SessionHasFormulas'
    BY <2>1, PublicationShowsAll DEF SessionHasFormulas, ShowsAll
  <2>2. CASE UNCHANGED vars
    BY <2>2 DEF vars, SessionHasFormulas
  <2> QED BY <2>1, <2>2 DEF Next
<1> QED BY <1>1, <1>2, PTL DEF Spec

\* A field that a client sees differently after a publication, in its address,
\* in what it stores or in what it comes to, is named by its invalidation, on
\* every path and whether or not the roots covered the change
\* (collect_entity_projection_changes, collect_schema_projection_changes,
\* RetainedCalculationState::update, projection_invalidation).
THEOREM EveryChangeStaysNamed == Spec => EveryChangeIsNamed
<1> DEFINE Same(c) ==
      c \notin notice'.fields \union notice'.calculations =>
        LET before == Projection(document, calculation, c)
            after == Projection(document', calculation', c)
        IN IF c \in FormulaCells(document) THEN before = after
           ELSE before.address = after.address /\ before.stored = after.stored
<1>1. SessionHasFormulas /\ [Next]_vars =>
        [\A c \in Cells(document) \intersect Cells(document') : Same(c)]_vars
  <2> SUFFICES ASSUME SessionHasFormulas, NEW candidate, Publish(candidate),
                      NEW c \in Cells(document) \intersect Cells(document'),
                      c \notin notice'.fields \union notice'.calculations
               PROVE  LET before == Projection(document, calculation, c)
                          after == Projection(document', calculation', c)
                      IN IF c \in FormulaCells(document) THEN before = after
                         ELSE before.address = after.address /\ before.stored = after.stored
    BY DEF Next
  <2>1. PICK transition :
          /\ document' = candidate /\ calculation' = transition.state
          /\ notice' = [fields |-> ChangedFields(document, candidate), calculations |-> transition.named]
          /\ ShowsAll(calculation, candidate, transition)
    BY PublicationShowsAll
  <2>2. c \notin ChangedFields(document, candidate) /\ c \notin transition.named
    BY <2>1
  <2>3. /\ Stored(document, c) = Stored(candidate, c)
        /\ document.entities[c[1]].key = candidate.entities[c[1]].key
        /\ Declaration(document, c) = Declaration(candidate, c)
    BY <2>1, <2>2, AddressStands
  <2> DEFINE before == Projection(document, calculation, c)
             after == Projection(candidate, transition.state, c)
  <2>4. before.address = after.address /\ before.stored = after.stored
    BY <2>3 DEF Projection
  <2>5. ASSUME c \in FormulaCells(document) PROVE before = after
    <3>1. c \in FormulaCells(candidate)
      BY <2>1, <2>3, <2>5 DEF FormulaCells
    <3>2. NodeProjection(calculation, c) = NodeProjection(transition.state, c)
      BY <2>1, <2>2, <2>5, <3>1 DEF ShowsAll, SessionHasFormulas, HasFormulas
    <3> QED BY <2>3, <3>2 DEF Projection
  <2> HIDE DEF before, after
  <2> QED BY <2>1, <2>4, <2>5 DEF before, after
<1> QED BY <1>1, SessionKeepsFormulas, PTL DEF Spec, EveryChangeIsNamed

-----------------------------------------------------------------------------
(* Scenarios.                                                              *)

\* The overrides that make one document of another.
AreOverrides(d, e, o) ==
  /\ DOMAIN o = {c \in Cells(d) \intersect Cells(e) : Stored(d, c) # Stored(e, c)} /\ DOMAIN o # {}
  /\ \A c \in DOMAIN o : /\ o[c] = Stored(e, c)[2]
                         /\ Kind(Stored(d, c)) = "number" /\ Kind(Stored(e, c)) = "number"
  /\ Cells(d) = Cells(e) /\ DOMAIN d.entities = DOMAIN e.entities
  /\ [d EXCEPT !.entities = <<>>] = [e EXCEPT !.entities = <<>>]
  /\ \A r \in DOMAIN d.entities : [d.entities[r] EXCEPT !.fields = <<>>] = [e.entities[r] EXCEPT !.fields = <<>>]

LEMMA RowIsOverridden ==
  ASSUME NEW x, IsEntity(x), NEW y, IsEntity(y), [x EXCEPT !.fields = <<>>] = [y EXCEPT !.fields = <<>>],
         NEW fields, fields = y.fields
  PROVE  [x EXCEPT !.fields = fields] = y
<1>1. x = [f \in {"key", "schema", "fields"} |-> x[f]] /\ y = [f \in {"key", "schema", "fields"} |-> y[f]]
  BY DEF IsEntity, IsRecord
<1> DEFINE a == [x EXCEPT !.fields = <<>>]
           b == [y EXCEPT !.fields = <<>>]
<1>2. a.key = x.key /\ a.schema = x.schema
  BY <1>1
<1>3. b.key = y.key /\ b.schema = y.schema
  BY <1>1
<1>4. a = b
  OBVIOUS
<1>5. x.key = y.key /\ x.schema = y.schema
  <2> HIDE DEF a, b
  <2> QED BY <1>2, <1>3, <1>4
<1> HIDE DEF a, b
<1> DEFINE z == [x EXCEPT !.fields = fields]
<1>6. z = [f \in {"key", "schema", "fields"} |-> IF f = "fields" THEN fields ELSE x[f]]
  BY <1>1
<1>7. \A f \in {"key", "schema", "fields"} : (IF f = "fields" THEN fields ELSE x[f]) = y[f]
  BY <1>5
<1>8. z = [f \in {"key", "schema", "fields"} |-> y[f]]
  BY <1>6, <1>7
<1> QED BY <1>1, <1>8

LEMMA DocumentIsOverridden ==
  ASSUME NEW x, IsDocument(x), NEW y, IsDocument(y), [x EXCEPT !.entities = <<>>] = [y EXCEPT !.entities = <<>>],
         NEW rows, rows = y.entities
  PROVE  [x EXCEPT !.entities = rows] = y
<1> DEFINE F == {"id", "title", "schemas", "entities", "definitions"}
<1>1. x = [f \in F |-> x[f]] /\ y = [f \in F |-> y[f]]
  BY DEF IsDocument, IsRecord
<1> DEFINE a == [x EXCEPT !.entities = <<>>]
           b == [y EXCEPT !.entities = <<>>]
<1>2. a.id = x.id /\ a.title = x.title /\ a.schemas = x.schemas /\ a.definitions = x.definitions
  BY <1>1
<1>3. b.id = y.id /\ b.title = y.title /\ b.schemas = y.schemas /\ b.definitions = y.definitions
  BY <1>1
<1>4. a = b
  OBVIOUS
<1>5. x.id = y.id /\ x.title = y.title /\ x.schemas = y.schemas /\ x.definitions = y.definitions
  <2> HIDE DEF a, b
  <2> QED BY <1>2, <1>3, <1>4
<1> HIDE DEF a, b
<1> DEFINE z == [x EXCEPT !.entities = rows]
<1>6. z = [f \in F |-> IF f = "entities" THEN rows ELSE x[f]]
  BY <1>1
<1>7. \A f \in F : (IF f = "entities" THEN rows ELSE x[f]) = y[f]
  BY <1>5
<1>8. z = [f \in F |-> y[f]]
  BY <1>6, <1>7
<1> QED BY <1>1, <1>8

LEMMA OverriddenIs ==
  ASSUME NEW d, NEW e, IsInMemory(d), IsInMemory(e), NEW o, AreOverrides(d, e, o)
  PROVE  Overridden(d, o) = e
<1> DEFINE value(r, f) == IF <<r, f>> \in DOMAIN o THEN NumberValue(o[<<r, f>>]) ELSE Stored(d, <<r, f>>)
           fields(r) == [f \in DOMAIN d.entities[r].fields |-> value(r, f)]
           row(r) == [d.entities[r] EXCEPT !.fields = fields(r)]
           rows == [r \in DOMAIN d.entities |-> row(r)]
<1>1. ASSUME NEW r \in DOMAIN d.entities
      PROVE  row(r) = e.entities[r]
  <2>1. r \in DOMAIN e.entities /\ IsEntity(d.entities[r]) /\ IsEntity(e.entities[r])
    BY DEF AreOverrides, IsInMemory, IsDocument
  <2>2. ASSUME NEW f
        PROVE  /\ f \in DOMAIN d.entities[r].fields <=> <<r, f>> \in Cells(d)
               /\ f \in DOMAIN e.entities[r].fields <=> <<r, f>> \in Cells(e)
    BY <2>1, CellIs
  <2>3. DOMAIN d.entities[r].fields = DOMAIN e.entities[r].fields
    BY <2>2 DEF AreOverrides
  <2>4. ASSUME NEW f \in DOMAIN d.entities[r].fields
        PROVE  value(r, f) = e.entities[r].fields[f]
    <3> DEFINE c == <<r, f>>
    <3>1. c \in Cells(d) /\ c \in Cells(e)
      BY <2>2 DEF AreOverrides
    <3>2. Stored(e, c) = e.entities[r].fields[f]
      BY DEF Stored
    <3>3. CASE c \in DOMAIN o
      <4>1. o[c] = Stored(e, c)[2] /\ Stored(e, c)[1] = "number"
        BY <3>3 DEF AreOverrides, Kind
      <4>2. Stored(e, c) = <<Stored(e, c)[1], Stored(e, c)[2]>>
        BY <3>1 DEF IsInMemory
      <4> QED BY <3>2, <3>3, <4>1, <4>2 DEF NumberValue
    <3>4. CASE c \notin DOMAIN o
      BY <3>1, <3>2, <3>4 DEF AreOverrides
    <3> QED BY <3>3, <3>4
  <2>5. e.entities[r].fields = [f \in DOMAIN e.entities[r].fields |-> e.entities[r].fields[f]]
    BY <2>1 DEF IsEntity, IsMap
  <2>6. fields(r) = e.entities[r].fields
    BY <2>3, <2>4, <2>5
  <2>7. [d.entities[r] EXCEPT !.fields = <<>>] = [e.entities[r] EXCEPT !.fields = <<>>]
    BY DEF AreOverrides
  <2> HIDE DEF fields
  <2> QED BY <2>1, <2>6, <2>7, RowIsOverridden
<1>2. rows = e.entities
  <2>1. e.entities = [r \in DOMAIN e.entities |-> e.entities[r]]
    BY DEF IsInMemory, IsDocument, IsMap
  <2> HIDE DEF row
  <2> QED BY <1>1, <2>1 DEF AreOverrides
<1>3. Overridden(d, o) = [d EXCEPT !.entities = rows]
  <2>1. \A m : m = [d EXCEPT !.entities = [r \in DOMAIN @ |-> row(r)]] => m = [d EXCEPT !.entities = rows]
    OBVIOUS
  <2> QED BY DEF Overridden
<1>4. IsDocument(d) /\ IsDocument(e) /\ [d EXCEPT !.entities = <<>>] = [e EXCEPT !.entities = <<>>]
  BY DEF IsInMemory, AreOverrides
<1> HIDE DEF rows
<1> QED BY <1>2, <1>3, <1>4, DocumentIsOverridden

\* Whoever may see the document may see everything.
LEMMA WholePermits ==
  ASSUME NEW required
  PROVE  Permits({WholeDocument}, required)
<1>1. \A i \in 1 .. 3 : WholeDocument[i] = {}
  BY DEF WholeDocument
<1>2. \A scope \in required : ScopeCovers(WholeDocument, scope)
  BY <1>1 DEF ScopeCovers
<1> QED BY <1>2 DEF Permits

LEMMA StoredAtIs ==
  ASSUME NEW d, NEW c, c \in Cells(d)
  PROVE  StoredAt(d, c) = {Stored(d, c)}
<1>1. c[1] \in DOMAIN d.entities /\ c[2] \in DOMAIN d.entities[c[1]].fields
  BY CellIs
<1>2. Entry(d.entities, c[1]) = {d.entities[c[1]]}
  BY <1>1 DEF Entry
<1>3. Entry(d.entities[c[1]].fields, c[2]) = {Stored(d, c)}
  BY <1>1 DEF Entry, Stored
<1> QED BY <1>2, <1>3 DEF StoredAt

\* What a scenario answers of admissible overrides to one who may see everything.
IsEvaluatedScenario(answer, d, after, targets) ==
  /\ answer[1] = "evaluated"
  /\ answer[2] \subseteq ScenarioImpact(d, after, Rebuilt(d), Rebuilt(after))
  /\ \A t \in targets : answer[3][t] = ScenarioTarget(d, Rebuilt(d), Rebuilt(after), {WholeDocument}, t)

LEMMA ScenarioIs ==
  ASSUME NEW d, NEW o, DOMAIN o # {}, DOMAIN o \subseteq Cells(d),
         \A c \in DOMAIN o : Kind(Stored(d, c)) = "number", NEW targets
  PROVE  IsEvaluatedScenario(Scenario(d, {WholeDocument}, o, targets), d, Overridden(d, o), targets)
<1> DEFINE after == Overridden(d, o)
           whole == {WholeDocument}
           baseline == Rebuilt(d)
           candidate == Rebuilt(after)
           impact == {i \in ScenarioImpact(d, after, baseline, candidate) :
                        Permits(whole, {FieldScope(d, c) : c \in i.changed \union i.affected})}
           outcomes == [t \in targets |-> ScenarioTarget(d, baseline, candidate, whole, t)]
           reports == <<ReportFor(d, whole), {Publishable(after) : report \in ReportFor(d, whole)}>>
           answer == Scenario(d, whole, o, targets)
<1>1. ScenarioAdmitted(d, whole, o, targets)
  <2>1. o # <<>>
    OBVIOUS
  <2>2. Permits(whole, {FieldScope(d, c) : c \in DOMAIN o})
    BY WholePermits
  <2> QED BY <2>1, <2>2 DEF ScenarioAdmitted
<1>2. OverrideFailures(d, o) = {}
  <2>1. \A c \in DOMAIN o : {Kind(v) : v \in StoredAt(d, c)} = {"number"}
    <3> SUFFICES ASSUME NEW c \in DOMAIN o PROVE {Kind(v) : v \in StoredAt(d, c)} = {"number"}
      OBVIOUS
    <3>1. StoredAt(d, c) = {Stored(d, c)}
      BY StoredAtIs
    <3> QED BY <3>1
  <2>2. {c \in DOMAIN o : {Kind(v) : v \in StoredAt(d, c)} # {"number"}} = {}
    BY <2>1
  <2> QED BY <2>2 DEF OverrideFailures
<1>3. answer = <<"evaluated", impact, outcomes, reports>>
  BY <1>1, <1>2 DEF Scenario
<1>4. impact \subseteq ScenarioImpact(d, after, baseline, candidate)
  OBVIOUS
<1>5. \A t \in targets : outcomes[t] = ScenarioTarget(d, baseline, candidate, whole, t)
  OBVIOUS
<1> HIDE DEF answer, impact, outcomes, reports
<1>6. answer[1] = "evaluated" /\ answer[2] = impact /\ answer[3] = outcomes
  BY <1>3
<1>7. IsEvaluatedScenario(answer, d, after, targets)
  BY <1>4, <1>5, <1>6 DEF IsEvaluatedScenario
<1> QED BY <1>7 DEF answer

\* What it tells of one formula.
LEMMA ScenarioTargetIs ==
  ASSUME NEW d, NEW baseline, NEW candidate, NEW t, t \in FormulaCells(d), Declaration(d, t) # {}
  PROVE  ScenarioTarget(d, baseline, candidate, {WholeDocument}, t)[2].candidate = NodeProjection(candidate, t)
<1> DEFINE stored == StoredAt(d, t)
           facts == [expression |-> stored,
                     inputs |-> DependenciesOf(baseline.graph, t),
                     dependents |-> DirectDependents(baseline.graph, t),
                     baseline |-> NodeProjection(baseline, t),
                     candidate |-> NodeProjection(candidate, t)]
           named == facts.inputs \union facts.dependents \union {t}
                      \union Evidence(facts.baseline) \union Evidence(facts.candidate)
           required == IF stored = {} THEN {WholeDocument}
                       ELSE IF t \in FormulaCells(d) THEN {FieldScope(d, c) : c \in named}
                       ELSE {FieldScope(d, t)}
           told == ScenarioTarget(d, baseline, candidate, {WholeDocument}, t)
<1>1. stored # {}
  BY StoredAtIs DEF FormulaCells
<1>2. Permits({WholeDocument}, required)
  <2> HIDE DEF required
  <2> QED BY WholePermits
<1>3. facts.candidate = NodeProjection(candidate, t)
  OBVIOUS
<1>4. told = <<"formula", facts>>
  BY <1>1, <1>2 DEF ScenarioTarget
<1> HIDE DEF facts, told
<1>5. told[2] = facts
  BY <1>4
<1> QED BY <1>3, <1>5 DEF told

\* The overrides a publication amounts to make its document.
LEMMA ReplacedNumbers ==
  ASSUME NEW o \in NumbersReplaced
  PROVE  AreOverrides(document, document', o)
<1> DEFINE cells == {c \in Cells(document) \intersect Cells(document') : Stored(document, c) # Stored(document', c)}
           replaced == /\ cells # {} /\ Cells(document) = Cells(document')
                       /\ DOMAIN document.entities = DOMAIN document'.entities
                       /\ \A c \in cells : Kind(Stored(document, c)) = "number" /\ Kind(Stored(document', c)) = "number"
                       /\ [document EXCEPT !.entities = <<>>] = [document' EXCEPT !.entities = <<>>]
                       /\ \A e \in DOMAIN document.entities :
                            [document.entities[e] EXCEPT !.fields = <<>>] = [document'.entities[e] EXCEPT !.fields = <<>>]
           overrides == [c \in cells |-> Stored(document', c)[2]]
<1>1. NumbersReplaced = {overrides : only \in {TRUE} \intersect {replaced}}
  BY DEF NumbersReplaced
<1> HIDE DEF replaced, overrides
<1>2. o = overrides /\ replaced
  BY <1>1, Zenon
<1>3. DOMAIN overrides = cells /\ \A c \in cells : overrides[c] = Stored(document', c)[2]
  BY DEF overrides
<1> QED BY <1>2, <1>3 DEF AreOverrides, replaced

\* What a publication of overrides shows is what the scenario told of them.
LEMMA ForetoldStep ==
  ASSUME SessionIsRight, SessionHasFormulas, NEW candidate, Publish(candidate), SessionIsRight',
         covered', NEW o \in NumbersReplaced, NEW targets,
         targets = {c \in FormulaCells(document) : Declaration(document, c) # {}},
         NEW answer, answer = Scenario(document, {WholeDocument}, o, targets)
  PROVE  /\ answer[1] = "evaluated"
         /\ \A t \in targets : answer[3][t][2].candidate = NodeProjection(calculation', t)
         /\ \A impact \in answer[2] :
              /\ impact.changed \subseteq notice'.fields \union notice'.calculations
              /\ impact.affected \subseteq notice'.calculations
<1>1. AreOverrides(document, document', o)
  BY ReplacedNumbers
<1>2. PICK transition :
        /\ document' = candidate /\ calculation' = transition.state /\ IsInMemory(candidate)
        /\ notice' = [fields |-> ChangedFields(document, candidate), calculations |-> transition.named]
        /\ ShowsAll(calculation, candidate, transition)
  BY PublicationShowsAll
<1>3. notice'.fields = ChangedFields(document, candidate) /\ notice'.calculations = transition.named
  BY <1>2
<1>4. covered
  BY DEF Publish, Install
<1>5. IsInMemory(document) /\ calculation = Rebuilt(document) /\ calculation' = Rebuilt(candidate)
  BY <1>2, <1>4 DEF SessionIsRight
<1>6. Overridden(document, o) = candidate
  BY <1>1, <1>2, <1>5, OverriddenIs
<1>7. IsEvaluatedScenario(answer, document, candidate, targets)
  BY <1>1, <1>6, ScenarioIs DEF AreOverrides
<1>8. ASSUME NEW t \in targets
      PROVE  answer[3][t][2].candidate = NodeProjection(calculation', t)
  <2>1. answer[3][t] = ScenarioTarget(document, Rebuilt(document), Rebuilt(candidate), {WholeDocument}, t)
    BY <1>7 DEF IsEvaluatedScenario
  <2> QED BY <1>5, <2>1, ScenarioTargetIs
<1>9. ASSUME NEW impact \in answer[2]
      PROVE  /\ impact.changed \subseteq notice'.fields \union notice'.calculations
             /\ impact.affected \subseteq notice'.calculations
  <2> DEFINE affected == {f \in FormulaCells(document) : Entry(calculation.values, f) # Entry(calculation'.values, f)}
             stored == {c \in Cells(document) : Stored(document, c) # Stored(candidate, c)}
  <2>1. impact \in ScenarioImpact(document, candidate, calculation, calculation')
    BY <1>5, <1>7 DEF IsEvaluatedScenario
  <2>2. /\ calculation.failures = <<>> /\ calculation'.failures = <<>>
        /\ impact = [changed |-> stored \union affected, affected |-> affected]
    BY <2>1 DEF ScenarioImpact
  <2>3. stored \subseteq notice'.fields
    <3>1. ASSUME NEW c \in stored PROVE c \in ChangedFields(document, candidate)
      BY UnchangedIs DEF ChangedFields
    <3> QED BY <1>3, <3>1
  <2>4. ASSUME NEW f \in affected
        PROVE  f \in notice'.calculations
    <3>1. f \in FormulaCells(candidate) \/ Stored(document, f) # Stored(candidate, f)
      BY <1>1, <1>2 DEF FormulaCells, AreOverrides
    <3>2. f \in FormulaCells(candidate)
      <4> SUFFICES ASSUME Stored(document, f) # Stored(candidate, f) PROVE FALSE
        BY <3>1
      <4>1. f \in DOMAIN o
        BY <1>1, <1>2 DEF AreOverrides, FormulaCells
      <4> QED BY <1>1, <4>1 DEF AreOverrides, FormulaCells
    <3>3. NodeProjection(calculation, f) # NodeProjection(calculation', f)
      BY <2>2 DEF NodeProjection
    <3> QED BY <1>2, <1>3, <3>2, <3>3 DEF ShowsAll, SessionHasFormulas, HasFormulas
  <2> HIDE DEF affected, stored
  <2>5. impact.changed = stored \union affected /\ impact.affected = affected
    BY <2>2
  <2> QED BY <2>3, <2>4, <2>5
<1> QED BY <1>7, <1>8, <1>9 DEF IsEvaluatedScenario

\* As long as the roots covered every change, a scenario asked by one who may
\* see the whole document tells what publishing its overrides then shows of
\* every formula, and tells no field changed or formula affected that the
\* publication's invalidation does not name (query_number_override_scenario,
\* ResidentDerivedState::update).
THEOREM ScenariosStayTrue == Spec => ScenariosForetellPublications
<1>1. SessionIsRight /\ SessionHasFormulas /\ SessionIsRight' /\ [Next]_vars => [ScenarioForetells]_vars
  <2> SUFFICES ASSUME SessionIsRight, SessionHasFormulas, SessionIsRight', NEW candidate, Publish(candidate)
               PROVE  ScenarioForetells
    BY DEF Next
  <2> SUFFICES ASSUME NEW o \in NumbersReplaced, covered'
               PROVE  LET targets == {c \in FormulaCells(document) : Declaration(document, c) # {}}
                          answer == Scenario(document, {WholeDocument}, o, targets)
                      IN /\ answer[1] = "evaluated"
                         /\ \A t \in targets : answer[3][t][2].candidate = NodeProjection(calculation', t)
                         /\ \A impact \in answer[2] :
                              /\ impact.changed \subseteq notice'.fields \union notice'.calculations
                              /\ impact.affected \subseteq notice'.calculations
    BY DEF ScenarioForetells
  <2> QED BY ForetoldStep
<1> QED BY <1>1, SessionStaysRight, SessionKeepsFormulas, PTL DEF Spec, ScenariosForetellPublications

-----------------------------------------------------------------------------
(* What a scope shows of two documents.                                    *)

\* A declared cell is in a row of a table with its field.
LEMMA DeclaredIs ==
  ASSUME NEW d, NEW c, Declaration(d, c) # {}
  PROVE  /\ c[1] \in DOMAIN d.entities
         /\ d.entities[c[1]].schema \in DOMAIN d.schemas
         /\ c[2] \in DOMAIN d.schemas[d.entities[c[1]].schema].fields
         /\ Declaration(d, c) = {d.schemas[d.entities[c[1]].schema].fields[c[2]]}
  BY DEF Declaration, Entry

\* The converse.
LEMMA IsDeclared ==
  ASSUME NEW d, NEW c, c[1] \in DOMAIN d.entities,
         NEW s, s = d.entities[c[1]].schema, s \in DOMAIN d.schemas, c[2] \in DOMAIN d.schemas[s].fields
  PROVE  Declaration(d, c) = {d.schemas[s].fields[c[2]]}
<1>1. Entry(d.entities, c[1]) = {d.entities[c[1]]} /\ Entry(d.schemas, s) = {d.schemas[s]}
      /\ Entry(d.schemas[s].fields, c[2]) = {d.schemas[s].fields[c[2]]}
  BY DEF Entry
<1>2. Declaration(d, c) =
        UNION {UNION {Entry(x.fields, c[2]) : x \in Entry(d.schemas, y.schema)} : y \in {d.entities[c[1]]}}
  BY <1>1 DEF Declaration
<1>3. Declaration(d, c) = UNION {Entry(x.fields, c[2]) : x \in {d.schemas[s]}}
  BY <1>1, <1>2
<1>4. UNION {Entry(x.fields, c[2]) : x \in {d.schemas[s]}} = Entry(d.schemas[s].fields, c[2])
  OBVIOUS
<1> QED BY <1>1, <1>3, <1>4

LEMMA TheIs ==
  ASSUME NEW x
  PROVE  The({x}) = x
  BY DEF The

\* What each scope shows.
LEMMA WholeShown ==
  ASSUME NEW d
  PROVE  Shown(d, WholeDocument) = {d}
  BY DEF Shown, WholeDocument

LEMMA TableIsShown ==
  ASSUME NEW d, NEW s
  PROVE  Shown(d, SchemaScope(s)) = TableShown(d, s)
<1>1. The({s}) = s
  BY TheIs
<1> QED BY <1>1 DEF Shown, SchemaScope

LEMMA RowIsShown ==
  ASSUME NEW d, NEW s, NEW r
  PROVE  Shown(d, <<{s}, {r}, {}>>) = RowShown(d, r)
<1> DEFINE scope == <<{s}, {r}, {}>>
<1>1. scope[2] = {r} /\ scope[3] = {}
  OBVIOUS
<1> HIDE DEF scope
<1>2. The(scope[2]) = r /\ scope[2] # {} /\ ~(scope[3] # {})
  BY <1>1, TheIs
<1>3. Shown(d, scope) = RowShown(d, r)
  BY <1>2 DEF Shown
<1> QED BY <1>3 DEF scope

LEMMA CellIsShown ==
  ASSUME NEW d, NEW s, NEW r, NEW f
  PROVE  Shown(d, <<{s}, {r}, {f}>>) = CellShown(d, <<r, f>>)
<1> DEFINE scope == <<{s}, {r}, {f}>>
<1>1. scope[2] = {r} /\ scope[3] = {f}
  OBVIOUS
<1> HIDE DEF scope
<1>2. The(scope[2]) = r /\ The(scope[3]) = f /\ scope[2] # {} /\ scope[3] # {}
  BY <1>1, TheIs
<1>3. Shown(d, scope) = CellShown(d, <<r, f>>)
  BY <1>2 DEF Shown
<1> QED BY <1>3 DEF scope

\* Documents of which a scope shows the same are alike under it.
LEMMA WholeTells ==
  ASSUME NEW d, NEW e, Shown(d, WholeDocument) = Shown(e, WholeDocument)
  PROVE  d = e
  BY WholeShown

SchemaAlike(d, e, s) ==
  /\ s \in DOMAIN d.schemas /\ s \in DOMAIN e.schemas /\ RowsOf(d, s) = RowsOf(e, s)
  /\ DOMAIN d.schemas[s].fields = DOMAIN e.schemas[s].fields
  /\ \A f \in DOMAIN d.schemas[s].fields : d.schemas[s].fields[f].type = e.schemas[s].fields[f].type

LEMMA SchemaTells ==
  ASSUME NEW d, NEW e, NEW s \in DOMAIN d.schemas, Shown(d, SchemaScope(s)) = Shown(e, SchemaScope(s))
  PROVE  SchemaAlike(d, e, s)
<1>1. TableShown(d, s) = TableShown(e, s)
  BY TableIsShown
<1>2. TableShown(d, s) = {<<RowsOf(d, s), Columnwise(d.schemas[s].fields)>>}
  BY DEF TableShown, Entry
<1>3. s \in DOMAIN e.schemas
  BY <1>1, <1>2 DEF TableShown, Entry
<1>4. TableShown(e, s) = {<<RowsOf(e, s), Columnwise(e.schemas[s].fields)>>}
  BY <1>3 DEF TableShown, Entry
<1>5. <<RowsOf(d, s), Columnwise(d.schemas[s].fields)>> = <<RowsOf(e, s), Columnwise(e.schemas[s].fields)>>
  BY <1>1, <1>2, <1>4
<1>6. RowsOf(d, s) = RowsOf(e, s) /\ Columnwise(d.schemas[s].fields) = Columnwise(e.schemas[s].fields)
  BY <1>5
<1> QED BY <1>3, <1>6 DEF SchemaAlike, Columnwise

RowAlike(d, e, r) ==
  /\ r \in DOMAIN d.entities /\ r \in DOMAIN e.entities
  /\ d.entities[r].schema = e.entities[r].schema
  /\ d.entities[r].schema \in DOMAIN d.schemas <=> d.entities[r].schema \in DOMAIN e.schemas

LEMMA RowTells ==
  ASSUME NEW d, NEW e, NEW r \in DOMAIN d.entities,
         Shown(d, EntityScope(d, r)) = Shown(e, EntityScope(d, r))
  PROVE  RowAlike(d, e, r)
<1>1. RowShown(d, r) = RowShown(e, r)
  BY RowIsShown DEF EntityScope
<1>2. RowShown(d, r) = {<<d.entities[r].schema, d.entities[r].schema \in DOMAIN d.schemas>>}
  BY DEF RowShown, Entry
<1>3. r \in DOMAIN e.entities
  BY <1>1, <1>2 DEF RowShown, Entry
<1>4. RowShown(e, r) = {<<e.entities[r].schema, e.entities[r].schema \in DOMAIN e.schemas>>}
  BY <1>3 DEF RowShown, Entry
<1>5. <<d.entities[r].schema, d.entities[r].schema \in DOMAIN d.schemas>>
        = <<e.entities[r].schema, e.entities[r].schema \in DOMAIN e.schemas>>
  BY <1>1, <1>2, <1>4
<1>6. /\ d.entities[r].schema = e.entities[r].schema
      /\ (d.entities[r].schema \in DOMAIN d.schemas) = (e.entities[r].schema \in DOMAIN e.schemas)
  BY <1>5
<1> QED BY <1>3, <1>6 DEF RowAlike

\* A cell that is declared in both, in the same table.
CellAlike(d, e, c) ==
  /\ Declaration(d, c) # {} /\ Declaration(e, c) # {}
  /\ d.entities[c[1]].schema = e.entities[c[1]].schema
  /\ StoredAt(d, c) = StoredAt(e, c)
  /\ Facets(Declaration(d, c)) = Facets(Declaration(e, c))

LEMMA FieldScopeIs ==
  ASSUME NEW d, NEW c, Declaration(d, c) # {}
  PROVE  FieldScope(d, c) = <<{d.entities[c[1]].schema}, {c[1]}, {c[2]}>> /\ FieldScope(d, c) # WholeDocument
  BY DEF FieldScope, WholeDocument

LEMMA FieldScopeTells ==
  ASSUME NEW d, NEW e, NEW c, NEW b, Declaration(d, c) # {}, FieldScope(d, c) = FieldScope(e, b)
  PROVE  /\ b[1] = c[1] /\ b[2] = c[2] /\ Declaration(e, b) # {} /\ Declaration(e, c) # {}
         /\ d.entities[c[1]].schema = e.entities[c[1]].schema
<1>1. Declaration(e, b) # {}
  BY FieldScopeIs DEF FieldScope
<1>2. /\ {d.entities[c[1]].schema} = {e.entities[b[1]].schema}
      /\ {c[1]} = {b[1]} /\ {c[2]} = {b[2]}
  BY <1>1, FieldScopeIs
<1>3. b[1] = c[1] /\ b[2] = c[2]
  BY <1>2
<1>4. Declaration(e, b) = Declaration(e, c)
  BY <1>3 DEF Declaration
<1> QED BY <1>1, <1>2, <1>3, <1>4

LEMMA CellTells ==
  ASSUME NEW d, NEW e, NEW c, NEW b, Declaration(d, c) # {}, FieldScope(d, c) = FieldScope(e, b),
         Shown(d, FieldScope(d, c)) = Shown(e, FieldScope(d, c))
  PROVE  CellAlike(d, e, c)
<1>1. /\ Declaration(e, c) # {} /\ d.entities[c[1]].schema = e.entities[c[1]].schema
  BY FieldScopeTells
<1>2. \A x : CellShown(x, <<c[1], c[2]>>) = CellShown(x, c)
  BY DEF CellShown, StoredAt, Declaration
<1>3. CellShown(d, c) = CellShown(e, c)
  <2>1. FieldScope(d, c) = <<{d.entities[c[1]].schema}, {c[1]}, {c[2]}>>
    BY FieldScopeIs
  <2>2. \A s, r, f, x : Shown(x, <<{s}, {r}, {f}>>) = CellShown(x, <<r, f>>)
    BY CellIsShown
  <2>3. \A x : Shown(x, <<{d.entities[c[1]].schema}, {c[1]}, {c[2]}>>) = CellShown(x, <<c[1], c[2]>>)
    BY <2>2, ZenonT(30)
  <2> QED BY <1>2, <2>1, <2>3
<1>4. PICK g : Declaration(d, c) = {g}
  BY DeclaredIs
<1>5. PICK h : Declaration(e, c) = {h}
  BY <1>1, DeclaredIs
<1>6. /\ CellShown(d, c) = {<<g.type, g.required, StoredAt(d, c)>>}
      /\ CellShown(e, c) = {<<h.type, h.required, StoredAt(e, c)>>}
  BY <1>4, <1>5 DEF CellShown
<1>7. <<g.type, g.required, StoredAt(d, c)>> = <<h.type, h.required, StoredAt(e, c)>>
  BY <1>3, <1>6
<1>8. g.type = h.type /\ g.required = h.required /\ StoredAt(d, c) = StoredAt(e, c)
  BY <1>7
<1>9. Facets(Declaration(d, c)) = Facets(Declaration(e, c))
  BY <1>4, <1>5, <1>8 DEF Facets
<1> QED BY <1>1, <1>8, <1>9 DEF CellAlike

\* What an authority sees of two documents.
AgreeUnder(d, e, authority) ==
  \A scope : Permits(authority, {scope}) =>
    /\ scope \in Scopes(d) <=> scope \in Scopes(e)
    /\ scope \in Scopes(d) => Shown(d, scope) = Shown(e, scope)

LEMMA FactsTell ==
  ASSUME NEW d, NEW e, NEW authority, Facts(d, authority) = Facts(e, authority)
  PROVE  AgreeUnder(d, e, authority) /\ AgreeUnder(e, d, authority)
<1>1. \A scope : scope \in DOMAIN Facts(d, authority) <=> scope \in Scopes(d) /\ Permits(authority, {scope})
  BY DEF Facts
<1>2. \A scope : scope \in DOMAIN Facts(e, authority) <=> scope \in Scopes(e) /\ Permits(authority, {scope})
  BY DEF Facts
<1>3. \A scope \in DOMAIN Facts(d, authority) : Facts(d, authority)[scope] = Shown(d, scope)
  BY DEF Facts
<1>4. \A scope \in DOMAIN Facts(e, authority) : Facts(e, authority)[scope] = Shown(e, scope)
  BY DEF Facts
<1> QED BY <1>1, <1>2, <1>3, <1>4 DEF AgreeUnder

LEMMA PermitsOne ==
  ASSUME NEW authority, NEW required, Permits(authority, required), NEW scope \in required
  PROVE  Permits(authority, {scope})
  BY DEF Permits

LEMMA WholeAgrees ==
  ASSUME NEW d, NEW e, NEW authority, AgreeUnder(d, e, authority), Permits(authority, {WholeDocument})
  PROVE  d = e
<1>1. WholeDocument \in Scopes(d)
  BY DEF Scopes
<1> QED BY <1>1, WholeTells DEF AgreeUnder

LEMMA SchemaAgrees ==
  ASSUME NEW d, NEW e, NEW authority, AgreeUnder(d, e, authority),
         NEW s \in DOMAIN d.schemas, Permits(authority, {SchemaScope(s)})
  PROVE  SchemaAlike(d, e, s)
<1>1. SchemaScope(s) \in Scopes(d)
  BY DEF Scopes
<1> QED BY <1>1, SchemaTells DEF AgreeUnder

LEMMA RowAgrees ==
  ASSUME NEW d, NEW e, NEW authority, AgreeUnder(d, e, authority),
         NEW r \in DOMAIN d.entities, Permits(authority, {EntityScope(d, r)})
  PROVE  RowAlike(d, e, r)
<1>1. EntityScope(d, r) \in Scopes(d)
  BY DEF Scopes
<1> QED BY <1>1, RowTells DEF AgreeUnder

LEMMA ScopeOfCell ==
  ASSUME NEW d, NEW c, Declaration(d, c) # {}
  PROVE  FieldScope(d, c) \in Scopes(d)
<1> DEFINE p == <<c[1], c[2]>>
<1>1. p[1] \in DOMAIN d.entities /\ p[2] \in {k[2] : k \in Columns(d)}
  <2>1. <<d.entities[c[1]].schema, c[2]>> \in Columns(d)
    BY DeclaredIs DEF Columns
  <2> QED BY <2>1, DeclaredIs
<1>2. FieldScope(d, p) = FieldScope(d, c)
  BY DEF FieldScope, Declaration
<1>3. p \in (DOMAIN d.entities) \X {k[2] : k \in Columns(d)}
  BY <1>1
<1> QED BY <1>2, <1>3 DEF Scopes

\* A scope of a cell is no other kind of scope.
LEMMA ScopeIsOfCell ==
  ASSUME NEW e, NEW s, NEW r, NEW f, <<{s}, {r}, {f}>> \in Scopes(e)
  PROVE  \E b : <<{s}, {r}, {f}>> = FieldScope(e, b)
<1>1. /\ <<{s}, {r}, {f}>> # WholeDocument
      /\ \A t : <<{s}, {r}, {f}>> # SchemaScope(t)
      /\ \A t, g : <<{s}, {r}, {f}>> # SchemaFieldScope(t, g)
      /\ \A q : <<{s}, {r}, {f}>> # EntityScope(e, q)
  BY DEF WholeDocument, SchemaScope, SchemaFieldScope, EntityScope
<1> QED BY <1>1 DEF Scopes

LEMMA CellAgrees ==
  ASSUME NEW d, NEW e, NEW authority, AgreeUnder(d, e, authority),
         NEW c, Declaration(d, c) # {}, Permits(authority, {FieldScope(d, c)})
  PROVE  CellAlike(d, e, c)
<1>1. FieldScope(d, c) \in Scopes(e) /\ Shown(d, FieldScope(d, c)) = Shown(e, FieldScope(d, c))
  BY ScopeOfCell DEF AgreeUnder
<1> DEFINE s == d.entities[c[1]].schema
           r == c[1]
           f == c[2]
<1>2. FieldScope(d, c) = <<{s}, {r}, {f}>>
  BY FieldScopeIs
<1> HIDE DEF s, r, f
<1>3. PICK b : FieldScope(d, c) = FieldScope(e, b)
  <2>1. <<{s}, {r}, {f}>> \in Scopes(e)
    BY <1>1, <1>2
  <2>2. PICK b : <<{s}, {r}, {f}>> = FieldScope(e, b)
    BY <2>1, ScopeIsOfCell, SMTT(30)
  <2> QED BY <1>2, <2>2
<1> QED BY <1>1, <1>3, CellTells

-----------------------------------------------------------------------------
(* The reasoning of a formula.                                             *)

\* Who depends on a cell directly.
LEMMA NewDependentsAre ==
  ASSUME NEW d, IsInMemory(d), NEW c, NEW f
  PROVE  f \in DirectDependents(NewGraph(d), c) <=> f \in FormulaCells(d) /\ c \in Deps(d, f)
<1>1. f \in FormulaCells(d) /\ c \in Deps(d, f) => f \in DirectDependents(NewGraph(d), c)
  BY NewDependents
<1>2. ASSUME f \in DirectDependents(NewGraph(d), c) PROVE f \in FormulaCells(d) /\ c \in Deps(d, f)
  <2>1. f \in FormulaCells(d)
    BY <1>2, NewDependents
  <2>2. CASE f \in CellReaders(NewGraph(d), c)
    <3>1. c \in DirectReferences(Formula(d, f))
      BY <2>1, <2>2, NewGraphIs DEF CellReaders
    <3> QED BY <2>1, <3>1 DEF Deps, ExtractDependencies
  <2>3. CASE f \in UNION {ColumnReaders(NewGraph(d), k) : k \in Entry(NewGraph(d).slotColumn, c)}
    <3>1. c \in ReadSlots(d) /\ f \in ColumnReaders(NewGraph(d), ColumnOf(d, c))
      BY <2>3, NewGraphIs DEF Entry
    <3>2. ColumnOf(d, c) \in Formula(d, f).columns
      BY <2>1, <3>1, NewGraphIs DEF ColumnReaders
    <3>3. c \in Slots(d, ColumnOf(d, c))
      BY <3>1 DEF ReadSlots, Slots, ColumnOf
    <3> QED BY <2>1, <3>2, <3>3 DEF Deps, ExtractDependencies
  <2> QED BY <1>2, <2>2, <2>3 DEF DirectDependents
<1> QED BY <1>1, <1>2

LEMMA StoredIsCell ==
  ASSUME NEW d, NEW c, c = <<c[1], c[2]>>, StoredAt(d, c) # {}
  PROVE  c \in Cells(d) /\ StoredAt(d, c) = {Stored(d, c)}
<1>1. c[1] \in DOMAIN d.entities /\ c[2] \in DOMAIN d.entities[c[1]].fields
  BY DEF StoredAt, Entry
<1> QED BY <1>1, CellIs, StoredAtIs

\* What is stored in a cell tells what the cell is.
LEMMA StoredTells ==
  ASSUME NEW d, NEW e, NEW c, c = <<c[1], c[2]>>, StoredAt(d, c) = StoredAt(e, c)
  PROVE  /\ c \in Cells(d) <=> c \in Cells(e)
         /\ c \in Cells(d) => Stored(d, c) = Stored(e, c)
         /\ c \in CalculationCells(d) <=> c \in CalculationCells(e)
         /\ c \in FormulaCells(d) <=> c \in FormulaCells(e)
         /\ c \in FormulaCells(d) => Formula(d, c) = Formula(e, c)
<1>1. \A x : c \in Cells(x) <=> StoredAt(x, c) # {}
  BY StoredIsCell, StoredAtIs
<1>2. c \in Cells(d) => StoredAt(d, c) = {Stored(d, c)} /\ StoredAt(e, c) = {Stored(e, c)}
  BY <1>1, StoredAtIs
<1>3. c \in Cells(d) => Stored(d, c) = Stored(e, c)
  BY <1>2
<1> QED BY <1>1, <1>3 DEF CalculationCells, FormulaCells, Formula

LEMMA AlikeBack ==
  ASSUME NEW d, NEW e, NEW c, CellAlike(d, e, c)
  PROVE  CellAlike(e, d, c)
  BY DEF CellAlike

\* A slot of one document is one of the other, where its cell is alike.
LEMMA SlotCarries ==
  ASSUME NEW d, NEW e, NEW c, CellAlike(d, e, c), NEW k, c \in Slots(d, k)
  PROVE  c \in Slots(e, k)
  BY SlotIs, DeclaredIs, SMTT(30) DEF CellAlike

\* So is a dependency between alike cells.
LEMMA DependencyCarries ==
  ASSUME NEW d, NEW e, IsInMemory(d), NEW c, NEW f, CellAlike(d, e, c), CellAlike(d, e, f),
         f \in FormulaCells(d), c \in Deps(d, f)
  PROVE  f \in FormulaCells(e) /\ Formula(d, f) = Formula(e, f) /\ c \in Deps(e, f)
<1>1. f \in FormulaCells(e) /\ Formula(d, f) = Formula(e, f)
  <2>1. f = <<f[1], f[2]>>
    BY CellIs DEF FormulaCells
  <2> QED BY <2>1, StoredTells DEF CellAlike
<1>2. c \in Deps(e, f)
  <2>1. CASE c \in DirectReferences(Formula(d, f))
    BY <1>1, <2>1 DEF Deps, ExtractDependencies
  <2>2. CASE \E k \in Formula(d, f).columns : c \in Slots(d, k)
    BY <1>1, <2>2, SlotCarries DEF Deps, ExtractDependencies
  <2> QED BY <2>1, <2>2 DEF Deps, ExtractDependencies
<1> QED BY <1>1, <1>2

\* What the explanation of a formula names, but for what it comes to.
Explained(d, target) ==
  Deps(d, target) \union DirectDependents(NewGraph(d), target)
    \union AffectedBy(NewGraph(d), target) \union {target}

Affecting(d) == [f \in FormulaCells(d) |-> DirectDependents(NewGraph(d), f)]
LEMMA AffectedIs ==
  ASSUME NEW d, IsInMemory(d), NEW target
  PROVE  /\ AffectedBy(NewGraph(d), target) = Reached(Affecting(d), DirectDependents(NewGraph(d), target))
         /\ IsNetwork(Affecting(d), FormulaCells(d))
         /\ DirectDependents(NewGraph(d), target) \subseteq FormulaCells(d)
<1>1. DOMAIN NewGraph(d).references = FormulaCells(d)
  BY NewGraphIs
<1>2. AffectedBy(NewGraph(d), target) = Reached(Affecting(d), DirectDependents(NewGraph(d), target))
  BY <1>1 DEF AffectedBy, Affecting
<1>3. \A c : DirectDependents(NewGraph(d), c) \subseteq FormulaCells(d)
  BY NewDependents
<1>4. IsNetwork(Affecting(d), FormulaCells(d))
  BY <1>3, CellsAreFinite DEF IsNetwork, Affecting
<1> QED BY <1>2, <1>3, <1>4

LEMMA ExplanationCarries ==
  ASSUME NEW d, NEW e, IsInMemory(d), IsInMemory(e), NEW target \in FormulaCells(d),
         \A c \in Explained(d, target) \union Explained(e, target) : CellAlike(d, e, c)
  PROVE  /\ target \in FormulaCells(e) /\ StoredAt(d, target) = StoredAt(e, target)
         /\ Deps(d, target) \subseteq Deps(e, target)
         /\ DirectDependents(NewGraph(d), target) \subseteq DirectDependents(NewGraph(e), target)
         /\ AffectedBy(NewGraph(d), target) \subseteq AffectedBy(NewGraph(e), target)
<1>1. CellAlike(d, e, target)
  BY DEF Explained
<1>2. target = <<target[1], target[2]>>
  BY CellIs DEF FormulaCells
<1>3. StoredAt(d, target) = StoredAt(e, target) /\ target \in FormulaCells(e)
  BY <1>1, <1>2, StoredTells DEF CellAlike
<1>4. Deps(d, target) \subseteq Deps(e, target)
  <2> SUFFICES ASSUME NEW c \in Deps(d, target) PROVE c \in Deps(e, target)
    OBVIOUS
  <2>1. CellAlike(d, e, c)
    BY DEF Explained
  <2> QED BY <1>1, <2>1, DependencyCarries
<1>5. ASSUME NEW x, NEW y, CellAlike(d, e, x), CellAlike(d, e, y), y \in DirectDependents(NewGraph(d), x)
      PROVE  y \in DirectDependents(NewGraph(e), x)
  <2>1. y \in FormulaCells(d) /\ x \in Deps(d, y)
    BY <1>5, NewDependentsAre
  <2>2. y \in FormulaCells(e) /\ x \in Deps(e, y)
    BY <1>5, <2>1, DependencyCarries
  <2> QED BY <2>2, NewDependentsAre
<1>6. DirectDependents(NewGraph(d), target) \subseteq DirectDependents(NewGraph(e), target)
  <2> SUFFICES ASSUME NEW f \in DirectDependents(NewGraph(d), target)
               PROVE  f \in DirectDependents(NewGraph(e), target)
    OBVIOUS
  <2>1. CellAlike(d, e, f)
    BY DEF Explained
  <2> QED BY <1>1, <1>5, <2>1
<1>7. AffectedBy(NewGraph(d), target) \subseteq AffectedBy(NewGraph(e), target)
  <2> DEFINE A == AffectedBy(NewGraph(d), target)
             B == AffectedBy(NewGraph(e), target)
             T == A \intersect B
  <2>1. /\ DirectDependents(NewGraph(d), target) \subseteq A
        /\ \A x \in A : Affecting(d)[x] \subseteq A
        /\ \A S : /\ DirectDependents(NewGraph(d), target) \subseteq S
                  /\ \A x \in S \intersect FormulaCells(d) : Affecting(d)[x] \subseteq S
                  => A \subseteq S
    BY AffectedIs, ReachedIs
  <2>2. /\ DirectDependents(NewGraph(e), target) \subseteq B
        /\ B \subseteq FormulaCells(e)
        /\ \A x \in B : Affecting(e)[x] \subseteq B
    BY AffectedIs, ReachedIs
  <2>3. DirectDependents(NewGraph(d), target) \subseteq T
    BY <1>6, <2>1, <2>2
  <2>4. ASSUME NEW x \in T \intersect FormulaCells(d) PROVE Affecting(d)[x] \subseteq T
    <3> SUFFICES ASSUME NEW y \in Affecting(d)[x] PROVE y \in T
      OBVIOUS
    <3>1. y \in A /\ y \in DirectDependents(NewGraph(d), x)
      BY <2>1 DEF Affecting
    <3>2. CellAlike(d, e, x) /\ CellAlike(d, e, y)
      BY <3>1 DEF Explained
    <3>3. y \in Affecting(e)[x]
      BY <1>5, <2>2, <3>1, <3>2 DEF Affecting
    <3> QED BY <2>2, <3>1, <3>3
  <2> HIDE DEF T
  <2>5. A \subseteq T
    BY <2>1, <2>3, <2>4
  <2> QED BY <2>5 DEF T
<1> QED BY <1>3, <1>4, <1>6, <1>7

\* What an explanation comes to, where it is one.
Explanation(d, target) ==
  [expression |-> StoredAt(d, target), inputs |-> Deps(d, target),
   dependents |-> DirectDependents(NewGraph(d), target), affected |-> AffectedBy(NewGraph(d), target),
   calculation |-> {}]

LEMMA ReasoningIs ==
  ASSUME NEW d, IsInMemory(d), NEW authority, NEW target,
         NEW answer, answer = FormulaReasoning(d, Rebuilt(d), authority, target), answer[1] = "formula"
  PROVE  /\ target \in FormulaCells(d)
         /\ [answer[2] EXCEPT !.calculation = {}] = Explanation(d, target)
         /\ \A c \in Explained(d, target) : Permits(authority, {FieldScope(d, c)})
<1> DEFINE state == Rebuilt(d)
           stored == StoredAt(d, target)
           facts == [expression |-> stored, inputs |-> DependenciesOf(state.graph, target),
                     dependents |-> DirectDependents(state.graph, target),
                     affected |-> AffectedBy(state.graph, target),
                     calculation |-> NodeProjection(state, target)]
           named == facts.inputs \union facts.dependents \union facts.affected
                      \union Evidence(facts.calculation) \union {target}
           required == IF stored = {} THEN {WholeDocument}
                       ELSE IF target \in FormulaCells(d) THEN {FieldScope(d, c) : c \in named}
                       ELSE {FieldScope(d, target)}
<1>1. answer = IF ~Permits(authority, required) THEN <<"denied">>
               ELSE IF stored = {} THEN <<"unresolved", target>>
               ELSE IF target \notin FormulaCells(d) THEN <<"unsupported", Kind(The(stored))>>
               ELSE <<"formula", facts, ReportFor(d, authority)>>
  BY DEF FormulaReasoning
<1>2. state.graph = NewGraph(d)
  BY RebuiltIsCalculation DEF IsCalculation
<1> HIDE DEF state, named, required, stored
<1>3. target \in FormulaCells(d) /\ Permits(authority, required) /\ stored # {} /\ answer[2] = facts
  BY <1>1
<1>4. DependenciesOf(state.graph, target) = Deps(d, target)
  BY <1>2, <1>3, NewDependencies
<1>5. [answer[2] EXCEPT !.calculation = {}] = Explanation(d, target)
  BY <1>2, <1>3, <1>4 DEF Explanation, stored
<1>6. required = {FieldScope(d, c) : c \in named}
  BY <1>3 DEF required
<1>7. Explained(d, target) \subseteq named
  BY <1>2, <1>4 DEF Explained, named
<1>8. \A c \in Explained(d, target) : Permits(authority, {FieldScope(d, c)})
  BY <1>3, <1>6, <1>7, PermitsOne
<1> QED BY <1>3, <1>5, <1>8

LEMMA ReasoningKeeps ==
  ASSUME IsInMemory(document), IsInMemory(document')
  PROVE  ReasoningKeepsToScope
<1> DEFINE facts(answer) == [answer[2] EXCEPT !.calculation = {}]
<1> SUFFICES ASSUME NEW authority \in Authorities[document.id],
                    Facts(document, authority) = Facts(document', authority),
                    NEW target \in FormulaCells(document),
                    NEW old, old = FormulaReasoning(document, Rebuilt(document), authority, target),
                    NEW new, new = FormulaReasoning(document', Rebuilt(document'), authority, target),
                    old[1] = "formula", new[1] = "formula"
             PROVE  facts(old) = facts(new)
  BY DEF ReasoningKeepsToScope
<1>1. /\ AgreeUnder(document, document', authority) /\ AgreeUnder(document', document, authority)
  BY FactsTell
<1>2. /\ target \in FormulaCells(document) /\ facts(old) = Explanation(document, target)
      /\ \A c \in Explained(document, target) : Permits(authority, {FieldScope(document, c)})
  BY ReasoningIs
<1>3. /\ target \in FormulaCells(document') /\ facts(new) = Explanation(document', target)
      /\ \A c \in Explained(document', target) : Permits(authority, {FieldScope(document', c)})
  BY ReasoningIs
<1>4. CASE Permits(authority, {WholeDocument})
  BY <1>1, <1>2, <1>3, <1>4, WholeAgrees
<1>5. CASE ~Permits(authority, {WholeDocument})
  <2>1. ASSUME NEW c \in Explained(document, target) PROVE CellAlike(document, document', c)
    BY <1>1, <1>2, <1>5, CellAgrees DEF FieldScope
  <2>2. ASSUME NEW c \in Explained(document', target) PROVE CellAlike(document', document, c)
    BY <1>1, <1>3, <1>5, CellAgrees DEF FieldScope
  <2>3. \A c \in Explained(document, target) \union Explained(document', target) :
          CellAlike(document, document', c) /\ CellAlike(document', document, c)
    BY <2>1, <2>2, AlikeBack
  <2>4. /\ StoredAt(document, target) = StoredAt(document', target)
        /\ Deps(document, target) \subseteq Deps(document', target)
        /\ DirectDependents(NewGraph(document), target) \subseteq DirectDependents(NewGraph(document'), target)
        /\ AffectedBy(NewGraph(document), target) \subseteq AffectedBy(NewGraph(document'), target)
    BY <1>2, <2>3, ExplanationCarries
  <2>5. /\ Deps(document', target) \subseteq Deps(document, target)
        /\ DirectDependents(NewGraph(document'), target) \subseteq DirectDependents(NewGraph(document), target)
        /\ AffectedBy(NewGraph(document'), target) \subseteq AffectedBy(NewGraph(document), target)
    BY <1>3, <2>3, ExplanationCarries
  <2>6. Explanation(document, target) = Explanation(document', target)
    BY <2>4, <2>5 DEF Explanation
  <2> QED BY <1>2, <1>3, <2>6
<1> QED BY <1>4, <1>5

-----------------------------------------------------------------------------
(* Analyses: what one that is told depends on.                             *)

\* Nothing is an input of no formula.
LEMMA NoInputs ==
  ASSUME NEW d, IsInMemory(d)
  PROVE  Inputs(d, {}) = {}
<1> DEFINE N == Cardinality(FormulaCells(d))
           step(reached, n) ==
             IF n = 0 THEN {}
             ELSE UNION {ExtractDependencies(d, Formula(d, c)) :
                         c \in {} \union (reached[n - 1] \intersect FormulaCells(d))}
           run == CHOOSE reached : reached = [n \in Nat |-> step(reached, n)]
           none == [n \in Nat |-> {}]
<1>1. N \in Nat
  BY CellsAreFinite, FS_CardinalityType
<1>2. none = [n \in Nat |-> step(none, n)]
  <2>1. \A n \in Nat : step(none, n) = {}
    <3> SUFFICES ASSUME NEW n \in Nat, n # 0 PROVE step(none, n) = {}
      OBVIOUS
    <3>1. n - 1 \in Nat
      OBVIOUS
    <3> QED BY <3>1
  <2> QED BY <2>1
<1>3. run = [n \in Nat |-> step(run, n)]
  BY <1>2
<1> HIDE DEF run, none
<1>4. \A n \in Nat : run[n] = step(run, n)
  BY <1>3
<1>5. 0 .. N \subseteq {n \in Nat : run[n] = {}}
  <2> DEFINE S == {n \in Nat : run[n] = {}}
  <2>1. 0 \in S
    BY <1>4
  <2>2. ASSUME NEW k \in 1 .. N, k - 1 \in S PROVE k \in S
    <3>1. k \in Nat /\ run[k - 1] = {} /\ k # 0
      BY <2>2
    <3> QED BY <1>4, <3>1
  <2> HIDE DEF S, step, N
  <2>3. 0 .. N \subseteq S
    BY <1>1, <2>1, <2>2, SegmentInduction
  <2> QED BY <2>3 DEF S
<1>6. run[N] = {}
  BY <1>1, <1>5
<1>7. Inputs(d, {}) = run[N]
  BY DEF Inputs, run
<1> QED BY <1>6, <1>7

\* A field as an analysis asks of it.
FieldAlike(d, e, s, f) ==
  /\ f \in DOMAIN d.schemas[s].fields <=> f \in DOMAIN e.schemas[s].fields
  /\ f \in DOMAIN d.schemas[s].fields => d.schemas[s].fields[f].type = e.schemas[s].fields[f].type

\* Two documents that an analysis cannot tell apart.
AskedAlike(d, e, q) ==
  /\ q.schema \in DOMAIN d.schemas /\ q.schema \in DOMAIN e.schemas
  /\ CandidateRows(d, q) = CandidateRows(e, q)
  /\ \A r \in Strays(d, q) : RowAlike(d, e, r)
  /\ \A c \in CandidateRows(d, q) \X RequestedFields(q) :
       /\ CellAlike(d, e, c)
       /\ \A v \in StoredAt(d, c) : Kind(v) = "reference" => RowAlike(d, e, v[2])
  /\ \A c \in CandidateRows(d, q) \X CalculatedFields(q) : c \notin FormulaCells(d)
  /\ Strays(d, q) = {} => \A f \in RequestedFields(q) : FieldAlike(d, e, q.schema, f)

LEMMA CandidatesAre ==
  ASSUME NEW d, NEW q, q.schema \in DOMAIN d.schemas
  PROVE  CandidateRows(d, q) = {r \in RowsOf(d, q.schema) : \A ids \in q.narrowing : r \in ids}
  BY DEF CandidateRows, RowsOf

\* What a principal may be told of an analysis, where it may not see everything.
LEMMA RequirementsTell ==
  ASSUME NEW d, NEW q, NEW authority, Permits(authority, AnalysisRequirements(d, q)),
         ~Permits(authority, {WholeDocument})
  PROVE  /\ q.schema \in DOMAIN d.schemas
         /\ \A r \in Strays(d, q) : /\ r \in DOMAIN d.entities /\ Permits(authority, {EntityScope(d, r)})
                                    /\ Permits(authority, {SchemaScope(q.schema)})
         /\ q.narrowing = {} \/ CandidateRows(d, q) \union Strays(d, q) = {}
              => Permits(authority, {SchemaScope(q.schema)})
         /\ \A r \in CandidateRows(d, q) : Permits(authority, {EntityScope(d, r)})
         /\ \A c \in CandidateRows(d, q) \X RequestedFields(q) :
              /\ Declaration(d, c) # {} /\ Permits(authority, {FieldScope(d, c)})
              /\ \A v \in StoredAt(d, c) : Kind(v) = "reference" =>
                   v[2] \in DOMAIN d.entities /\ Permits(authority, {EntityScope(d, v[2])})
         /\ \A c \in CandidateRows(d, q) \X CalculatedFields(q) : c \notin FormulaCells(d)
<1> DEFINE rows == CandidateRows(d, q)
           cells == rows \X RequestedFields(q)
<1>1. /\ Permits(authority, DomainRequirements(d, q)) /\ Permits(authority, MembershipRequirements(d, q))
      /\ Permits(authority, {EntityScope(d, r) : r \in rows})
      /\ Permits(authority, CellRequirements(d, cells))
      /\ Permits(authority, {WholeDocument : c \in FormulaRoots(d, q)})
  BY DEF AnalysisRequirements, Permits
<1>2. WholeDocument \notin DomainRequirements(d, q)
  BY <1>1, PermitsOne
<1>3. q.schema \in DOMAIN d.schemas
  BY <1>2 DEF DomainRequirements
<1>4. ASSUME NEW r \in Strays(d, q)
      PROVE  /\ r \in DOMAIN d.entities /\ Permits(authority, {EntityScope(d, r)})
             /\ Permits(authority, {SchemaScope(q.schema)})
  <2>1. DomainRequirements(d, q) =
          UNION {IF x \in DOMAIN d.entities THEN {EntityScope(d, x), SchemaScope(q.schema)}
                 ELSE {WholeDocument} : x \in Strays(d, q)}
    BY <1>3 DEF DomainRequirements
  <2>2. (IF r \in DOMAIN d.entities THEN {EntityScope(d, r), SchemaScope(q.schema)} ELSE {WholeDocument})
          \subseteq DomainRequirements(d, q)
    BY <2>1
  <2>3. r \in DOMAIN d.entities
    BY <1>2, <2>2
  <2> QED BY <1>1, <2>2, <2>3, PermitsOne
<1>5. q.narrowing = {} \/ rows \union Strays(d, q) = {} => Permits(authority, {SchemaScope(q.schema)})
  BY <1>1, <1>3 DEF MembershipRequirements
<1>6. \A r \in rows : Permits(authority, {EntityScope(d, r)})
  BY <1>1, PermitsOne
<1>7. ASSUME NEW c \in cells
      PROVE  /\ Declaration(d, c) # {} /\ Permits(authority, {FieldScope(d, c)})
             /\ \A v \in StoredAt(d, c) : Kind(v) = "reference" =>
                  v[2] \in DOMAIN d.entities /\ Permits(authority, {EntityScope(d, v[2])})
  <2>1. FieldScope(d, c) \in CellRequirements(d, cells)
    BY DEF CellRequirements
  <2>2. Permits(authority, {FieldScope(d, c)})
    BY <1>1, <2>1, PermitsOne
  <2>3. Declaration(d, c) # {}
    BY <2>2 DEF FieldScope
  <2>4. ASSUME NEW v \in StoredAt(d, c), Kind(v) = "reference"
        PROVE  v[2] \in DOMAIN d.entities /\ Permits(authority, {EntityScope(d, v[2])})
    <3>1. (IF v[2] \in DOMAIN d.entities THEN EntityScope(d, v[2]) ELSE WholeDocument)
            \in CellRequirements(d, cells)
      <4>1. v \in {u \in UNION {StoredAt(d, b) : b \in cells} : Kind(u) = "reference"}
        BY <2>4
      <4> HIDE DEF cells
      <4> QED BY <4>1 DEF CellRequirements
    <3>2. Permits(authority, {IF v[2] \in DOMAIN d.entities THEN EntityScope(d, v[2]) ELSE WholeDocument})
      BY <1>1, <3>1, PermitsOne
    <3> QED BY <3>2
  <2> QED BY <2>2, <2>3, <2>4
<1>8. ASSUME NEW c \in rows \X CalculatedFields(q) PROVE c \notin FormulaCells(d)
  <2> SUFFICES ASSUME c \in FormulaRoots(d, q) PROVE FALSE
    BY DEF FormulaRoots
  <2>1. WholeDocument \in {WholeDocument : b \in FormulaRoots(d, q)}
    OBVIOUS
  <2> QED BY <1>1, <2>1, PermitsOne
<1> QED BY <1>3, <1>4, <1>5, <1>6, <1>7, <1>8

LEMMA AnalysisIsBlind ==
  ASSUME NEW d, NEW e, NEW q, NEW authority, AgreeUnder(d, e, authority),
         Permits(authority, AnalysisRequirements(d, q)), ~Permits(authority, {WholeDocument})
  PROVE  AskedAlike(d, e, q)
<1> DEFINE rows == CandidateRows(d, q)
<1>1. /\ q.schema \in DOMAIN d.schemas
      /\ \A r \in Strays(d, q) : /\ r \in DOMAIN d.entities /\ Permits(authority, {EntityScope(d, r)})
                                 /\ Permits(authority, {SchemaScope(q.schema)})
      /\ q.narrowing = {} \/ rows \union Strays(d, q) = {} => Permits(authority, {SchemaScope(q.schema)})
      /\ \A r \in rows : Permits(authority, {EntityScope(d, r)})
      /\ \A c \in rows \X RequestedFields(q) :
           /\ Declaration(d, c) # {} /\ Permits(authority, {FieldScope(d, c)})
           /\ \A v \in StoredAt(d, c) : Kind(v) = "reference" =>
                v[2] \in DOMAIN d.entities /\ Permits(authority, {EntityScope(d, v[2])})
      /\ \A c \in rows \X CalculatedFields(q) : c \notin FormulaCells(d)
  BY RequirementsTell
<1>2. \A r \in Strays(d, q) : RowAlike(d, e, r)
  BY <1>1, RowAgrees
<1>3. \A r \in rows : RowAlike(d, e, r) /\ d.entities[r].schema = q.schema
  BY <1>1, RowAgrees DEF CandidateRows
<1>4. Permits(authority, {SchemaScope(q.schema)}) => SchemaAlike(d, e, q.schema)
  BY <1>1, SchemaAgrees
<1>5. q.schema \in DOMAIN e.schemas
  <2>1. CASE rows # {}
    BY <1>1, <1>3, <2>1 DEF RowAlike
  <2>2. CASE rows = {}
    BY <1>1, <1>4, <2>2 DEF SchemaAlike
  <2> QED BY <2>1, <2>2
<1>6. rows = CandidateRows(e, q)
  <2>1. CASE SchemaAlike(d, e, q.schema)
    BY <1>1, <1>5, <2>1, CandidatesAre DEF SchemaAlike
  <2>2. CASE ~SchemaAlike(d, e, q.schema)
    <3>1. q.narrowing # {}
      BY <1>1, <1>4, <2>2
    <3>2. ASSUME NEW r \in rows PROVE r \in CandidateRows(e, q)
      <4>1. r \in DOMAIN e.entities /\ e.entities[r].schema = q.schema
        BY <1>3 DEF RowAlike
      <4> QED BY <1>5, <4>1 DEF CandidateRows
    <3>3. ASSUME NEW r \in CandidateRows(e, q) PROVE r \in rows
      <4> SUFFICES ASSUME r \notin rows PROVE FALSE
        OBVIOUS
      <4>1. r \in Strays(d, q)
        BY <3>1 DEF Strays, CandidateRows
      <4>2. r \in DOMAIN d.entities /\ d.entities[r].schema = q.schema
        BY <1>2, <4>1 DEF RowAlike, CandidateRows
      <4> QED BY <1>1, <4>2 DEF CandidateRows
    <3> QED BY <3>2, <3>3
  <2> QED BY <2>1, <2>2
<1>7. ASSUME NEW c \in rows \X RequestedFields(q)
      PROVE  /\ CellAlike(d, e, c)
             /\ \A v \in StoredAt(d, c) : Kind(v) = "reference" => RowAlike(d, e, v[2])
  <2>1. CellAlike(d, e, c)
    BY <1>1, CellAgrees
  <2> QED BY <1>1, <2>1, RowAgrees
<1>8. ASSUME Strays(d, q) = {}, NEW f \in RequestedFields(q) PROVE FieldAlike(d, e, q.schema, f)
  <2>1. CASE rows = {}
    <3>1. SchemaAlike(d, e, q.schema)
      BY <1>1, <1>4, <1>8, <2>1
    <3> QED BY <3>1 DEF SchemaAlike, FieldAlike
  <2>2. CASE rows # {}
    <3>1. PICK r \in rows : TRUE
      BY <2>2
    <3> DEFINE c == <<r, f>>
    <3>2. c \in rows \X RequestedFields(q) /\ c[1] = r /\ c[2] = f
      OBVIOUS
    <3>3. CellAlike(d, e, c)
      BY <1>7, <3>2
    <3>4. /\ d.entities[r].schema = q.schema /\ e.entities[r].schema = q.schema
      BY <1>3 DEF RowAlike
    <3>5. /\ f \in DOMAIN d.schemas[q.schema].fields
          /\ Declaration(d, c) = {d.schemas[q.schema].fields[f]}
      BY <3>2, <3>3, <3>4, DeclaredIs DEF CellAlike
    <3>6. /\ f \in DOMAIN e.schemas[q.schema].fields
          /\ Declaration(e, c) = {e.schemas[q.schema].fields[f]}
      BY <3>2, <3>3, <3>4, DeclaredIs DEF CellAlike
    <3>7. Matched(Declaration(d, c), Declaration(e, c))
      BY <3>3, FacetsSame DEF CellAlike
    <3> QED BY <3>5, <3>6, <3>7 DEF FieldAlike, Matched
  <2> QED BY <2>1, <2>2
<1> QED BY <1>1, <1>2, <1>5, <1>6, <1>7, <1>8 DEF AskedAlike

\* The requirements are among what cannot be told apart.
LEMMA StraysAlike ==
  ASSUME NEW d, NEW e, NEW q, AskedAlike(d, e, q)
  PROVE  Strays(d, q) = Strays(e, q)
  BY DEF AskedAlike, Strays

LEMMA ScopesAlike ==
  ASSUME NEW d, NEW e
  PROVE  /\ \A r : RowAlike(d, e, r) => EntityScope(d, r) = EntityScope(e, r)
         /\ \A c : CellAlike(d, e, c) => FieldScope(d, c) = FieldScope(e, c)
  BY DEF RowAlike, EntityScope, CellAlike, FieldScope

LEMMA CellRequirementsAlike ==
  ASSUME NEW d, NEW e, NEW cells,
         \A c \in cells : /\ CellAlike(d, e, c)
                          /\ \A v \in StoredAt(d, c) : Kind(v) = "reference" => RowAlike(d, e, v[2])
  PROVE  CellRequirements(d, cells) = CellRequirements(e, cells)
<1> DEFINE values(x) == UNION {StoredAt(x, c) : c \in cells}
           referred(x) == {v[2] : v \in {v \in values(x) : Kind(v) = "reference"}}
           rows(x) == {IF r \in DOMAIN x.entities THEN EntityScope(x, r) ELSE WholeDocument : r \in referred(x)}
           fields(x) == {FieldScope(x, c) : c \in cells}
<1>1. values(d) = values(e)
  BY DEF CellAlike
<1>2. referred(d) = referred(e) /\ \A r \in referred(d) : RowAlike(d, e, r)
  BY <1>1
<1>3. \A r \in referred(d) : /\ r \in DOMAIN d.entities /\ r \in DOMAIN e.entities
                             /\ EntityScope(d, r) = EntityScope(e, r)
  BY <1>2, ScopesAlike DEF RowAlike
<1>4. fields(d) = fields(e)
  BY ScopesAlike
<1>5. CellRequirements(d, cells) = fields(d) \union rows(d) /\ CellRequirements(e, cells) = fields(e) \union rows(e)
  BY DEF CellRequirements
<1> HIDE DEF referred, fields
<1>6. rows(d) = rows(e)
  BY <1>2, <1>3
<1> QED BY <1>4, <1>5, <1>6

LEMMA RequirementsAlike ==
  ASSUME NEW d, NEW e, IsInMemory(d), IsInMemory(e), NEW q, AskedAlike(d, e, q)
  PROVE  AnalysisRequirements(d, q) = AnalysisRequirements(e, q)
<1> DEFINE rows == CandidateRows(d, q)
           cells == rows \X RequestedFields(q)
<1>1. rows = CandidateRows(e, q) /\ Strays(d, q) = Strays(e, q)
  BY StraysAlike DEF AskedAlike
<1>2. DomainRequirements(d, q) = DomainRequirements(e, q)
  <2> DEFINE part(x, r) == IF r \in DOMAIN x.entities THEN {EntityScope(x, r), SchemaScope(q.schema)}
                           ELSE {WholeDocument}
  <2>1. \A r \in Strays(d, q) : part(d, r) = part(e, r)
    BY ScopesAlike DEF AskedAlike, RowAlike
  <2>2. /\ DomainRequirements(d, q) = UNION {part(d, r) : r \in Strays(d, q)}
        /\ DomainRequirements(e, q) = UNION {part(e, r) : r \in Strays(e, q)}
    BY DEF DomainRequirements, AskedAlike
  <2> HIDE DEF part
  <2> QED BY <1>1, <2>1, <2>2
<1>3. MembershipRequirements(d, q) = MembershipRequirements(e, q)
  BY <1>1 DEF MembershipRequirements, AskedAlike
<1>4. \A r \in rows : EntityScope(d, r) = EntityScope(e, r)
  BY <1>1 DEF CandidateRows, EntityScope
<1>5. CellRequirements(d, cells) = CellRequirements(e, cells)
  BY CellRequirementsAlike DEF AskedAlike
<1>6. FormulaRoots(d, q) = {} /\ FormulaRoots(e, q) = {}
  <2>1. ASSUME NEW c \in rows \X CalculatedFields(q) PROVE c \notin FormulaCells(d) /\ c \notin FormulaCells(e)
    <3>1. c \in rows \X RequestedFields(q) /\ c = <<c[1], c[2]>>
      BY DEF RequestedFields
    <3>2. c \notin FormulaCells(d) /\ StoredAt(d, c) = StoredAt(e, c)
      BY <3>1 DEF AskedAlike, CellAlike
    <3> QED BY <3>1, <3>2, StoredTells
  <2> QED BY <1>1, <2>1 DEF FormulaRoots
<1>7. Inputs(d, {}) = {} /\ Inputs(e, {}) = {}
  BY NoInputs
<1> DEFINE needs(x) == DomainRequirements(x, q) \union MembershipRequirements(x, q)
                         \union {EntityScope(x, r) : r \in rows} \union CellRequirements(x, cells)
<1>8. AnalysisRequirements(d, q) = needs(d)
  BY <1>6, <1>7 DEF AnalysisRequirements
<1>9. AnalysisRequirements(e, q) = needs(e)
  BY <1>1, <1>6, <1>7 DEF AnalysisRequirements
<1>10. needs(d) = needs(e)
  BY <1>2, <1>3, <1>4, <1>5
<1> QED BY <1>8, <1>9, <1>10

LEMMA DomainFailureAlike ==
  ASSUME NEW d, NEW e, IsInMemory(d), NEW q, AskedAlike(d, e, q)
  PROVE  DomainFailure(d, q) = DomainFailure(e, q)
<1>1. Strays(d, q) = Strays(e, q) /\ q.schema \in DOMAIN d.schemas /\ q.schema \in DOMAIN e.schemas
  BY StraysAlike DEF AskedAlike
<1>2. CASE Strays(d, q) = {}
  BY <1>1, <1>2 DEF DomainFailure
<1>3. CASE Strays(d, q) # {}
  <2>1. Strays(d, q) \in SUBSET Nat
    BY DEF AskedAlike, RowAlike, IsInMemory
  <2>2. Min(Strays(d, q)) \in Strays(d, q)
    BY <1>3, <2>1, LeastNat DEF Min
  <2>3. RowAlike(d, e, Min(Strays(d, q)))
    BY <2>2 DEF AskedAlike
  <2> QED BY <1>1, <1>3, <2>3 DEF DomainFailure, RowAlike
<1> QED BY <1>2, <1>3

\* A cell that an analysis reads.
LEMMA AskedCell ==
  ASSUME NEW d, NEW e, NEW q, AskedAlike(d, e, q), NEW c \in CandidateRows(d, q) \X RequestedFields(q)
  PROVE  /\ StoredAt(d, c) = StoredAt(e, c)
         /\ \E g, h : Declaration(d, c) = {g} /\ Declaration(e, c) = {h} /\ g.type = h.type
         /\ \A v \in StoredAt(d, c) : ReferenceFits(d, c, v) <=> ReferenceFits(e, c, v)
<1>1. /\ CellAlike(d, e, c)
      /\ \A v \in StoredAt(d, c) : Kind(v) = "reference" => RowAlike(d, e, v[2])
  BY DEF AskedAlike
<1>2. PICK g : Declaration(d, c) = {g}
  BY <1>1, DeclaredIs DEF CellAlike
<1>3. PICK h : Declaration(e, c) = {h}
  BY <1>1, DeclaredIs DEF CellAlike
<1>4. Matched({g}, {h})
  BY <1>1, <1>2, <1>3, FacetsSame DEF CellAlike
<1>5. g.type = h.type
  BY <1>4 DEF Matched
<1>6. ASSUME NEW v \in StoredAt(d, c) PROVE ReferenceFits(d, c, v) <=> ReferenceFits(e, c, v)
  <2>1. CASE Kind(v) # "reference"
    BY <2>1 DEF ReferenceFits
  <2>2. CASE Kind(v) = "reference"
    <3>1. /\ Entry(d.entities, v[2]) = {d.entities[v[2]]} /\ Entry(e.entities, v[2]) = {e.entities[v[2]]}
          /\ d.entities[v[2]].schema = e.entities[v[2]].schema
      BY <1>1, <2>2 DEF RowAlike, Entry
    <3> QED BY <1>2, <1>3, <1>5, <3>1 DEF ReferenceFits
  <2> QED BY <2>1, <2>2
<1> QED BY <1>1, <1>2, <1>3, <1>5, <1>6 DEF CellAlike

LEMMA TargetFailureAlike ==
  ASSUME NEW d, NEW e, NEW q, AskedAlike(d, e, q), IsAsked(q), Strays(d, q) = {}
  PROVE  TargetFailure(d, q) = TargetFailure(e, q)
<1> DEFINE fields(x) == x.schemas[q.schema].fields
           unfit(x) == {p \in q.predicates : p[1] \in DOMAIN fields(x) => ~PredicateFits(fields(x)[p[1]].type, p)}
           predicates(x) == {p[1] : p \in unfit(x)}
           unmetric(x) == {r \in q.results : \E f \in r[2] :
                             f \in DOMAIN fields(x) => fields(x)[f].type # NumberType}
           metrics(x) == UNION {{i} \X r[2] : i \in DOMAIN ResultKinds, r \in unmetric(x)}
           requested(x) == {m \in metrics(x) : <<ResultKinds[m[1]], {m[2]}>> \in q.results}
           failure(x, role, f) ==
             {<<IF f \in DOMAIN fields(x) THEN "invalid_type" ELSE "unresolved_field", role, f>>}
           told(x) == IF predicates(x) # {} THEN failure(x, "predicate", Min(predicates(x)))
                      ELSE IF ~(q.group \subseteq DOMAIN fields(x)) THEN failure(x, "group", The(q.group))
                      ELSE IF requested(x) # {} THEN failure(x, "metric", First(requested(x))[2])
                      ELSE {}
<1>1. TargetFailure(d, q) = told(d) /\ TargetFailure(e, q) = told(e)
  BY DEF TargetFailure
<1>2. \A f \in RequestedFields(q) :
        /\ f \in DOMAIN fields(d) <=> f \in DOMAIN fields(e)
        /\ f \in DOMAIN fields(d) => fields(d)[f].type = fields(e)[f].type
  BY DEF AskedAlike, FieldAlike
<1>3. /\ \A p \in q.predicates : p[1] \in RequestedFields(q)
      /\ \A r \in q.results : r[2] \subseteq RequestedFields(q)
      /\ q.group \subseteq RequestedFields(q) /\ RequestedFields(q) \subseteq Nat
  BY DEF RequestedFields, CalculatedFields, IsAsked
<1> HIDE DEF fields
<1>4. unfit(d) = unfit(e)
  BY <1>2, <1>3
<1>5. unmetric(d) = unmetric(e)
  BY <1>2, <1>3
<1>6. predicates(d) = predicates(e) /\ requested(d) = requested(e)
  BY <1>4, <1>5
<1>7. predicates(d) \subseteq RequestedFields(q)
  BY <1>3
<1>8. requested(d) \subseteq Nat \X RequestedFields(q)
  <2>1. DOMAIN ResultKinds \subseteq Nat
    BY DEF ResultKinds
  <2>2. metrics(d) \subseteq Nat \X RequestedFields(q)
    BY <1>3, <2>1
  <2> HIDE DEF metrics
  <2> QED BY <2>2
<1>9. \A role, f : f \in RequestedFields(q) => failure(d, role, f) = failure(e, role, f)
  BY <1>2
<1>10. q.group \subseteq DOMAIN fields(d) <=> q.group \subseteq DOMAIN fields(e)
  BY <1>2, <1>3
<1> HIDE DEF predicates, requested, failure
<1>11. predicates(d) # {} => Min(predicates(d)) \in RequestedFields(q)
  <2> SUFFICES ASSUME predicates(d) # {} PROVE Min(predicates(d)) \in predicates(d)
    BY <1>7
  <2>1. predicates(d) \in SUBSET Nat
    BY <1>3, <1>7
  <2>2. \E n \in predicates(d) : \A m \in predicates(d) : n <= m
    BY <2>1, LeastNat
  <2> QED BY <2>2 DEF Min
<1>12. requested(d) # {} => First(requested(d))[2] \in RequestedFields(q)
  <2> SUFFICES ASSUME requested(d) # {} PROVE First(requested(d))[2] \in RequestedFields(q)
    OBVIOUS
  <2>1. requested(d) \subseteq Nat \X Nat
    BY <1>3, <1>8
  <2>2. First(requested(d)) \in requested(d)
    BY <2>1, FirstIs
  <2> QED BY <1>8, <2>2
<1>13. q.group # {} => The(q.group) \in RequestedFields(q)
  BY <1>3 DEF The
<1>14. told(d) = told(e)
  BY <1>6, <1>9, <1>10, <1>11, <1>12, <1>13
<1> QED BY <1>1, <1>14

LEMMA VerdictAlike ==
  ASSUME NEW d, NEW e, NEW q, AskedAlike(d, e, q), NEW s, NEW t,
         NEW r \in CandidateRows(d, q), NEW p \in q.predicates
  PROVE  Verdict(d, q, s, r, p) = Verdict(e, q, t, r, p)
<1> DEFINE c == <<r, p[1]>>
           v == The(StoredAt(d, c))
<1>1. /\ c \in CandidateRows(d, q) \X RequestedFields(q) /\ c = <<c[1], c[2]>>
      /\ c \in CandidateRows(d, q) \X CalculatedFields(q)
  BY DEF RequestedFields, CalculatedFields
<1>2. StoredAt(d, c) = StoredAt(e, c)
  BY <1>1, AskedCell
<1>3. CASE StoredAt(d, c) = {}
  BY <1>2, <1>3 DEF Verdict
<1>4. CASE StoredAt(d, c) # {}
  <2>1. v \in StoredAt(d, c)
    BY <1>4 DEF The
  <2>2. ReferenceFits(d, c, v) <=> ReferenceFits(e, c, v)
    BY <1>1, <2>1, AskedCell
  <2>3. Kind(v) # "formula"
    <3>1. c \notin FormulaCells(d)
      BY <1>1 DEF AskedAlike
    <3>2. c \in Cells(d) /\ StoredAt(d, c) = {Stored(d, c)}
      BY <1>1, <1>4, StoredIsCell
    <3> QED BY <2>1, <3>1, <3>2 DEF FormulaCells
  <2>4. The({v}) = v /\ {v} # {}
    BY TheIs
  <2> DEFINE verdict(x) == IF ~ReferenceFits(x, c, v) THEN <<"invalid_predicate_value", c>>
                           ELSE IF Kind(v) # Kind(p[3]) THEN <<"invalid_predicate_value", c>>
                           ELSE IF Compare(p[2], v, p[3]) THEN <<"holds">>
                           ELSE <<"differs">>
  <2>5. Verdict(d, q, s, r, p) = verdict(d)
    BY <1>4, <2>3, <2>4 DEF Verdict
  <2>6. Verdict(e, q, t, r, p) = verdict(e)
    BY <1>2, <1>4, <2>3, <2>4 DEF Verdict
  <2> QED BY <2>2, <2>5, <2>6
<1> QED BY <1>3, <1>4

LEMMA RowVerdictAlike ==
  ASSUME NEW d, NEW e, NEW q, AskedAlike(d, e, q), IsAsked(q), NEW s, NEW t, NEW r \in CandidateRows(d, q)
  PROVE  RowVerdict(d, q, s, r) = RowVerdict(e, q, t, r)
<1> DEFINE open(x, state) == {p \in q.predicates : Verdict(x, q, state, r, p) # <<"holds">>}
           first(S) == CHOOSE p \in S : \A other \in S : p[1] <= other[1]
           verdict(x, state, S) == IF S = {} THEN <<"holds">> ELSE Verdict(x, q, state, r, first(S))
<1>1. open(d, s) = open(e, t)
  BY VerdictAlike
<1>2. RowVerdict(d, q, s, r) = verdict(d, s, open(d, s)) /\ RowVerdict(e, q, t, r) = verdict(e, t, open(e, t))
  BY DEF RowVerdict
<1>3. ASSUME NEW S \in SUBSET q.predicates, S # {} PROVE first(S) \in S
  <2> DEFINE fields == {p[1] : p \in S}
  <2>1. fields \in SUBSET Nat /\ fields # {}
    BY <1>3 DEF IsAsked, RequestedFields, CalculatedFields
  <2>2. PICK f \in fields : \A other \in fields : f <= other
    BY <2>1, LeastNat
  <2>3. \E p \in S : \A other \in S : p[1] <= other[1]
    BY <2>2
  <2> QED BY <2>3
<1> HIDE DEF first
<1>4. ASSUME NEW S \in SUBSET q.predicates PROVE verdict(d, s, S) = verdict(e, t, S)
  BY <1>3, VerdictAlike
<1>5. open(d, s) \in SUBSET q.predicates
  OBVIOUS
<1> HIDE DEF open, verdict
<1> QED BY <1>1, <1>2, <1>4, <1>5

LEMMA MinIs ==
  ASSUME NEW S \in SUBSET Nat, S # {}
  PROVE  Min(S) \in S
<1>1. \E n \in S : \A m \in S : n <= m
  BY LeastNat
<1> QED BY <1>1 DEF Min

LEMMA SelectionAlike ==
  ASSUME NEW d, NEW e, IsInMemory(d), NEW q, AskedAlike(d, e, q), IsAsked(q), NEW s, NEW t
  PROVE  /\ SelectionFailure(d, q, s) = SelectionFailure(e, q, t)
         /\ Selected(d, q, s) = Selected(e, q, t) /\ Selected(d, q, s) \subseteq CandidateRows(d, q)
<1> DEFINE rows == CandidateRows(d, q)
           numeric(x, state) == {c \in (rows \X {p[1] : p \in q.predicates}) \intersect FormulaCells(x) :
                                   /\ x.schemas[q.schema].fields[c[2]].type = NumberType
                                   /\ CalculatedNumber(state, c) = {}}
           failing(x, state) == {r \in rows : RowVerdict(x, q, state, r)[1] \notin {"holds", "differs"}}
           told(x, state) == IF numeric(x, state) # {} THEN {CalculationFailed(x, q, state, First(numeric(x, state)))}
                             ELSE IF failing(x, state) # {} THEN {RowVerdict(x, q, state, Min(failing(x, state)))}
                             ELSE {}
<1>1. rows = CandidateRows(e, q)
  BY DEF AskedAlike
<1>2. SelectionFailure(d, q, s) = told(d, s) /\ SelectionFailure(e, q, t) = told(e, t)
  BY <1>1 DEF SelectionFailure
<1>3. ASSUME NEW c \in rows \X {p[1] : p \in q.predicates} PROVE c \notin FormulaCells(d) /\ c \notin FormulaCells(e)
  <2>1. c \in rows \X CalculatedFields(q) /\ c \in rows \X RequestedFields(q) /\ c = <<c[1], c[2]>>
    BY DEF CalculatedFields, RequestedFields
  <2>2. c \notin FormulaCells(d)
    BY <2>1 DEF AskedAlike
  <2> QED BY <2>1, <2>2, AskedCell, StoredTells
<1>4. numeric(d, s) = {} /\ numeric(e, t) = {}
  BY <1>3
<1>5. failing(d, s) = failing(e, t)
  BY RowVerdictAlike
<1>6. failing(d, s) # {} => Min(failing(d, s)) \in rows
  <2> SUFFICES ASSUME failing(d, s) # {} PROVE Min(failing(d, s)) \in failing(d, s)
    OBVIOUS
  <2>1. failing(d, s) \in SUBSET Nat
    BY DEF IsInMemory, CandidateRows
  <2> HIDE DEF failing
  <2> QED BY <2>1, MinIs
<1> HIDE DEF numeric, failing
<1>7. told(d, s) = told(e, t)
  BY <1>4, <1>5, <1>6, RowVerdictAlike
<1>8. Selected(d, q, s) = Selected(e, q, t)
  BY <1>1, RowVerdictAlike DEF Selected
<1> QED BY <1>2, <1>7, <1>8 DEF Selected

LEMMA GroupAlike ==
  ASSUME NEW d, NEW e, IsInMemory(d), NEW q, AskedAlike(d, e, q), IsAsked(q),
         NEW rows, rows \subseteq CandidateRows(d, q)
  PROVE  /\ GroupFailure(d, q, rows) = GroupFailure(e, q, rows)
         /\ GroupKeys(d, q, rows) = GroupKeys(e, q, rows)
         /\ \A key : Members(d, q, rows, key) = Members(e, q, rows, key)
<1>1. ASSUME NEW c \in rows \X q.group
      PROVE  StoredAt(d, c) = StoredAt(e, c) /\ GroupProblem(d, c) = GroupProblem(e, c)
  <2>1. c \in CandidateRows(d, q) \X RequestedFields(q)
    BY DEF RequestedFields
  <2>2. StoredAt(d, c) = StoredAt(e, c)
    BY <2>1, AskedCell
  <2> DEFINE v == The(StoredAt(d, c))
  <2>3. PICK g, h : Declaration(d, c) = {g} /\ Declaration(e, c) = {h} /\ g.type = h.type
    BY <2>1, AskedCell
  <2>4. The(Declaration(d, c)).type = The(Declaration(e, c)).type
    BY <2>3, TheIs
  <2>5. StoredAt(d, c) # {} => (ReferenceFits(d, c, v) <=> ReferenceFits(e, c, v))
    BY <2>1, AskedCell DEF The
  <2> DEFINE problem(x) == IF StoredAt(d, c) = {} THEN {<<"missing_group_value", c>>}
                           ELSE IF Kind(v) = "formula" THEN {<<"formula_grouping_unsupported", c[2]>>}
                           ELSE IF Kind(v) # The(Declaration(x, c)).type[1] \/ ~ReferenceFits(x, c, v)
                                THEN {<<"invalid_group_value", c>>}
                           ELSE {}
  <2>6. GroupProblem(d, c) = problem(d) /\ GroupProblem(e, c) = problem(e)
    BY <2>2 DEF GroupProblem
  <2>7. problem(d) = problem(e)
    BY <2>4, <2>5
  <2> QED BY <2>2, <2>6, <2>7
<1>2. GroupKeys(d, q, rows) = GroupKeys(e, q, rows)
  BY <1>1 DEF GroupKeys
<1>3. ASSUME NEW key PROVE Members(d, q, rows, key) = Members(e, q, rows, key)
  BY <1>1 DEF Members
<1>4. GroupFailure(d, q, rows) = GroupFailure(e, q, rows)
  <2> DEFINE failing(x) == {c \in rows \X q.group : GroupProblem(x, c) # {}}
             told(x) == UNION {GroupProblem(x, First(failing(x))) : c \in failing(x)}
  <2>1. failing(d) = failing(e)
    BY <1>1
  <2>2. failing(d) # {} => First(failing(d)) \in rows \X q.group
    <3> SUFFICES ASSUME failing(d) # {} PROVE First(failing(d)) \in failing(d)
      OBVIOUS
    <3>1. failing(d) \subseteq Nat \X Nat
      BY DEF IsInMemory, CandidateRows, IsAsked, RequestedFields
    <3> HIDE DEF failing
    <3> QED BY <3>1, FirstIs
  <2>3. GroupFailure(d, q, rows) = told(d) /\ GroupFailure(e, q, rows) = told(e)
    BY DEF GroupFailure
  <2> HIDE DEF failing
  <2>4. told(d) = told(e)
    BY <1>1, <2>1, <2>2
  <2> QED BY <2>3, <2>4
<1> QED BY <1>2, <1>3, <1>4

\* The number of a metric's cell, which is no formula.
LEMMA MetricNumberIs ==
  ASSUME NEW d, NEW c, c = <<c[1], c[2]>>, c \notin FormulaCells(d), NEW s
  PROVE  MetricNumber(s, d, c) = {v \in StoredAt(d, c) : Kind(v) = "number"}
<1>1. CASE StoredAt(d, c) = {}
  BY <1>1 DEF MetricNumber
<1>2. CASE StoredAt(d, c) # {}
  <2> DEFINE v == Stored(d, c)
  <2>1. StoredAt(d, c) = {v} /\ Kind(v) # "formula"
    BY <1>2, StoredIsCell DEF FormulaCells
  <2>2. MetricNumber(s, d, c) = UNION {CASE Kind(u) = "formula" -> CalculatedNumber(s, c)
                                         [] Kind(u) = "number" -> {u}
                                         [] OTHER -> {} : u \in {v}}
    BY <2>1 DEF MetricNumber
  <2> HIDE DEF v
  <2>3. MetricNumber(s, d, c) = IF Kind(v) = "number" THEN {v} ELSE {}
    BY <2>1, <2>2
  <2> QED BY <2>1, <2>3
<1> QED BY <1>1, <1>2

LEMMA MetricCells ==
  ASSUME NEW d, NEW e, NEW q, AskedAlike(d, e, q), NEW s, NEW t,
         NEW r \in CandidateRows(d, q), NEW f \in UNION {x[2] : x \in q.results}
  PROVE  /\ MetricNumber(s, d, <<r, f>>) = MetricNumber(t, e, <<r, f>>)
         /\ <<r, f>> \notin FormulaCells(d) /\ <<r, f>> \notin FormulaCells(e)
<1> DEFINE c == <<r, f>>
<1>1. /\ c \in CandidateRows(d, q) \X CalculatedFields(q) /\ c \in CandidateRows(d, q) \X RequestedFields(q)
      /\ c = <<c[1], c[2]>>
  BY DEF CalculatedFields, RequestedFields
<1>2. c \notin FormulaCells(d) /\ StoredAt(d, c) = StoredAt(e, c)
  BY <1>1, AskedCell DEF AskedAlike
<1>3. c \notin FormulaCells(e)
  BY <1>1, <1>2, StoredTells
<1> HIDE DEF c
<1>4. MetricNumber(s, d, c) = MetricNumber(t, e, c)
  BY <1>1, <1>2, <1>3, MetricNumberIs
<1> QED BY <1>2, <1>3, <1>4 DEF c

LEMMA MetricAlike ==
  ASSUME NEW d, NEW e, IsInMemory(d), NEW q, AskedAlike(d, e, q), IsAsked(q), NEW s, NEW t,
         NEW rows, rows \subseteq CandidateRows(d, q)
  PROVE  /\ MetricFailure(d, q, s, rows) = MetricFailure(e, q, t, rows)
         /\ Bucket(d, q, s, rows) = Bucket(e, q, t, rows)
<1> DEFINE metrics == UNION {r[2] : r \in q.results}
<1>1. \A r \in rows, f \in metrics :
        /\ MetricNumber(s, d, <<r, f>>) = MetricNumber(t, e, <<r, f>>)
        /\ <<r, f>> \notin FormulaCells(d) /\ <<r, f>> \notin FormulaCells(e)
  <2> SUFFICES ASSUME NEW r \in rows, NEW f \in metrics
               PROVE  /\ MetricNumber(s, d, <<r, f>>) = MetricNumber(t, e, <<r, f>>)
                      /\ <<r, f>> \notin FormulaCells(d) /\ <<r, f>> \notin FormulaCells(e)
    OBVIOUS
  <2>1. r \in CandidateRows(d, q) /\ f \in UNION {x[2] : x \in q.results}
    OBVIOUS
  <2> HIDE DEF metrics
  <2> QED BY <2>1, MetricCells
<1>2. metrics \subseteq Nat /\ rows \subseteq Nat
  BY DEF IsAsked, RequestedFields, CalculatedFields, IsInMemory, CandidateRows
<1>3. MetricFailure(d, q, s, rows) = MetricFailure(e, q, t, rows)
  <2> DEFINE failing(x, state) == {c \in metrics \X rows : MetricNumber(state, x, <<c[2], c[1]>>) = {}}
             cell(S) == <<First(S)[2], First(S)[1]>>
             told(x, state, S) == IF S = {} THEN {}
                                  ELSE IF cell(S) \in FormulaCells(x) THEN {CalculationFailed(x, q, state, cell(S))}
                                  ELSE {<<"metric_incomplete", cell(S)>>}
  <2>1. failing(d, s) = failing(e, t)
    BY <1>1
  <2>2. ASSUME NEW S \in SUBSET (metrics \X rows) PROVE told(d, s, S) = told(e, t, S)
    <3>1. CASE S = {}
      BY <3>1
    <3>2. CASE S # {}
      <4>1. S \subseteq Nat \X Nat
        BY <1>2
      <4>2. First(S) \in metrics \X rows
        BY <3>2, <4>1, FirstIs
      <4>3. First(S)[2] \in rows /\ First(S)[1] \in metrics
        BY <4>2
      <4>4. cell(S) \notin FormulaCells(d) /\ cell(S) \notin FormulaCells(e)
        BY <1>1, <4>3
      <4> QED BY <3>2, <4>4
    <3> QED BY <3>1, <3>2
  <2>3. MetricFailure(d, q, s, rows) = told(d, s, failing(d, s))
    BY DEF MetricFailure
  <2>4. MetricFailure(e, q, t, rows) = told(e, t, failing(e, t))
    BY DEF MetricFailure
  <2>5. failing(d, s) \in SUBSET (metrics \X rows)
    OBVIOUS
  <2> HIDE DEF failing, told
  <2> QED BY <2>1, <2>2, <2>3, <2>4, <2>5
<1>4. Bucket(d, q, s, rows) = Bucket(e, q, t, rows)
  <2> DEFINE number(x, state, r, f) == The(MetricNumber(state, x, <<r, f>>))[2]
             numbers(x, state, fs) == {number(x, state, r, f) : r \in rows, f \in fs}
             value(x, state, kind, fs) ==
               CASE kind = "membership" -> rows
                 [] kind = "count" -> Cardinality(rows)
                 [] kind = "minimum" -> {Min(numbers(x, state, fs)) : r \in rows}
                 [] kind = "maximum" -> {Max(numbers(x, state, fs)) : r \in rows}
                 [] kind = "observations" -> [r \in rows |-> number(x, state, r, The(fs))]
  <2>1. /\ Bucket(d, q, s, rows) = [r \in q.results |-> value(d, s, r[1], r[2])]
        /\ Bucket(e, q, t, rows) = [r \in q.results |-> value(e, t, r[1], r[2])]
    BY DEF Bucket
  <2>2. ASSUME NEW x \in q.results PROVE value(d, s, x[1], x[2]) = value(e, t, x[1], x[2])
    <3>1. \A r \in rows, f \in x[2] : number(d, s, r, f) = number(e, t, r, f)
      BY <1>1
    <3>2. numbers(d, s, x[2]) = numbers(e, t, x[2])
      <4> HIDE DEF number
      <4> QED BY <3>1
    <3>3. x[1] = "observations" =>
            [r \in rows |-> number(d, s, r, The(x[2]))] = [r \in rows |-> number(e, t, r, The(x[2]))]
      <4> SUFFICES ASSUME x[1] = "observations"
                   PROVE  \A r \in rows : number(d, s, r, The(x[2])) = number(e, t, r, The(x[2]))
        OBVIOUS
      <4>1. The(x[2]) \in x[2]
        BY DEF IsAsked, The
      <4> QED BY <3>1, <4>1
    <3> HIDE DEF number, numbers
    <3>4. CASE x[1] = "observations"
      BY <3>3, <3>4
    <3>5. CASE x[1] # "observations"
      BY <3>2, <3>5
    <3> QED BY <3>4, <3>5
  <2> HIDE DEF value
  <2> QED BY <2>1, <2>2
<1> QED BY <1>3, <1>4

LEMMA OutcomeAlike ==
  ASSUME NEW d, NEW e, IsInMemory(d), NEW q, AskedAlike(d, e, q), IsAsked(q), Strays(d, q) = {}, NEW s, NEW t
  PROVE  AnalysisOutcome(d, q, s) = AnalysisOutcome(e, q, t)
<1> DEFINE rows == Selected(d, q, s)
           keys == GroupKeys(d, q, rows)
           groups(x, state) == [key \in GroupKeys(x, q, rows) |-> Bucket(x, q, state, Members(x, q, rows, key))]
           outcome(x, state) ==
             IF TargetFailure(x, q) # {} THEN <<"failure", The(TargetFailure(x, q))>>
             ELSE IF SelectionFailure(x, q, state) # {} THEN <<"failure", The(SelectionFailure(x, q, state))>>
             ELSE IF GroupFailure(x, q, rows) # {} THEN <<"failure", The(GroupFailure(x, q, rows))>>
             ELSE IF MetricFailure(x, q, state, rows) # {} THEN <<"failure", The(MetricFailure(x, q, state, rows))>>
             ELSE IF LimitFailure(x, q, rows) # {} THEN <<"failure", The(LimitFailure(x, q, rows))>>
             ELSE IF q.group # {} THEN <<"groups", groups(x, state)>>
             ELSE <<"rows", Bucket(x, q, state, rows)>>
<1>1. TargetFailure(d, q) = TargetFailure(e, q)
  BY TargetFailureAlike
<1>2. /\ SelectionFailure(d, q, s) = SelectionFailure(e, q, t)
      /\ rows = Selected(e, q, t) /\ rows \subseteq CandidateRows(d, q)
  BY SelectionAlike
<1>3. AnalysisOutcome(d, q, s) = outcome(d, s) /\ AnalysisOutcome(e, q, t) = outcome(e, t)
  BY <1>2 DEF AnalysisOutcome
<1> HIDE DEF rows
<1>4. /\ GroupFailure(d, q, rows) = GroupFailure(e, q, rows)
      /\ keys = GroupKeys(e, q, rows)
      /\ \A key : Members(d, q, rows, key) = Members(e, q, rows, key)
  BY <1>2, GroupAlike
<1>5. MetricFailure(d, q, s, rows) = MetricFailure(e, q, t, rows) /\ Bucket(d, q, s, rows) = Bucket(e, q, t, rows)
  BY <1>2, MetricAlike
<1>6. LimitFailure(d, q, rows) = LimitFailure(e, q, rows)
  BY <1>4 DEF LimitFailure
<1>7. groups(d, s) = groups(e, t)
  <2>1. \A key : Members(d, q, rows, key) \subseteq CandidateRows(d, q)
    BY <1>2 DEF Members
  <2>2. ASSUME NEW key PROVE Bucket(d, q, s, Members(d, q, rows, key)) = Bucket(e, q, t, Members(e, q, rows, key))
    BY <1>4, <2>1, MetricAlike
  <2> QED BY <1>4, <2>2
<1> HIDE DEF groups
<1> QED BY <1>1, <1>2, <1>3, <1>4, <1>5, <1>6, <1>7

\* An analysis that is told of one document is told of the other, and alike.
LEMMA AnalysisCarries ==
  ASSUME NEW d, NEW e, IsInMemory(d), IsInMemory(e), NEW authority, AgreeUnder(d, e, authority),
         NEW definition, NEW q, q = Normalized(definition), IsAsked(q),
         Permits(authority, AnalysisRequirements(d, q))
  PROVE  /\ Permits(authority, AnalysisRequirements(e, q))
         /\ Analysis(d, Rebuilt(d), authority, definition) = Analysis(e, Rebuilt(e), authority, definition)
<1>1. CASE Permits(authority, {WholeDocument})
  BY <1>1, WholeAgrees
<1>2. CASE ~Permits(authority, {WholeDocument})
  <2>1. AskedAlike(d, e, q)
    BY <1>2, AnalysisIsBlind
  <2>2. AnalysisRequirements(d, q) = AnalysisRequirements(e, q) /\ DomainFailure(d, q) = DomainFailure(e, q)
    BY <2>1, RequirementsAlike, DomainFailureAlike
  <2>3. DomainFailure(d, q) = {} => AnalysisOutcome(d, q, Rebuilt(d)) = AnalysisOutcome(e, q, Rebuilt(e))
    <3> SUFFICES ASSUME DomainFailure(d, q) = {} PROVE Strays(d, q) = {}
      BY <2>1, OutcomeAlike
    <3> QED BY DEF DomainFailure
  <2> QED BY <2>2, <2>3 DEF Analysis
<1> QED BY <1>1, <1>2

LEMMA AnalysesKeep ==
  ASSUME IsInMemory(document), IsInMemory(document')
  PROVE  AnalysesKeepToScope
<1> SUFFICES ASSUME NEW authority \in Authorities[document.id],
                    Facts(document, authority) = Facts(document', authority),
                    NEW definition \in UNION Entry(Analyses, document.id)
             PROVE  Analysis(document, Rebuilt(document), authority, definition)
                      = Analysis(document', Rebuilt(document'), authority, definition)
  BY DEF AnalysesKeepToScope
<1> DEFINE q == Normalized(definition)
<1>1. IsAsked(q)
  BY AnalysesAssumption DEF Range, Entry
<1>2. AgreeUnder(document, document', authority) /\ AgreeUnder(document', document, authority)
  BY FactsTell
<1> HIDE DEF q
<1>3. CASE Permits(authority, AnalysisRequirements(document, q))
  BY <1>1, <1>2, <1>3, AnalysisCarries DEF q
<1>4. CASE Permits(authority, AnalysisRequirements(document', q))
  BY <1>1, <1>2, <1>4, AnalysisCarries DEF q
<1>5. CASE ~Permits(authority, AnalysisRequirements(document, q))
             /\ ~Permits(authority, AnalysisRequirements(document', q))
  BY <1>5 DEF Analysis, q
<1> QED BY <1>3, <1>4, <1>5

\* Cells that are alike are the same to a calculation.
LEMMA AlikeIsSame ==
  ASSUME NEW d, NEW e, NEW c, CellAlike(d, e, c)
  PROVE  SameCell(d, e, c) /\ SameCell(e, d, c)
<1>1. CASE c = <<c[1], c[2]>>
  BY <1>1, StoredTells DEF CellAlike, SameCell
<1>2. CASE c # <<c[1], c[2]>>
  <2>1. c \notin Cells(d) /\ c \notin Cells(e)
    BY <1>2, CellIs
  <2> QED BY <2>1 DEF CellAlike, SameCell
<1> QED BY <1>1, <1>2

-----------------------------------------------------------------------------
(* Documents that are alike in every formula and all that formulas read.   *)

FormulasAlike(d, e) ==
  /\ \A f \in FormulaCells(d) : CellAlike(d, e, f) /\ \A c \in Deps(d, f) : CellAlike(d, e, c)
  /\ \A f \in FormulaCells(e) : CellAlike(e, d, f) /\ \A c \in Deps(e, f) : CellAlike(e, d, c)
  /\ \A k \in EmptyColumns(d) \union EmptyColumns(e) :
       /\ k[1] \in DOMAIN d.schemas <=> k[1] \in DOMAIN e.schemas
       /\ DefinitionsOf(d, k) = DefinitionsOf(e, k)

LEMMA FormulasCarry ==
  ASSUME NEW d, NEW e, IsInMemory(d), IsInMemory(e), FormulasAlike(d, e)
  PROVE  /\ FormulaCells(d) \subseteq FormulaCells(e)
         /\ \A f \in FormulaCells(d) :
              /\ Formula(d, f) = Formula(e, f) /\ Deps(d, f) \subseteq Deps(e, f)
              /\ \A k \in Formula(d, f).columns : Slots(d, k) \subseteq Slots(e, k)
<1> SUFFICES ASSUME NEW f \in FormulaCells(d)
             PROVE  /\ f \in FormulaCells(e)
                    /\ Formula(d, f) = Formula(e, f) /\ Deps(d, f) \subseteq Deps(e, f)
                    /\ \A k \in Formula(d, f).columns : Slots(d, k) \subseteq Slots(e, k)
  OBVIOUS
<1>1. CellAlike(d, e, f) /\ \A c \in Deps(d, f) : CellAlike(d, e, c)
  BY DEF FormulasAlike
<1>2. f \in FormulaCells(e) /\ Formula(d, f) = Formula(e, f)
  <2>1. f = <<f[1], f[2]>>
    BY CellIs DEF FormulaCells
  <2> QED BY <1>1, <2>1, StoredTells DEF CellAlike
<1>3. \A c \in Deps(d, f) : c \in Deps(e, f)
  BY <1>1, DependencyCarries
<1>4. ASSUME NEW k \in Formula(d, f).columns, NEW c \in Slots(d, k) PROVE c \in Slots(e, k)
  <2>1. c \in Deps(d, f)
    BY <1>4 DEF Deps, ExtractDependencies
  <2> QED BY <1>1, <2>1, SlotCarries
<1> QED BY <1>2, <1>3, <1>4

LEMMA FormulasAlikeBack ==
  ASSUME NEW d, NEW e, FormulasAlike(d, e)
  PROVE  FormulasAlike(e, d)
  BY DEF FormulasAlike

\* The same formulas depend on the same cells.
LEMMA FormulasSame ==
  ASSUME NEW d, NEW e, IsInMemory(d), IsInMemory(e), FormulasAlike(d, e)
  PROVE  /\ FormulaCells(d) = FormulaCells(e)
         /\ \A f \in FormulaCells(d) :
              /\ Formula(d, f) = Formula(e, f) /\ Deps(d, f) = Deps(e, f)
              /\ \A k \in Formula(d, f).columns : Slots(d, k) = Slots(e, k)
<1>1. /\ FormulaCells(d) \subseteq FormulaCells(e)
      /\ \A f \in FormulaCells(d) :
           /\ Formula(d, f) = Formula(e, f) /\ Deps(d, f) \subseteq Deps(e, f)
           /\ \A k \in Formula(d, f).columns : Slots(d, k) \subseteq Slots(e, k)
  BY FormulasCarry
<1>2. /\ FormulaCells(e) \subseteq FormulaCells(d)
      /\ \A f \in FormulaCells(e) :
           /\ Deps(e, f) \subseteq Deps(d, f)
           /\ \A k \in Formula(e, f).columns : Slots(e, k) \subseteq Slots(d, k)
  BY FormulasCarry, FormulasAlikeBack
<1>3. FormulaCells(d) = FormulaCells(e)
  BY <1>1, <1>2
<1> SUFFICES ASSUME NEW f \in FormulaCells(d)
             PROVE  /\ Deps(d, f) = Deps(e, f)
                    /\ \A k \in Formula(d, f).columns : Slots(d, k) = Slots(e, k)
  BY <1>1, <1>3
<1>4. Formula(d, f) = Formula(e, f) /\ f \in FormulaCells(e)
  BY <1>1
<1>5. Deps(d, f) \subseteq Deps(e, f) /\ Deps(e, f) \subseteq Deps(d, f)
  BY <1>1, <1>2, <1>4
<1>6. ASSUME NEW k \in Formula(d, f).columns PROVE Slots(d, k) = Slots(e, k)
  <2>1. Slots(d, k) \subseteq Slots(e, k)
    BY <1>1
  <2>2. Slots(e, k) \subseteq Slots(d, k)
    BY <1>2, <1>4
  <2> QED BY <2>1, <2>2
<1> QED BY <1>5, <1>6

\* A declared slot is in its column's field.
LEMMA SlotDeclares ==
  ASSUME NEW d, NEW k, NEW c \in Slots(d, k), Declaration(d, c) # {}
  PROVE  k[1] \in DOMAIN d.schemas /\ Declaration(d, c) = DefinitionsOf(d, k)
<1>1. c[1] \in DOMAIN d.entities /\ d.entities[c[1]].schema = k[1] /\ c[2] = k[2]
  BY SlotIs
<1>2. k[1] \in DOMAIN d.schemas
  BY <1>1, DeclaredIs
<1>3. Declaration(d, c) = UNION {Entry(s.fields, c[2]) : s \in Entry(d.schemas, d.entities[c[1]].schema)}
  BY <1>1 DEF Declaration, Entry
<1> QED BY <1>1, <1>2, <1>3 DEF DefinitionsOf

LEMMA FormulaLooksSame ==
  ASSUME NEW d, NEW e, IsInMemory(d), IsInMemory(e), FormulasAlike(d, e), NEW f \in FormulaCells(d)
  PROVE  SameFor(d, e, Formula(d, f))
<1>1. \A c \in Deps(d, f) : CellAlike(d, e, c) /\ SameCell(d, e, c)
  BY AlikeIsSame DEF FormulasAlike
<1>2. \A c \in DirectReferences(Formula(d, f)) : SameCell(d, e, c)
  BY <1>1 DEF Deps, ExtractDependencies
<1>3. ASSUME NEW k \in Formula(d, f).columns PROVE SameColumn(d, e, k)
  <2>1. Slots(d, k) = Slots(e, k)
    BY <1>3, FormulasSame
  <2>2. \A c \in Slots(d, k) : CellAlike(d, e, c) /\ SameCell(d, e, c)
    BY <1>1, <1>3 DEF Deps, ExtractDependencies
  <2>3. /\ k[1] \in DOMAIN d.schemas <=> k[1] \in DOMAIN e.schemas
        /\ Facets(DefinitionsOf(d, k)) = Facets(DefinitionsOf(e, k))
    <3>1. CASE Slots(d, k) = {}
      <4>1. k \in EmptyColumns(d)
        BY <1>3, <3>1 DEF EmptyColumns
      <4> QED BY <4>1 DEF FormulasAlike
    <3>2. CASE Slots(d, k) # {}
      <4>1. PICK c \in Slots(d, k) : TRUE
        BY <3>2
      <4>2. CellAlike(d, e, c)
        BY <2>2
      <4>3. k[1] \in DOMAIN d.schemas /\ Declaration(d, c) = DefinitionsOf(d, k)
        BY <4>2, SlotDeclares DEF CellAlike
      <4>4. k[1] \in DOMAIN e.schemas /\ Declaration(e, c) = DefinitionsOf(e, k)
        BY <2>1, <4>2, SlotDeclares DEF CellAlike
      <4> QED BY <4>2, <4>3, <4>4 DEF CellAlike
    <3> QED BY <3>1, <3>2
  <2> QED BY <2>1, <2>2, <2>3 DEF SameColumn
<1> QED BY <1>2, <1>3 DEF SameFor

\* What is told before evaluation of the formulas and of what they read.
LEMMA FormulaPhasesSame ==
  ASSUME NEW d, NEW e, IsInMemory(d), IsInMemory(e), FormulasAlike(d, e)
  PROVE  /\ \A f \in FormulaCells(d) : PregraphFailure(d, f) = PregraphFailure(e, f)
         /\ Eligible(d) = Eligible(e) /\ Cycles(d) = Cycles(e)
<1>1. /\ FormulaCells(d) = FormulaCells(e)
      /\ \A f \in FormulaCells(d) : Formula(d, f) = Formula(e, f) /\ Deps(d, f) = Deps(e, f)
  BY FormulasSame
<1>2. ASSUME NEW f \in FormulaCells(d) PROVE PregraphFailure(d, f) = PregraphFailure(e, f)
  <2>1. SameCell(d, e, f)
    BY AlikeIsSame DEF FormulasAlike
  <2>2. SameFor(d, e, Formula(d, f))
    BY FormulaLooksSame
  <2>3. f \in CalculationCells(d)
    BY CellsAreFinite
  <2> QED BY <2>1, <2>2, <2>3, PregraphSame
<1>3. Eligible(d) = Eligible(e)
  BY <1>1, <1>2 DEF Eligible
<1>4. \A f \in Eligible(d) : DependenciesOf(NewGraph(d), f) = DependenciesOf(NewGraph(e), f)
  BY <1>1, NewDependencies DEF Eligible
<1>5. Cycles(d) = Cycles(e)
  <2> DEFINE E == Eligible(d)
             next(x) == [f \in E |-> DependenciesOf(NewGraph(x), f) \intersect E]
             all(n) == [f \in E |-> Reached(n, n[f])]
             told(n) == [f \in {f \in E : f \in all(n)[f]} |-> <<"cycle", {c \in all(n)[f] : f \in all(n)[c]}>>]
  <2>1. CycleFailures(NewGraph(d), E) = told(next(d)) /\ CycleFailures(NewGraph(e), E) = told(next(e))
    BY DEF CycleFailures
  <2>2. next(d) = next(e)
    BY <1>4
  <2> HIDE DEF told, next, E
  <2>3. CycleFailures(NewGraph(d), E) = CycleFailures(NewGraph(e), E)
    BY <2>1, <2>2
  <2> QED BY <1>3, <2>3 DEF Cycles, E
<1> QED BY <1>2, <1>3, <1>5

\* Formulas come to the same where they and what they read are alike.
LEMMA FormulasComeToTheSame ==
  ASSUME NEW d, NEW e, IsInMemory(d), IsInMemory(e), FormulasAlike(d, e),
         NEW s, NEW t, IsCalculation(d, s), IsCalculation(e, t)
  PROVE  \A c \in FormulaCells(d) : HoldsSame(s, t, c)
<1> DEFINE W == FormulaCells(d) \union UNION {Deps(d, f) : f \in FormulaCells(d)}
           L == {c \in W : ~HoldsSame(s, t, c)}
<1>1. /\ FormulaCells(d) = FormulaCells(e)
      /\ \A f \in FormulaCells(d) : Formula(d, f) = Formula(e, f) /\ Deps(d, f) = Deps(e, f)
  BY FormulasSame
<1>2. \A c \in W : SameCell(d, e, c)
  BY AlikeIsSame DEF FormulasAlike
<1>3. Eligible(d) = Eligible(e) /\ Cycles(d) = Cycles(e)
  BY FormulaPhasesSame
<1>4. \A f \in FormulaCells(d) : Deps(d, f) \subseteq W
  OBVIOUS
<1>5. L \subseteq W /\ \A c \in W \ L : HoldsSame(s, t, c)
  OBVIOUS
<1>6. ASSUME NEW c \in W, ~HoldsSame(s, t, c)
      PROVE  /\ c \in Eligible(d) \ DOMAIN Cycles(d) /\ Deps(d, c) \intersect L # {}
  <2>0. SameCell(d, e, c)
    BY <1>2, <1>6
  <2> HIDE DEF W, L
  <2>1. c \in CalculationCells(d) <=> c \in CalculationCells(e)
    BY <2>0 DEF SameCell, CalculationCells
  <2>2. c \in CalculationCells(d)
    BY <1>6, <2>1 DEF IsCalculation, Covering, HoldsSame
  <2>3. /\ IsRightAt(d, s, c) /\ IsRightAt(e, t, c)
        /\ ~(c \in DOMAIN s.values /\ c \in DOMAIN s.failures)
        /\ ~(c \in DOMAIN t.values /\ c \in DOMAIN t.failures)
    BY <2>1, <2>2 DEF IsCalculation, Covering
  <2>4. PregraphFailure(d, c) = PregraphFailure(e, c)
    <3>1. c \in FormulaCells(d) => SameFor(d, e, Formula(d, c))
      BY FormulaLooksSame
    <3> QED BY <2>0, <2>2, <3>1, PregraphSame
  <2>5. Stored(d, c) = Stored(e, c)
    BY <2>0, <2>2, CellsAreFinite DEF SameCell
  <2>6. c \in FormulaCells(d) /\ PregraphFailure(d, c) = {} /\ c \notin DOMAIN Cycles(d)
    BY <1>1, <1>3, <1>6, <2>3, <2>4, <2>5 DEF IsRightAt, HoldsSame
  <2>7. IsEvaluated(d, s, c) /\ IsEvaluated(e, t, c)
    BY <1>1, <1>3, <2>3, <2>4, <2>6 DEF IsRightAt
  <2>8. ASSUME Deps(d, c) \intersect L = {} PROVE FALSE
    <3>1. \A k \in Deps(d, c) : HoldsSame(s, t, k)
      BY <1>4, <1>5, <2>6, <2>8
    <3>2. Alike(s.values, t.values, Deps(d, c)) /\ Alike(s.failures, t.failures, Deps(d, c))
      BY <3>1 DEF Alike, HoldsSame
    <3>3. Evaluate(d, s.values, s.failures, Formula(d, c)) = Evaluate(d, t.values, t.failures, Formula(d, c))
      BY <3>2, EvaluateAlike
    <3>4. Evaluate(d, t.values, t.failures, Formula(d, c)) = Evaluate(e, t.values, t.failures, Formula(d, c))
      <4>1. SameFor(d, e, Formula(d, c))
        BY <2>6, FormulaLooksSame
      <4> QED BY <2>6, <4>1, EvaluateSameFor
    <3>5. Formula(d, c) = Formula(e, c)
      BY <1>1, <2>6
    <3>6. Evaluate(d, s.values, s.failures, Formula(d, c)) = Evaluate(e, t.values, t.failures, Formula(e, c))
      BY <3>3, <3>4, <3>5
    <3> QED BY <1>6, <2>3, <2>7, <3>6 DEF IsEvaluated, HoldsSame
  <2> QED BY <2>6, <2>8 DEF Eligible
<1>7. L = {}
  <2>1. \A c \in L : c \in Eligible(d) \ DOMAIN Cycles(d) /\ Deps(d, c) \intersect L # {}
    BY <1>6
  <2> HIDE DEF L
  <2> SUFFICES ASSUME L # {} PROVE FALSE
    OBVIOUS
  <2>2. L \subseteq Eligible(d) \ DOMAIN CycleFailures(NewGraph(d), Eligible(d))
    BY <2>1 DEF Cycles
  <2>3. Eligible(d) \subseteq FormulaCells(d)
    BY DEF Eligible
  <2>4. PICK f \in L : Deps(d, f) \intersect L = {}
    BY <2>2, <2>3, SomeIsReady
  <2> QED BY <2>1, <2>4
<1> QED BY <1>5, <1>7

\* Nothing but a formula fails in a document of sound structure.
LEMMA NumbersAreSound ==
  ASSUME NEW d, IsInMemory(d), StructureFits(d), NEW c \in CalculationCells(d) \ FormulaCells(d)
  PROVE  PregraphFailure(d, c) = {}
<1>1. /\ c \in Cells(d) /\ Kind(Stored(d, c)) = "number"
      /\ c[1] \in DOMAIN d.entities /\ c[2] \in DOMAIN d.entities[c[1]].fields
  BY CellIs DEF CalculationCells, FormulaCells
<1>2. EntityFits(d, d.entities[c[1]])
  BY <1>1 DEF StructureFits, Range
<1>3. /\ d.entities[c[1]].schema \in DOMAIN d.schemas
      /\ c[2] \in DOMAIN d.schemas[d.entities[c[1]].schema].fields
      /\ ValueFits(d, d.schemas[d.entities[c[1]].schema].fields[c[2]], Stored(d, c))
  BY <1>1, <1>2 DEF EntityFits, Entry, Stored
<1> DEFINE f == d.schemas[d.entities[c[1]].schema].fields[c[2]]
<1>4. Declaration(d, c) = {f}
  BY <1>1, <1>3, IsDeclared
<1> HIDE DEF f
<1>5. f.type = NumberType
  BY <1>1, <1>3 DEF ValueFits, NumberType, f
<1>6. StructuralReferenceFailure(d, c, TRUE) = {}
  BY <1>4, <1>5 DEF StructuralReferenceFailure
<1>7. ReferenceFailure(d, c) = {}
  BY <1>1, <1>6 DEF ReferenceFailure
<1>8. InvalidTargets(d, c) = {}
  BY <1>7 DEF InvalidTargets
<1> QED BY <1>8 DEF PregraphFailure

\* The calculation of the one fails where that of the other does.
LEMMA FailuresComeTogether ==
  ASSUME NEW d, NEW e, IsInMemory(d), IsInMemory(e), StructureFits(d), StructureFits(e), FormulasAlike(d, e),
         NEW s, NEW t, IsCalculation(d, s), IsCalculation(e, t), s.failures = <<>>
  PROVE  t.failures = <<>>
<1>1. FormulaCells(d) = FormulaCells(e)
  BY FormulasSame
<1>2. ASSUME NEW c \in DOMAIN t.failures PROVE FALSE
  <2>1. c \in CalculationCells(e) /\ c \notin DOMAIN t.values /\ IsRightAt(e, t, c)
    BY DEF IsCalculation, Covering
  <2>2. CASE c \in FormulaCells(e)
    <3>1. HoldsSame(s, t, c)
      BY <1>1, <2>2, FormulasComeToTheSame
    <3>2. c \in DOMAIN s.failures
      BY <3>1 DEF HoldsSame
    <3> QED BY <3>2
  <2>3. CASE c \notin FormulaCells(e)
    <3>1. PregraphFailure(e, c) = {}
      BY <2>1, <2>3, NumbersAreSound
    <3> QED BY <2>1, <2>3, <3>1 DEF IsRightAt
  <2> QED BY <2>2, <2>3
<1>3. IsMap(t.failures) /\ DOMAIN t.failures = {}
  BY <1>2 DEF IsCalculation, Covering
<1>4. IsMap(<<>>) /\ DOMAIN <<>> = {}
  BY DEF IsMap
<1> QED BY <1>3, <1>4, MapsEqual

-----------------------------------------------------------------------------
(* A grouped sum by its stages.                                            *)

Orders(d, x) == RowsOf(d, x.orders)
ProductOf(d, x, o) == The(Matches(d, x, o))
OperandsOf(d, x, o) == {<<o, x.quantity>>, <<ProductOf(d, x, o), x.price>>}
SumFormulas(d, x) == (UNION {OperandsOf(d, x, o) : o \in Orders(d, x)}) \intersect FormulaCells(d)
OperandIn(d, state, cell) == IF cell \in FormulaCells(d) THEN state.values[cell][2] ELSE Stored(d, cell)[2]
AmountOf(d, state, x, o) ==
  OperandIn(d, state, <<o, x.quantity>>) * OperandIn(d, state, <<ProductOf(d, x, o), x.price>>)
AmountProblem(d, state, x, o) ==
  LET category == TextProblem(d, <<ProductOf(d, x, o), x.category>>)
      quantity == NumberProblem(d, <<o, x.quantity>>)
      price == NumberProblem(d, <<ProductOf(d, x, o), x.price>>)
  IN IF category # {} THEN category
     ELSE IF quantity # {} THEN quantity
     ELSE IF price # {} THEN price
     ELSE {<<"non_finite_number", {o}>> : overflow \in {TRUE} \intersect {AmountOf(d, state, x, o) > LargestNumber}}
KeyProblems(d, x) == UNION {TextProblem(d, <<p, x.key>>) : p \in RowsOf(d, x.products)}
LookupProblems(d, x) == UNION {LookupProblem(d, x, o, Matches(d, x, o)) : o \in Orders(d, x)}
AmountProblems(d, state, x) == UNION {AmountProblem(d, state, x, o) : o \in Orders(d, x)}
CategoryOf(d, x, o) == Stored(d, <<ProductOf(d, x, o), x.category>>)
AmountsOf(d, state, x) == [o \in Orders(d, x) |-> AmountOf(d, state, x, o)]
SumsOf(d, state, x) ==
  [c \in {CategoryOf(d, x, o) : o \in Orders(d, x)} |->
     SumFunctionOnSet(AmountsOf(d, state, x), {o \in Orders(d, x) : CategoryOf(d, x, o) = c})]
SumOutcome(sums) ==
  IF Cardinality(DOMAIN sums) > MaxGroups THEN <<"unavailable", {<<"result_too_large">>}>>
  ELSE IF \E sum \in Range(sums) : sum > LargestNumber THEN <<"unavailable", {<<"non_finite_number", {}>>}>>
  ELSE <<"complete", sums>>

LEMMA GroupedSumIs ==
  ASSUME NEW d, NEW state, NEW x
  PROVE  GroupedSum(d, state, x) =
           IF x \notin d.definitions \/ ~BindingsHold(d, x) THEN <<"unavailable", {<<"invalid_definition">>}>>
           ELSE IF KeyProblems(d, x) # {} THEN <<"unavailable", KeyProblems(d, x)>>
           ELSE IF LookupProblems(d, x) # {} THEN <<"unavailable", LookupProblems(d, x)>>
           ELSE IF SumFormulas(d, x) # {} /\ state.failures # <<>> THEN <<"unavailable", {<<"formula_unavailable">>}>>
           ELSE IF AmountProblems(d, state, x) # {} THEN <<"unavailable", AmountProblems(d, state, x)>>
           ELSE SumOutcome(SumsOf(d, state, x))
  BY DEF GroupedSum, KeyProblems, LookupProblems, SumFormulas, AmountProblems, AmountProblem, SumOutcome, SumsOf,
         AmountsOf, AmountOf, CategoryOf, OperandIn, OperandsOf, ProductOf, Orders

-----------------------------------------------------------------------------
(* What the footprint of a grouped sum tells.                              *)

\* All that a grouped sum depends on is alike.
FootprintAlike(d, e, x) ==
  /\ SchemaAlike(d, e, x.orders) /\ SchemaAlike(d, e, x.products)
  /\ \A c \in SumCells(d, x) \union SumCells(e, x) : CellAlike(d, e, c)

LEMMA FootprintTells ==
  ASSUME NEW d, NEW e, NEW x, Derivable(d, x),
         SumRequirements(d, x) \ {WholeDocument} = SumRequirements(e, x) \ {WholeDocument},
         \A scope \in SumRequirements(d, x) \ {WholeDocument} : Shown(d, scope) = Shown(e, scope)
  PROVE  /\ SchemaAlike(d, e, x.orders) /\ SchemaAlike(d, e, x.products)
         /\ \A c \in SumCells(d, x) : CellAlike(d, e, c)
<1>1. x.orders \in DOMAIN d.schemas /\ x.products \in DOMAIN d.schemas
  BY DEF Derivable, Entry
<1>2. \A s \in {x.orders, x.products} : SchemaScope(s) \in SumRequirements(d, x) \ {WholeDocument}
  BY DEF SumRequirements, SchemaScope, WholeDocument
<1>3. SchemaAlike(d, e, x.orders) /\ SchemaAlike(d, e, x.products)
  BY <1>1, <1>2, SchemaTells
<1>4. ASSUME NEW c \in SumCells(d, x) PROVE CellAlike(d, e, c)
  <2>1. Declaration(d, c) # {}
    BY DEF Derivable
  <2>2. FieldScope(d, c) = <<{d.entities[c[1]].schema}, {c[1]}, {c[2]}>> /\ FieldScope(d, c) # WholeDocument
    BY <2>1, FieldScopeIs
  <2>3. FieldScope(d, c) \in SumRequirements(d, x) \ {WholeDocument}
    BY <2>2 DEF SumRequirements
  <2>4. FieldScope(d, c) \in SumRequirements(e, x)
    BY <2>3
  <2>5. PICK b : FieldScope(d, c) = FieldScope(e, b)
    <3> DEFINE scope == FieldScope(d, c)
    <3>1. scope[2] # {} /\ scope[3] # {}
      BY <2>2
    <3> HIDE DEF scope
    <3>2. /\ scope # WholeDocument
          /\ \A t : scope # SchemaScope(t)
          /\ \A t, g : scope # SchemaFieldScope(t, g)
      BY <3>1 DEF WholeDocument, SchemaScope, SchemaFieldScope
    <3>3. scope \in SumRequirements(e, x)
      BY <2>4 DEF scope
    <3>4. scope \in {FieldScope(e, b) : b \in SumCells(e, x)}
      BY <3>2, <3>3 DEF SumRequirements
    <3> QED BY <3>4 DEF scope
  <2> QED BY <2>1, <2>3, <2>5, CellTells
<1> QED BY <1>3, <1>4

LEMMA FootprintIsAlike ==
  ASSUME NEW d, NEW e, NEW x, Derivable(d, x), Derivable(e, x),
         SumRequirements(d, x) \ {WholeDocument} = SumRequirements(e, x) \ {WholeDocument},
         \A scope \in SumRequirements(d, x) \ {WholeDocument} : Shown(d, scope) = Shown(e, scope)
  PROVE  FootprintAlike(d, e, x)
<1>1. /\ SchemaAlike(d, e, x.orders) /\ SchemaAlike(d, e, x.products)
      /\ \A c \in SumCells(d, x) : CellAlike(d, e, c)
  BY FootprintTells
<1>2. \A c \in SumCells(e, x) : CellAlike(e, d, c)
  BY FootprintTells
<1> QED BY <1>1, <1>2, AlikeBack DEF FootprintAlike

LEMMA FootprintAlikeBack ==
  ASSUME NEW d, NEW e, NEW x, FootprintAlike(d, e, x)
  PROVE  FootprintAlike(e, d, x)
<1>1. \A s : SchemaAlike(d, e, s) => SchemaAlike(e, d, s)
  BY DEF SchemaAlike
<1> QED BY <1>1, AlikeBack DEF FootprintAlike

-----------------------------------------------------------------------------
(* The stages before amounts.                                              *)

LEMMA BindingsAlike ==
  ASSUME NEW d, NEW e, NEW x, FootprintAlike(d, e, x)
  PROVE  /\ BindingsHold(d, x) = BindingsHold(e, x)
         /\ Orders(d, x) = Orders(e, x) /\ RowsOf(d, x.products) = RowsOf(e, x.products)
<1> DEFINE typed(z, s, f, type) ==
             \E schema \in Entry(z.schemas, s) : \E field \in Entry(schema.fields, f) : field.type = type
<1>1. ASSUME NEW s \in {x.orders, x.products}, NEW f, NEW type
      PROVE  typed(d, s, f, type) = typed(e, s, f, type)
  <2>1. SchemaAlike(d, e, s)
    BY DEF FootprintAlike
  <2>2. Entry(d.schemas, s) = {d.schemas[s]} /\ Entry(e.schemas, s) = {e.schemas[s]}
    BY <2>1 DEF SchemaAlike, Entry
  <2>3. (\E field \in Entry(d.schemas[s].fields, f) : field.type = type)
          <=> (\E field \in Entry(e.schemas[s].fields, f) : field.type = type)
    BY <2>1 DEF SchemaAlike, Entry
  <2> QED BY <2>2, <2>3
<1>2. BindingsHold(d, x) = BindingsHold(e, x)
  <2> DEFINE hold(z) ==
        /\ typed(z, x.orders, x.lookup, TextType) /\ typed(z, x.orders, x.quantity, NumberType)
        /\ typed(z, x.products, x.key, TextType) /\ typed(z, x.products, x.category, TextType)
        /\ typed(z, x.products, x.price, NumberType)
  <2>1. BindingsHold(d, x) = hold(d) /\ BindingsHold(e, x) = hold(e)
    BY DEF BindingsHold
  <2> HIDE DEF typed
  <2>2. hold(d) = hold(e)
    BY <1>1
  <2> QED BY <2>1, <2>2
<1> QED BY <1>2 DEF FootprintAlike, SchemaAlike, Orders

LEMMA ProblemsTell ==
  ASSUME NEW d, NEW e, NEW c, StoredAt(d, c) = StoredAt(e, c)
  PROVE  TextProblem(d, c) = TextProblem(e, c) /\ NumberProblem(d, c) = NumberProblem(e, c)
  BY DEF TextProblem, NumberProblem

LEMMA MatchesAlike ==
  ASSUME NEW d, NEW e, NEW x, FootprintAlike(d, e, x), NEW o \in Orders(d, x)
  PROVE  /\ StoredAt(d, <<o, x.lookup>>) = StoredAt(e, <<o, x.lookup>>)
         /\ Matches(d, x, o) = Matches(e, x, o)
<1>0. RowsOf(d, x.products) = RowsOf(e, x.products)
  BY BindingsAlike
<1>1. StoredAt(d, <<o, x.lookup>>) = StoredAt(e, <<o, x.lookup>>)
  <2>1. <<o, x.lookup>> \in SumCells(d, x)
    BY DEF SumCells, Orders
  <2> QED BY <2>1 DEF FootprintAlike, CellAlike
<1>2. ASSUME NEW p \in RowsOf(d, x.products)
      PROVE  StoredAt(d, <<p, x.key>>) = StoredAt(e, <<p, x.key>>)
  <2>1. <<p, x.key>> \in SumCells(d, x)
    BY DEF SumCells
  <2> QED BY <2>1 DEF FootprintAlike, CellAlike
<1>3. Matches(d, x, o) = Matches(e, x, o)
  BY <1>0, <1>1, <1>2 DEF Matches
<1> QED BY <1>1, <1>3

LEMMA ProductAlike ==
  ASSUME NEW d, NEW e, NEW x, FootprintAlike(d, e, x), NEW o \in Orders(d, x)
  PROVE  ProductOf(d, x, o) = ProductOf(e, x, o)
<1> DEFINE A == Matches(d, x, o)
           B == Matches(e, x, o)
           k == <<o, x.lookup>>
<1>1. StoredAt(d, k) = StoredAt(e, k) /\ A = B
  BY MatchesAlike
<1> HIDE DEF A, B, k
<1>2. The(A) = The(B)
  BY <1>1
<1> QED BY <1>2 DEF ProductOf, A, B

LEMMA KeysAlike ==
  ASSUME NEW d, NEW e, NEW x, FootprintAlike(d, e, x)
  PROVE  /\ KeyProblems(d, x) = KeyProblems(e, x)
         /\ LookupProblems(d, x) = LookupProblems(e, x)
<1>0. Orders(d, x) = Orders(e, x) /\ RowsOf(d, x.products) = RowsOf(e, x.products)
  BY BindingsAlike
<1>1. ASSUME NEW p \in RowsOf(d, x.products) PROVE TextProblem(d, <<p, x.key>>) = TextProblem(e, <<p, x.key>>)
  <2>1. <<p, x.key>> \in SumCells(d, x)
    BY DEF SumCells
  <2> QED BY <2>1, ProblemsTell DEF FootprintAlike, CellAlike
<1>2. ASSUME NEW o \in Orders(d, x)
      PROVE  LookupProblem(d, x, o, Matches(d, x, o)) = LookupProblem(e, x, o, Matches(e, x, o))
  <2>1. StoredAt(d, <<o, x.lookup>>) = StoredAt(e, <<o, x.lookup>>) /\ Matches(d, x, o) = Matches(e, x, o)
    BY MatchesAlike
  <2>2. TextProblem(d, <<o, x.lookup>>) = TextProblem(e, <<o, x.lookup>>)
    BY <2>1, ProblemsTell
  <2> QED BY <2>1, <2>2 DEF LookupProblem
<1> QED BY <1>0, <1>1, <1>2 DEF KeyProblems, LookupProblems

\* Where every key is found, every order has its product, whose cells are required.
LEMMA ProductsAreMatched ==
  ASSUME NEW d, NEW x, LookupProblems(d, x) = {}, NEW o \in Orders(d, x)
  PROVE  /\ o \in MatchedOrders(d, x) /\ ProductOf(d, x, o) \in Matches(d, x, o)
         /\ <<o, x.quantity>> \in SumCells(d, x)
         /\ <<ProductOf(d, x, o), x.category>> \in SumCells(d, x)
         /\ <<ProductOf(d, x, o), x.price>> \in SumCells(d, x)
<1>1. LookupProblem(d, x, o, Matches(d, x, o)) = {}
  BY DEF LookupProblems
<1>2. TextProblem(d, <<o, x.lookup>>) = {} /\ Matches(d, x, o) # {} /\ Cardinality(Matches(d, x, o)) = 1
  BY <1>1 DEF LookupProblem
<1>3. o \in MatchedOrders(d, x)
  BY <1>2 DEF MatchedOrders, Orders
<1>4. ProductOf(d, x, o) \in Matches(d, x, o)
  BY <1>2 DEF ProductOf, The
<1>5. ProductOf(d, x, o) \in UNION {Matches(d, x, r) : r \in MatchedOrders(d, x)}
  BY <1>3, <1>4
<1>6. <<o, x.quantity>> \in Orders(d, x) \X {x.lookup, x.quantity}
  OBVIOUS
<1>7. /\ <<ProductOf(d, x, o), x.category>> \in
           (UNION {Matches(d, x, r) : r \in MatchedOrders(d, x)}) \X {x.category, x.price}
      /\ <<ProductOf(d, x, o), x.price>> \in
           (UNION {Matches(d, x, r) : r \in MatchedOrders(d, x)}) \X {x.category, x.price}
  BY <1>5
<1> QED BY <1>3, <1>4, <1>6, <1>7 DEF SumCells, Orders

\* Where an operand is a formula, every formula is required with what it reads.
LEMMA FormulasAreRequired ==
  ASSUME NEW d, NEW x, LookupProblems(d, x) = {}, SumFormulas(d, x) # {}
  PROVE  \A f \in FormulaCells(d) : f \in SumCells(d, x) /\ Deps(d, f) \subseteq SumCells(d, x)
<1> DEFINE matched == UNION {Matches(d, x, r) : r \in MatchedOrders(d, x)}
           operands == (MatchedOrders(d, x) \X {x.quantity}) \union (matched \X {x.price})
           calculated == IF operands \intersect FormulaCells(d) = {} THEN {} ELSE FormulaCells(d)
<1>1. PICK o \in Orders(d, x) : OperandsOf(d, x, o) \intersect FormulaCells(d) # {}
  BY DEF SumFormulas
<1>2. o \in MatchedOrders(d, x) /\ ProductOf(d, x, o) \in matched
  BY ProductsAreMatched
<1> HIDE DEF matched
<1>3. OperandsOf(d, x, o) \subseteq operands
  BY <1>2 DEF OperandsOf
<1>4. calculated = FormulaCells(d)
  BY <1>1, <1>3
<1> HIDE DEF operands, calculated
<1>5. /\ calculated \subseteq SumCells(d, x)
      /\ UNION {ExtractDependencies(d, Formula(d, c)) : c \in calculated} \subseteq SumCells(d, x)
  BY DEF SumCells, calculated, operands, matched
<1> QED BY <1>4, <1>5 DEF Deps

LEMMA SumFormulasAlike ==
  ASSUME NEW d, NEW e, NEW x, FootprintAlike(d, e, x), LookupProblems(d, x) = {}
  PROVE  /\ \A o \in Orders(d, x) : /\ CellAlike(d, e, <<o, x.quantity>>)
                                    /\ CellAlike(d, e, <<ProductOf(d, x, o), x.category>>)
                                    /\ CellAlike(d, e, <<ProductOf(d, x, o), x.price>>)
         /\ SumFormulas(d, x) = SumFormulas(e, x)
<1>1. ASSUME NEW o \in Orders(d, x)
      PROVE  /\ CellAlike(d, e, <<o, x.quantity>>)
             /\ CellAlike(d, e, <<ProductOf(d, x, o), x.category>>)
             /\ CellAlike(d, e, <<ProductOf(d, x, o), x.price>>)
  <2>1. /\ <<o, x.quantity>> \in SumCells(d, x)
        /\ <<ProductOf(d, x, o), x.category>> \in SumCells(d, x)
        /\ <<ProductOf(d, x, o), x.price>> \in SumCells(d, x)
    BY ProductsAreMatched
  <2> QED BY <2>1 DEF FootprintAlike
<1>2. ASSUME NEW o \in Orders(d, x) PROVE OperandsOf(d, x, o) = OperandsOf(e, x, o)
  <2>1. ProductOf(d, x, o) = ProductOf(e, x, o)
    BY ProductAlike
  <2> QED BY <2>1 DEF OperandsOf
<1>3. Orders(d, x) = Orders(e, x)
  BY BindingsAlike
<1>4. ASSUME NEW o \in Orders(d, x), NEW c \in OperandsOf(d, x, o)
      PROVE  c \in FormulaCells(d) <=> c \in FormulaCells(e)
  <2>1. CellAlike(d, e, c) /\ c = <<c[1], c[2]>>
    <3>1. c \in {<<o, x.quantity>>, <<ProductOf(d, x, o), x.price>>}
      BY <1>4 DEF OperandsOf
    <3>2. CASE c = <<o, x.quantity>>
      BY <1>1, <3>2
    <3>3. CASE c = <<ProductOf(d, x, o), x.price>>
      BY <1>1, <3>3
    <3> QED BY <3>1, <3>2, <3>3
  <2> QED BY <2>1, StoredTells DEF CellAlike
<1> DEFINE all(z) == UNION {OperandsOf(z, x, o) : o \in Orders(z, x)}
<1>5. all(d) = all(e)
  BY <1>2, <1>3
<1>6. \A c \in all(d) : c \in FormulaCells(d) <=> c \in FormulaCells(e)
  BY <1>4
<1>7. SumFormulas(d, x) = all(d) \intersect FormulaCells(d) /\ SumFormulas(e, x) = all(e) \intersect FormulaCells(e)
  BY DEF SumFormulas
<1> HIDE DEF all
<1>8. SumFormulas(d, x) = SumFormulas(e, x)
  BY <1>5, <1>6, <1>7
<1> QED BY <1>1, <1>8

LEMMA SumFormulasAreAlike ==
  ASSUME NEW d, NEW e, NEW x, FootprintAlike(d, e, x), LookupProblems(d, x) = {}, SumFormulas(d, x) # {},
         \A k \in EmptyColumns(d) \union EmptyColumns(e) :
           /\ k[1] \in DOMAIN d.schemas <=> k[1] \in DOMAIN e.schemas
           /\ DefinitionsOf(d, k) = DefinitionsOf(e, k)
  PROVE  FormulasAlike(d, e)
<1>1. \A f \in FormulaCells(d) : f \in SumCells(d, x) /\ Deps(d, f) \subseteq SumCells(d, x)
  BY FormulasAreRequired
<1>2. LookupProblems(e, x) = {} /\ SumFormulas(e, x) # {}
  BY KeysAlike, SumFormulasAlike
<1>3. \A f \in FormulaCells(e) : f \in SumCells(e, x) /\ Deps(e, f) \subseteq SumCells(e, x)
  BY <1>2, FormulasAreRequired
<1>4. \A c \in SumCells(d, x) \union SumCells(e, x) : CellAlike(d, e, c) /\ CellAlike(e, d, c)
  BY AlikeBack DEF FootprintAlike
<1> QED BY <1>1, <1>3, <1>4 DEF FormulasAlike

-----------------------------------------------------------------------------
(* Amounts.                                                                *)

\* What is operated on is the same in a cell that is alike, where formulas come
\* to the same.
LEMMA OperandAlike ==
  ASSUME NEW d, NEW e, NEW c, c = <<c[1], c[2]>>, CellAlike(d, e, c), StoredAt(d, c) # {}, NEW s, NEW t,
         c \in FormulaCells(d) => s.values[c] = t.values[c]
  PROVE  OperandIn(d, s, c) = OperandIn(e, t, c)
<1>1. c \in Cells(d)
  BY StoredIsCell
<1>2. /\ Stored(d, c) = Stored(e, c)
      /\ c \in FormulaCells(d) <=> c \in FormulaCells(e)
  BY <1>1, StoredTells DEF CellAlike
<1> QED BY <1>2 DEF OperandIn

LEMMA AmountAlike ==
  ASSUME NEW d, NEW e, NEW x, FootprintAlike(d, e, x), LookupProblems(d, x) = {}, NEW s, NEW t,
         \A c \in SumFormulas(d, x) : s.values[c] = t.values[c], NEW o \in Orders(d, x)
  PROVE  /\ AmountProblem(d, s, x, o) = AmountProblem(e, t, x, o)
         /\ AmountProblem(d, s, x, o) = {} => /\ AmountOf(d, s, x, o) = AmountOf(e, t, x, o)
                                             /\ CategoryOf(d, x, o) = CategoryOf(e, x, o)
<1> DEFINE p == ProductOf(d, x, o)
           q == <<o, x.quantity>>
           r == <<p, x.price>>
           k == <<p, x.category>>
<1>0. ProductOf(e, x, o) = p
  BY ProductAlike
<1>1. CellAlike(d, e, q) /\ CellAlike(d, e, k) /\ CellAlike(d, e, r)
  BY SumFormulasAlike
<1>2. q = <<q[1], q[2]>> /\ r = <<r[1], r[2]>> /\ k = <<k[1], k[2]>>
  OBVIOUS
<1>3. \A c \in {q, r} : c \in FormulaCells(d) => s.values[c] = t.values[c]
  BY DEF SumFormulas, OperandsOf
<1>4. /\ AmountOf(d, s, x, o) = OperandIn(d, s, q) * OperandIn(d, s, r)
      /\ AmountOf(e, t, x, o) = OperandIn(e, t, q) * OperandIn(e, t, r)
      /\ CategoryOf(d, x, o) = Stored(d, k) /\ CategoryOf(e, x, o) = Stored(e, k)
  BY <1>0 DEF AmountOf, CategoryOf
<1> DEFINE told(c, n, m, amount) ==
             IF c # {} THEN c ELSE IF n # {} THEN n ELSE IF m # {} THEN m
             ELSE {<<"non_finite_number", {o}>> : overflow \in {TRUE} \intersect {amount > LargestNumber}}
<1>5. /\ AmountProblem(d, s, x, o)
           = told(TextProblem(d, k), NumberProblem(d, q), NumberProblem(d, r), AmountOf(d, s, x, o))
      /\ AmountProblem(e, t, x, o)
           = told(TextProblem(e, k), NumberProblem(e, q), NumberProblem(e, r), AmountOf(e, t, x, o))
  BY <1>0 DEF AmountProblem
<1> HIDE DEF q, r, k
<1>6. /\ TextProblem(d, k) = TextProblem(e, k)
      /\ NumberProblem(d, q) = NumberProblem(e, q) /\ NumberProblem(d, r) = NumberProblem(e, r)
  BY <1>1, ProblemsTell DEF CellAlike
<1>7. ASSUME NumberProblem(d, q) = {}, NumberProblem(d, r) = {}
      PROVE  AmountOf(d, s, x, o) = AmountOf(e, t, x, o)
  <2>1. StoredAt(d, q) # {} /\ StoredAt(d, r) # {}
    BY <1>7 DEF NumberProblem
  <2>2. OperandIn(d, s, q) = OperandIn(e, t, q) /\ OperandIn(d, s, r) = OperandIn(e, t, r)
    BY <1>1, <1>2, <1>3, <2>1, OperandAlike
  <2> QED BY <1>4, <2>2
<1>8. ASSUME TextProblem(d, k) = {} PROVE CategoryOf(d, x, o) = CategoryOf(e, x, o)
  <2>1. StoredAt(d, k) # {}
    BY <1>8 DEF TextProblem
  <2>2. k \in Cells(d)
    BY <1>2, <2>1, StoredIsCell
  <2> QED BY <1>1, <1>2, <1>4, <2>2, StoredTells DEF CellAlike
<1> QED BY <1>5, <1>6, <1>7, <1>8

LEMMA SumsAlike ==
  ASSUME NEW d, NEW e, NEW x, FootprintAlike(d, e, x), LookupProblems(d, x) = {}, NEW s, NEW t,
         \A c \in SumFormulas(d, x) : s.values[c] = t.values[c]
  PROVE  /\ AmountProblems(d, s, x) = AmountProblems(e, t, x)
         /\ AmountProblems(d, s, x) = {} => SumsOf(d, s, x) = SumsOf(e, t, x)
<1>1. Orders(d, x) = Orders(e, x)
  BY BindingsAlike
<1>2. AmountProblems(d, s, x) = AmountProblems(e, t, x)
  BY <1>1, AmountAlike DEF AmountProblems
<1>3. ASSUME AmountProblems(d, s, x) = {} PROVE SumsOf(d, s, x) = SumsOf(e, t, x)
  <2>1. ASSUME NEW o \in Orders(d, x)
        PROVE  AmountOf(d, s, x, o) = AmountOf(e, t, x, o) /\ CategoryOf(d, x, o) = CategoryOf(e, x, o)
    <3>1. AmountProblem(d, s, x, o) = {}
      BY <1>3 DEF AmountProblems
    <3> QED BY <3>1, AmountAlike
  <2>2. AmountsOf(d, s, x) = AmountsOf(e, t, x)
    BY <1>1, <2>1 DEF AmountsOf
  <2> DEFINE of(z, c) == {o \in Orders(z, x) : CategoryOf(z, x, o) = c}
             categories(z) == {CategoryOf(z, x, o) : o \in Orders(z, x)}
  <2>3. categories(d) = categories(e)
    BY <1>1, <2>1
  <2>4. \A c : of(d, c) = of(e, c)
    BY <1>1, <2>1
  <2>5. /\ SumsOf(d, s, x) = [c \in categories(d) |-> SumFunctionOnSet(AmountsOf(d, s, x), of(d, c))]
        /\ SumsOf(e, t, x) = [c \in categories(e) |-> SumFunctionOnSet(AmountsOf(e, t, x), of(e, c))]
    BY DEF SumsOf
  <2> HIDE DEF categories, of
  <2> QED BY <2>2, <2>3, <2>4, <2>5
<1> QED BY <1>2, <1>3

-----------------------------------------------------------------------------

LEMMA GroupedSumAlike ==
  ASSUME NEW d, NEW e, NEW x, IsInMemory(d), IsInMemory(e), StructureFits(d), StructureFits(e),
         x \in d.definitions, x \in e.definitions, FootprintAlike(d, e, x),
         \A k \in EmptyColumns(d) \union EmptyColumns(e) :
           /\ k[1] \in DOMAIN d.schemas <=> k[1] \in DOMAIN e.schemas
           /\ DefinitionsOf(d, k) = DefinitionsOf(e, k)
  PROVE  GroupedSum(d, Rebuilt(d), x) = GroupedSum(e, Rebuilt(e), x)
<1> DEFINE s == Rebuilt(d)
           t == Rebuilt(e)
<1>1. IsCalculation(d, s) /\ IsCalculation(e, t)
  BY RebuiltIsCalculation
<1> HIDE DEF s, t
<1>2. /\ BindingsHold(d, x) = BindingsHold(e, x)
      /\ KeyProblems(d, x) = KeyProblems(e, x)
      /\ LookupProblems(d, x) = LookupProblems(e, x)
  BY BindingsAlike, KeysAlike
<1> DEFINE late(z, state) ==
             IF SumFormulas(z, x) # {} /\ state.failures # <<>> THEN <<"unavailable", {<<"formula_unavailable">>}>>
             ELSE IF AmountProblems(z, state, x) # {} THEN <<"unavailable", AmountProblems(z, state, x)>>
             ELSE SumOutcome(SumsOf(z, state, x))
<1>3. ASSUME LookupProblems(d, x) = {} PROVE late(d, s) = late(e, t)
  <2>1. SumFormulas(d, x) = SumFormulas(e, x)
    BY <1>3, SumFormulasAlike
  <2>2. SumFormulas(d, x) # {} => (s.failures = <<>> <=> t.failures = <<>>)
    <3> SUFFICES ASSUME SumFormulas(d, x) # {} PROVE s.failures = <<>> <=> t.failures = <<>>
      OBVIOUS
    <3>1. FormulasAlike(d, e)
      BY <1>3, SumFormulasAreAlike
    <3> QED BY <1>1, <3>1, FormulasAlikeBack, FailuresComeTogether
  <2>3. CASE SumFormulas(d, x) # {} /\ s.failures # <<>>
    BY <2>1, <2>2, <2>3
  <2>4. CASE ~(SumFormulas(d, x) # {} /\ s.failures # <<>>)
    <3>1. ASSUME NEW c \in SumFormulas(d, x) PROVE s.values[c] = t.values[c]
      <4>1. FormulasAlike(d, e)
        BY <1>3, <3>1, SumFormulasAreAlike
      <4>2. c \in FormulaCells(d) /\ c \in CalculationCells(d)
        BY <3>1, CellsAreFinite DEF SumFormulas
      <4>3. HoldsSame(s, t, c)
        BY <1>1, <4>1, <4>2, FormulasComeToTheSame
      <4>4. c \in DOMAIN s.values
        <5>1. DOMAIN s.failures = {}
          BY <2>4, <3>1
        <5> QED BY <1>1, <4>2, <5>1 DEF IsCalculation, Covering
      <4> QED BY <4>3, <4>4 DEF HoldsSame
    <3>2. /\ AmountProblems(d, s, x) = AmountProblems(e, t, x)
          /\ AmountProblems(d, s, x) = {} => SumsOf(d, s, x) = SumsOf(e, t, x)
      BY <1>3, <3>1, SumsAlike
    <3> QED BY <2>1, <2>2, <2>4, <3>2
  <2> QED BY <2>3, <2>4
<1>4. /\ GroupedSum(d, s, x) =
           IF x \notin d.definitions \/ ~BindingsHold(d, x) THEN <<"unavailable", {<<"invalid_definition">>}>>
           ELSE IF KeyProblems(d, x) # {} THEN <<"unavailable", KeyProblems(d, x)>>
           ELSE IF LookupProblems(d, x) # {} THEN <<"unavailable", LookupProblems(d, x)>>
           ELSE late(d, s)
      /\ GroupedSum(e, t, x) =
           IF x \notin e.definitions \/ ~BindingsHold(e, x) THEN <<"unavailable", {<<"invalid_definition">>}>>
           ELSE IF KeyProblems(e, x) # {} THEN <<"unavailable", KeyProblems(e, x)>>
           ELSE IF LookupProblems(e, x) # {} THEN <<"unavailable", LookupProblems(e, x)>>
           ELSE late(e, t)
  BY GroupedSumIs
<1> HIDE DEF late
<1>5. GroupedSum(d, s, x) = GroupedSum(e, t, x)
  BY <1>2, <1>3, <1>4
<1> QED BY <1>5 DEF s, t

LEMMA GroupedSumsKeep ==
  ASSUME IsInMemory(document), IsInMemory(document')
  PROVE  GroupedSumsKeepToFootprint
<1> SUFFICES ASSUME NEW x \in document.definitions \intersect document'.definitions,
                    StructureFits(document), StructureFits(document'),
                    Derivable(document, x), Derivable(document', x),
                    SumRequirements(document, x) \ {WholeDocument} = SumRequirements(document', x) \ {WholeDocument},
                    \A scope \in SumRequirements(document, x) \ {WholeDocument} :
                      Shown(document, scope) = Shown(document', scope),
                    \A k \in EmptyColumns(document) \union EmptyColumns(document') :
                      /\ k[1] \in DOMAIN document.schemas <=> k[1] \in DOMAIN document'.schemas
                      /\ DefinitionsOf(document, k) = DefinitionsOf(document', k)
             PROVE  GroupedSum(document, Rebuilt(document), x) = GroupedSum(document', Rebuilt(document'), x)
  BY DEF GroupedSumsKeepToFootprint
<1>1. FootprintAlike(document, document', x)
  BY FootprintIsAlike
<1> QED BY <1>1, GroupedSumAlike

-----------------------------------------------------------------------------
\* No answer depends on what its principal may not see, however the session
\* publishes. As long as a publication changes nothing under a principal's scopes,
\* every analysis answers that principal as it did, refusals included, and a
\* formula that stays explained stays explained alike; and the exact facts a
\* saved grouped sum requires are all it depends on (prepare_analysis,
\* query_formula_reasoning, keyed_grouped_sum_query_disclosures).
THEOREM AnswersStayInTheirGrant == Spec => AnswersKeepToTheirGrant
<1>1. SessionHasFormulas /\ [Next]_vars =>
        [AnalysesKeepToScope /\ ReasoningKeepsToScope /\ GroupedSumsKeepToFootprint]_vars
  <2> SUFFICES ASSUME SessionHasFormulas, NEW candidate, Publish(candidate)
               PROVE  AnalysesKeepToScope /\ ReasoningKeepsToScope /\ GroupedSumsKeepToFootprint
    BY DEF Next
  <2>1. IsInMemory(document) /\ IsInMemory(document')
    BY PublicationShowsAll DEF SessionHasFormulas
  <2> QED BY <2>1, AnalysesKeep, ReasoningKeeps, GroupedSumsKeep
<1> QED BY <1>1, SessionKeepsFormulas, PTL DEF Spec, AnswersKeepToTheirGrant

-----------------------------------------------------------------------------
(* Sums over finite sets, in whatever order they are taken.                *)

LEMMA OneLess ==
  ASSUME NEW S, IsFiniteSet(S), NEW x \in S
  PROVE  /\ IsFiniteSet(S \ {x}) /\ Cardinality(S \ {x}) = Cardinality(S) - 1
         /\ Cardinality(S) \in Nat /\ Cardinality(S \ {x}) \in Nat
         /\ Cardinality(S \ {x}) < Cardinality(S)
<1>1. IsFiniteSet(S \ {x}) /\ Cardinality(S \ {x}) = Cardinality(S) - 1
  BY FS_RemoveElement
<1>2. Cardinality(S) \in Nat /\ Cardinality(S \ {x}) \in Nat
  BY <1>1, FS_CardinalityType
<1> QED BY <1>1, <1>2

\* Induction over the subsets of a finite set, for a set of them.
LEMMA SubsetInduction ==
  ASSUME NEW S, IsFiniteSet(S), NEW G, {} \in G,
         \A T \in SUBSET S : \A x \in S \ T : T \in G => T \union {x} \in G
  PROVE  SUBSET S \subseteq G
<1> DEFINE sizes == {n \in Nat : \E T \in SUBSET S : Cardinality(T) = n /\ T \notin G}
<1> SUFFICES ASSUME NEW T \in SUBSET S, T \notin G PROVE FALSE
  OBVIOUS
<1>1. Cardinality(T) \in sizes
  BY FS_Subset, FS_CardinalityType
<1>2. PICK n \in sizes : \A m \in sizes : n <= m
  BY <1>1, LeastNat
<1>3. PICK U \in SUBSET S : Cardinality(U) = n /\ U \notin G
  BY <1>2
<1>4. PICK x \in U : TRUE
  BY <1>3
<1>5. IsFiniteSet(U) /\ n \in Nat
  BY <1>2, FS_Subset
<1>6. Cardinality(U \ {x}) \in Nat /\ Cardinality(U \ {x}) < n
  BY <1>3, <1>4, <1>5, OneLess
<1>7. U \ {x} \in SUBSET S
  BY <1>3, <1>4
<1>8. U \ {x} \in G
  BY <1>2, <1>5, <1>6, <1>7
<1>9. (U \ {x}) \union {x} \in G /\ (U \ {x}) \union {x} = U
  BY <1>4, <1>7, <1>8
<1> QED BY <1>3, <1>9

\* The sum of what is under some keys, as the library's folds take it: of one
\* key that is left, until none is.
Some(s) == CHOOSE x \in s : TRUE
Folds(t, g, S) == \A s \in SUBSET S : t[s] = IF s = {} THEN 0 ELSE g[Some(s)] + t[s \ {Some(s)}]
AreNatural(g, S) == \A x \in S : g[x] \in Nat
IsFold(t, g, S) == t \in [SUBSET S -> Nat] /\ Folds(t, g, S)

LEMMA FoldExists ==
  ASSUME NEW S, IsFiniteSet(S), NEW g, AreNatural(g, S)
  PROVE  \E t : IsFold(t, g, S)
<1> DEFINE up(n) == {s \in SUBSET S : Cardinality(s) <= n}
           IsPart(t, n) == /\ t \in [up(n) -> Nat]
                           /\ \A s \in up(n) : t[s] = IF s = {} THEN 0 ELSE g[Some(s)] + t[s \ {Some(s)}]
           N == Cardinality(S)
           G == {n \in 0 .. N : \E t : IsPart(t, n)}
<1>0. N \in Nat /\ \A s \in SUBSET S : IsFiniteSet(s) /\ Cardinality(s) \in Nat /\ Cardinality(s) <= N
  BY FS_Subset, FS_CardinalityType
<1>00. \A s \in SUBSET S : Cardinality(s) = 0 <=> s = {}
  BY <1>0, FS_EmptySet
<1>01. ASSUME NEW s \in SUBSET S, s # {}
       PROVE  Some(s) \in s /\ s \ {Some(s)} \in SUBSET S /\ Cardinality(s \ {Some(s)}) = Cardinality(s) - 1
  <2>1. Some(s) \in s
    BY <1>01 DEF Some
  <2> QED BY <1>0, <2>1, OneLess
<1>1. 0 \in G
  <2>1. up(0) = {{}}
    BY <1>0, <1>00
  <2> DEFINE u == [s \in up(0) |-> 0]
  <2>2. IsPart(u, 0)
    BY <2>1
  <2> HIDE DEF u
  <2>3. \E t : IsPart(t, 0)
    BY <2>2
  <2>4. 0 \in 0 .. N
    BY <1>0
  <2> HIDE DEF IsPart, N
  <2> QED BY <2>3, <2>4
<1>2. ASSUME NEW n \in 1 .. N, n - 1 \in G PROVE n \in G
  <2>1. PICK t : IsPart(t, n - 1)
    BY <1>2
  <2> DEFINE u == [s \in up(n) |-> IF s \in up(n - 1) THEN t[s] ELSE g[Some(s)] + t[s \ {Some(s)}]]
  <2>2. ASSUME NEW s \in up(n), s # {}
        PROVE  Some(s) \in S /\ s \ {Some(s)} \in up(n - 1) /\ g[Some(s)] \in Nat
    BY <1>0, <1>01, <2>2 DEF AreNatural
  <2>3. \A s \in up(n) : s \in up(n - 1) \/ s # {}
    BY <1>0, <1>00
  <2>4. u \in [up(n) -> Nat]
    BY <2>1, <2>2, <2>3
  <2>5. ASSUME NEW s \in up(n)
        PROVE  u[s] = IF s = {} THEN 0 ELSE g[Some(s)] + u[s \ {Some(s)}]
    <3>1. CASE s = {}
      BY <2>1, <2>3, <3>1
    <3>2. CASE s # {}
      <4>1. s \ {Some(s)} \in up(n - 1) /\ s \ {Some(s)} \in up(n)
        BY <1>0, <2>2, <3>2
      <4>2. u[s \ {Some(s)}] = t[s \ {Some(s)}]
        BY <4>1
      <4> QED BY <2>1, <3>2, <4>2
    <3> QED BY <3>1, <3>2
  <2> HIDE DEF u
  <2>6. IsPart(u, n)
    BY <2>4, <2>5
  <2> HIDE DEF IsPart
  <2>7. \E v : IsPart(v, n)
    BY <2>6
  <2> QED BY <1>0, <2>7
<1> HIDE DEF G
<1>3. N \in G
  BY <1>0, <1>1, <1>2, SegmentInduction
<1>4. PICK t : IsPart(t, N)
  BY <1>3 DEF G
<1>5. up(N) = SUBSET S
  BY <1>0
<1>6. IsFold(t, g, S)
  BY <1>4, <1>5 DEF IsFold, Folds
<1> QED BY <1>6

LEMMA FoldIsUnique ==
  ASSUME NEW S, IsFiniteSet(S), NEW g, NEW t, IsFold(t, g, S), NEW u, Folds(u, g, S)
  PROVE  u[S] = t[S]
<1> DEFINE G == {s \in SUBSET S : u[s] = t[s]}
           sizes == {n \in Nat : \E s \in SUBSET S : Cardinality(s) = n /\ s \notin G}
<1>0. \A s \in SUBSET S : IsFiniteSet(s) /\ Cardinality(s) \in Nat
  BY FS_Subset, FS_CardinalityType
<1> SUFFICES ASSUME NEW T \in SUBSET S, T \notin G PROVE FALSE
  OBVIOUS
<1>1. Cardinality(T) \in sizes
  BY <1>0
<1>2. PICK n \in sizes : \A m \in sizes : n <= m
  BY <1>1, LeastNat
<1>3. PICK s \in SUBSET S : Cardinality(s) = n /\ s \notin G
  BY <1>2
<1> DEFINE y == Some(s)
           m == Cardinality(s \ {y})
<1>4. s # {} /\ y \in s
  BY <1>3 DEF IsFold, Folds, Some
<1> HIDE DEF y
<1>5. m \in Nat /\ m < n /\ n \in Nat
  BY <1>0, <1>3, <1>4, OneLess
<1>6. s \ {y} \notin G => m \in sizes
  BY <1>5
<1>7. m \in sizes => n <= m
  BY <1>2
<1>8. s \ {y} \in G
  <2> HIDE DEF m, sizes
  <2> QED BY <1>5, <1>6, <1>7
<1>9. u[s] = g[y] + u[s \ {y}] /\ t[s] = g[y] + t[s \ {y}]
  BY <1>4 DEF IsFold, Folds, y
<1> QED BY <1>3, <1>8, <1>9

\* In whatever order the keys are taken.
IsTotal(t, g, S) ==
  /\ t \in [SUBSET S -> Nat] /\ t[{}] = 0
  /\ \A s \in SUBSET S : \A x \in s : t[s] = g[x] + t[s \ {x}]

LEMMA FoldIsTotal ==
  ASSUME NEW S, IsFiniteSet(S), NEW g, AreNatural(g, S), NEW t, IsFold(t, g, S)
  PROVE  IsTotal(t, g, S)
<1> DEFINE G == {s \in SUBSET S : \A x \in s : t[s] = g[x] + t[s \ {x}]}
           sizes == {n \in Nat : \E s \in SUBSET S : Cardinality(s) = n /\ s \notin G}
<1>0. \A s \in SUBSET S : IsFiniteSet(s) /\ Cardinality(s) \in Nat
  BY FS_Subset, FS_CardinalityType
<1>1. SUBSET S \subseteq G
  <2> SUFFICES ASSUME NEW T \in SUBSET S, T \notin G PROVE FALSE
    OBVIOUS
  <2>1. Cardinality(T) \in sizes
    BY <1>0
  <2>2. PICK n \in sizes : \A m \in sizes : n <= m
    BY <2>1, LeastNat
  <2>3. PICK s \in SUBSET S : Cardinality(s) = n /\ s \notin G
    BY <2>2
  <2>4. PICK x \in s : t[s] # g[x] + t[s \ {x}]
    BY <2>3
  <2> DEFINE y == Some(s)
  <2>5. y \in s /\ t[s] = g[y] + t[s \ {y}]
    BY <2>4 DEF IsFold, Folds, Some
  <2>6. ASSUME NEW z \in s PROVE s \ {z} \in G
    <3>1. /\ Cardinality(s \ {z}) \in Nat /\ Cardinality(s \ {z}) < n /\ n \in Nat
          /\ s \ {z} \in SUBSET S
      BY <1>0, <2>3, OneLess
    <3> DEFINE m == Cardinality(s \ {z})
    <3>2. m \in Nat /\ m < n /\ n \in Nat
      BY <3>1
    <3>3. m \in sizes => n <= m
      BY <2>2
    <3>4. s \ {z} \notin G => m \in sizes
      BY <3>1
    <3> HIDE DEF m, sizes, G
    <3> QED BY <3>2, <3>3, <3>4
  <2> HIDE DEF y
  <2>7. x # y /\ x \in s \ {y} /\ y \in s \ {x}
    BY <2>4, <2>5
  <2>8. /\ t[s \ {y}] = g[x] + t[(s \ {y}) \ {x}]
        /\ t[s \ {x}] = g[y] + t[(s \ {x}) \ {y}]
    BY <2>4, <2>5, <2>6, <2>7
  <2>9. (s \ {y}) \ {x} = (s \ {x}) \ {y}
    OBVIOUS
  <2>10. g[x] \in Nat /\ g[y] \in Nat /\ t[(s \ {x}) \ {y}] \in Nat
    BY <2>4, <2>5 DEF IsFold, Folds, AreNatural
  <2> DEFINE r == t[(s \ {x}) \ {y}]
             a == g[x]
             b == g[y]
  <2>11. t[s] = b + (a + r) /\ t[s \ {x}] = b + r /\ t[s] # a + t[s \ {x}]
    BY <2>4, <2>5, <2>8, <2>9
  <2>12. a \in Nat /\ b \in Nat /\ r \in Nat
    BY <2>10
  <2> HIDE DEF a, b, r
  <2> QED BY <2>11, <2>12
<1>2. t[{}] = 0
  BY DEF IsFold, Folds
<1> QED BY <1>1, <1>2 DEF IsFold, Folds, IsTotal

\* The library's sums are such folds.
LEMMA SumFunctionIs ==
  ASSUME NEW S, IsFiniteSet(S), NEW g, AreNatural(g, S)
  PROVE  \E t : IsTotal(t, g, S) /\ SumFunctionOnSet(g, S) = t[S]
<1> DEFINE Iter(t) == t = [s \in SUBSET S |-> IF s = {} THEN 0
                                              ELSE g[CHOOSE x \in s : TRUE] + t[s \ {CHOOSE x \in s : TRUE}]]
           it == CHOOSE t : Iter(t)
<1>1. PICK t : IsFold(t, g, S)
  BY FoldExists
<1>2. Iter(t)
  BY <1>1 DEF IsFold, Folds, Some
<1>3. Iter(it)
  BY <1>2
<1>4. SumFunctionOnSet(g, S) = it[S]
  BY DEF SumFunctionOnSet, FoldFunctionOnSet, MapThenFoldSet
<1>5. Folds(it, g, S)
  BY <1>3 DEF Folds, Some
<1> HIDE DEF it
<1>6. it[S] = t[S]
  BY <1>1, <1>5, FoldIsUnique
<1> QED BY <1>1, <1>4, <1>6, FoldIsTotal

-----------------------------------------------------------------------------
(* What a calculation comes to is a number.                                *)

\* A set that a set maps onto is finite with it.
LEMMA ImageIsFinite ==
  ASSUME NEW S, IsFiniteSet(S), NEW g, NEW T, \A y \in T : \E x \in S : y = g[x]
  PROVE  IsFiniteSet(T)
<1> DEFINE f == [x \in S |-> g[x]]
           U == {g[x] : x \in S}
<1>1. f \in Surjection(S, U)
  BY DEF Surjection
<1>2. T \in SUBSET U
  OBVIOUS
<1> HIDE DEF f, U
<1>3. IsFiniteSet(U)
  BY <1>1, FS_Surjection
<1> QED BY <1>2, <1>3, FS_Subset

\* Of finitely many numbers one is the greatest.
LEMMA MaxIs ==
  ASSUME NEW S \in SUBSET Nat, IsFiniteSet(S), S # {}
  PROVE  Max(S) \in S /\ \A n \in S : n <= Max(S)
<1> DEFINE G == {T \in SUBSET S : T # {} => \E n \in T : \A m \in T : n >= m}
<1>1. {} \in G
  OBVIOUS
<1>2. ASSUME NEW T \in SUBSET S, NEW x \in S \ T, T \in G PROVE T \union {x} \in G
  <2>1. CASE T = {}
    <3>1. T \union {x} = {x} /\ x >= x
      BY <2>1
    <3> QED BY <3>1
  <2>2. CASE T # {}
    <3>1. PICK n \in T : \A m \in T : n >= m
      BY <1>2, <2>2
    <3>2. CASE n >= x
      <4>1. \A m \in T \union {x} : n >= m
        BY <3>1, <3>2
      <4> QED BY <4>1
    <3>3. CASE ~(n >= x)
      <4>1. \A m \in T \union {x} : x >= m
        BY <3>1, <3>3
      <4> QED BY <4>1
    <3> QED BY <3>2, <3>3
  <2> QED BY <2>1, <2>2
<1> HIDE DEF G
<1>3. SUBSET S \subseteq G
  BY <1>1, <1>2, SubsetInduction
<1>4. \E n \in S : \A m \in S : n >= m
  BY <1>3 DEF G
<1>5. Max(S) \in S /\ \A m \in S : Max(S) >= m
  BY <1>4 DEF Max
<1>6. \A n \in S : Max(S) >= n => n <= Max(S)
  BY <1>5
<1> QED BY <1>5, <1>6

\* A number, or a failure.
IsNumber(v) == \E n \in Nat : v = NumberValue(n)

LEMMA IsNumberIs ==
  ASSUME NEW n \in Nat
  PROVE  IsNumber(NumberValue(n))
BY DEF IsNumber

LEMMA NumberIs ==
  ASSUME NEW v, IsNumber(v)
  PROVE  v[2] \in Nat /\ v = NumberValue(v[2]) /\ Kind(v) = "number"
BY DEF IsNumber, NumberValue, Kind

LEMMA ReadIs ==
  ASSUME NEW values, NEW c, c \in DOMAIN values => IsNumber(values[c])
  PROVE  Read(values, c) \in Nat
BY NumberIs DEF Read

\* What is read of a row's columns is finite.
LEMMA ReadIsFinite ==
  ASSUME NEW d, IsInMemory(d), NEW x, IsParsed(x)
  PROVE  /\ IsFiniteSet(UNION {ColumnCells(d, k) : k \in x.columns})
         /\ IsFiniteSet(x.cells)
         /\ IsFiniteSet(UNION {Slots(d, k) : k \in x.columns})
<1>1. UNION {ColumnCells(d, k) : k \in x.columns} \in SUBSET Cells(d) /\ IsFiniteSet(Cells(d))
  BY DEF ColumnCells, IsInMemory
<1> DEFINE columns == {k[2] : k \in x.columns}
           second == [k \in x.columns |-> k[2]]
<1>2. IsFiniteSet(columns)
  <2>1. columns = {second[k] : k \in x.columns}
    OBVIOUS
  <2> HIDE DEF columns, second
  <2> QED BY <2>1, ImageIsFinite DEF IsParsed
<1> HIDE DEF columns
<1>3. UNION {Slots(d, k) : k \in x.columns} \in SUBSET ((DOMAIN d.entities) \X columns)
  BY DEF Slots, columns
<1>4. IsFiniteSet((DOMAIN d.entities) \X columns)
  BY <1>2, FS_Product DEF IsInMemory
<1> QED BY <1>1, <1>3, <1>4, FS_Subset DEF IsParsed

\* A formula comes to a number where what it reads are numbers.
LEMMA EvaluatesToNumber ==
  ASSUME NEW d, IsInMemory(d), NEW x, IsParsed(x), NEW v, NEW u,
         \A c \in ReadBy(d, x) \intersect DOMAIN v : IsNumber(v[c]),
         Kind(Evaluate(d, v, u, x)) = "number"
  PROVE  IsNumber(Evaluate(d, v, u, x))
<1> DEFINE tested == \E c \in x.test : c[1] \in DOMAIN d.entities /\ c \notin Cells(d)
           chosen == IF tested THEN {} ELSE x.cells
           present == UNION {ColumnCells(d, k) : k \in x.columns}
           firsts(kept) == {First(ColumnCells(d, k) \intersect kept) :
                              k \in {k \in x.columns : ColumnCells(d, k) \intersect kept # {}}}
           failed == (chosen \intersect DOMAIN u) \union firsts(DOMAIN u)
           missing == {c \in chosen : ~Readable(d, v, c)}
                        \union (IF x.op = "blanks" THEN {} ELSE firsts(Cells(d) \ DOMAIN v))
           blanks == (UNION {Slots(d, k) : k \in x.columns}) \ Cells(d)
           greatest == Max({Read(v, c) : c \in present})
           sum == SumOf(v, chosen \union present)
           result == Evaluate(d, v, u, x)
<1>1. result =
        IF failed # {} THEN <<"failed_dependencies", failed>>
        ELSE IF missing # {} THEN <<"failed_dependencies", {First(missing)}>>
        ELSE IF x.op = "maximum" /\ \E k \in x.columns : ColumnCells(d, k) = {} THEN <<"empty_aggregate">>
        ELSE IF x.op = "ratio" /\ \E c \in chosen : Read(v, c) = 0 THEN <<"division_by_zero">>
        ELSE IF x.op = "ratio" THEN NumberValue(1)
        ELSE IF x.op = "maximum" THEN NumberValue(greatest)
        ELSE IF x.op = "blanks" THEN NumberValue(Cardinality(blanks))
        ELSE NumberValue(sum)
  BY DEF Evaluate
<1>2. chosen \union present \subseteq ReadBy(d, x) /\ chosen \subseteq x.cells
  BY DEF ReadBy
<1>3. \A c \in ReadBy(d, x) : Read(v, c) \in Nat
  BY ReadIs
<1>4. IsFiniteSet(present) /\ IsFiniteSet(chosen)
  <2>1. IsFiniteSet(present) /\ IsFiniteSet(x.cells)
    BY ReadIsFinite
  <2>2. chosen \in SUBSET x.cells
    OBVIOUS
  <2> HIDE DEF chosen, present
  <2> QED BY <2>1, <2>2, FS_Subset
<1>5. Cardinality(blanks) \in Nat
  <2>1. IsFiniteSet(UNION {Slots(d, k) : k \in x.columns})
    BY ReadIsFinite
  <2>2. blanks \in SUBSET UNION {Slots(d, k) : k \in x.columns}
    OBVIOUS
  <2> HIDE DEF blanks
  <2> QED BY <2>1, <2>2, FS_Subset, FS_CardinalityType
<1>6. ASSUME x.op = "maximum", ~(\E k \in x.columns : ColumnCells(d, k) = {})
      PROVE  greatest \in Nat
  <2> DEFINE read == [c \in present |-> Read(v, c)]
             numbers == {read[c] : c \in present}
  <2>1. present # {}
    BY <1>6 DEF IsParsed
  <2>2. numbers = {Read(v, c) : c \in present}
    OBVIOUS
  <2>3. numbers \in SUBSET Nat /\ numbers # {}
    BY <1>2, <1>3, <2>1
  <2> HIDE DEF read, present
  <2>4. IsFiniteSet(numbers)
    BY <1>4, ImageIsFinite
  <2>5. greatest = Max(numbers)
    BY <2>2
  <2> HIDE DEF numbers, greatest
  <2> QED BY <2>3, <2>4, <2>5, MaxIs
<1>7. sum \in Nat
  <2> DEFINE cells == chosen \union present
             g == [c \in cells |-> Read(v, c)]
  <2>1. IsFiniteSet(cells)
    BY <1>4, FS_Union
  <2>2. AreNatural(g, cells)
    BY <1>2, <1>3 DEF AreNatural
  <2>3. sum = SumFunctionOnSet(g, cells)
    BY DEF SumOf, SumFunction, SumFunctionOnSet
  <2> HIDE DEF cells, g, sum
  <2>4. PICK t : IsTotal(t, g, cells) /\ SumFunctionOnSet(g, cells) = t[cells]
    BY <2>1, <2>2, SumFunctionIs
  <2> QED BY <2>3, <2>4 DEF IsTotal
<1> HIDE DEF failed, missing, blanks, greatest, sum, result, chosen, present
<1>8. CASE failed # {} \/ missing # {}
  BY <1>1, <1>8 DEF Kind, result
<1>9. CASE failed = {} /\ missing = {}
  <2>1. IsNumber(NumberValue(1)) /\ IsNumber(NumberValue(Cardinality(blanks))) /\ IsNumber(NumberValue(sum))
    BY <1>5, <1>7, IsNumberIs
  <2>2. CASE x.op = "maximum"
    <3>1. CASE \E k \in x.columns : ColumnCells(d, k) = {}
      BY <1>1, <1>9, <2>2, <3>1 DEF Kind, result
    <3>2. CASE ~(\E k \in x.columns : ColumnCells(d, k) = {})
      <4>1. IsNumber(NumberValue(greatest))
        BY <1>6, <2>2, <3>2, IsNumberIs
      <4> QED BY <1>1, <1>9, <2>2, <3>2, <4>1 DEF result
    <3> QED BY <3>1, <3>2
  <2>3. CASE x.op # "maximum"
    <3>1. CASE x.op = "ratio" /\ \E c \in chosen : Read(v, c) = 0
      BY <1>1, <1>9, <2>3, <3>1 DEF Kind, result
    <3>2. CASE ~(x.op = "ratio" /\ \E c \in chosen : Read(v, c) = 0)
      BY <1>1, <1>9, <2>1, <2>3, <3>2 DEF result
    <3> QED BY <3>1, <3>2
  <2> QED BY <2>2, <2>3
<1> QED BY <1>8, <1>9

\* Every value of a calculation is a number.
LEMMA ValuesAreNumbers ==
  ASSUME NEW d, IsInMemory(d), NEW s, IsCalculation(d, s)
  PROVE  \A c \in DOMAIN s.values : IsNumber(s.values[c])
<1> DEFINE L == {c \in DOMAIN s.values : ~IsNumber(s.values[c])}
<1>1. ASSUME NEW c \in L
      PROVE  /\ c \in Eligible(d) \ DOMAIN Cycles(d) /\ Deps(d, c) \intersect L # {}
  <2>1. /\ IsRightAt(d, s, c) /\ c \in CalculationCells(d)
        /\ c \in DOMAIN s.values /\ c \notin DOMAIN s.failures /\ ~IsNumber(s.values[c])
    BY DEF IsCalculation, Covering
  <2> HIDE DEF L
  <2>2. c \in FormulaCells(d)
    <3> SUFFICES ASSUME c \notin FormulaCells(d) PROVE FALSE
      OBVIOUS
    <3>1. s.values[c] = Stored(d, c)
      BY <2>1 DEF IsRightAt
    <3>2. c \in Cells(d) /\ Kind(Stored(d, c)) = "number"
      BY <2>1 DEF CalculationCells, FormulaCells
    <3>3. Stored(d, c)[2] \in Nat /\ Stored(d, c) = <<Stored(d, c)[1], Stored(d, c)[2]>>
      BY <3>2 DEF IsInMemory
    <3>4. Stored(d, c) = NumberValue(Stored(d, c)[2])
      BY <3>2, <3>3 DEF NumberValue, Kind
    <3> QED BY <2>1, <3>1, <3>3, <3>4, IsNumberIs
  <2>3. PregraphFailure(d, c) = {} /\ c \notin DOMAIN Cycles(d) /\ IsEvaluated(d, s, c)
    BY <2>1, <2>2 DEF IsRightAt
  <2>4. ASSUME Deps(d, c) \intersect L = {} PROVE FALSE
    <3> DEFINE x == Formula(d, c)
    <3>1. ReadBy(d, x) \subseteq Deps(d, c)
      BY DEF ReadBy, Deps, ExtractDependencies, DirectReferences, ColumnCells
    <3>2. IsParsed(x)
      BY <2>2 DEF IsInMemory
    <3>3. \A k \in Deps(d, c) \intersect DOMAIN s.values : IsNumber(s.values[k])
      BY <2>4 DEF L
    <3>4. s.values[c] = Evaluate(d, s.values, s.failures, x) /\ Kind(Evaluate(d, s.values, s.failures, x)) = "number"
      BY <2>1, <2>3 DEF IsEvaluated
    <3> HIDE DEF x
    <3>5. IsNumber(Evaluate(d, s.values, s.failures, x))
      BY <3>1, <3>2, <3>3, <3>4, EvaluatesToNumber
    <3> QED BY <2>1, <3>4, <3>5
  <2> QED BY <2>2, <2>3, <2>4 DEF Eligible
<1> HIDE DEF L
<1>2. L = {}
  <2> SUFFICES ASSUME L # {} PROVE FALSE
    OBVIOUS
  <2>1. L \subseteq Eligible(d) \ DOMAIN CycleFailures(NewGraph(d), Eligible(d))
    BY <1>1 DEF Cycles
  <2>2. Eligible(d) \subseteq FormulaCells(d)
    BY DEF Eligible
  <2>3. PICK f \in L : Deps(d, f) \intersect L = {}
    BY <2>1, <2>2, SomeIsReady
  <2> QED BY <1>1, <2>3
<1> QED BY <1>2 DEF L

-----------------------------------------------------------------------------
(* Rows counted, and their numbers compared, part by part.                 *)

\* The parts of some rows by a key add up to the rows.
LEMMA PartsAddUp ==
  ASSUME NEW R, IsFiniteSet(R), NEW K, IsFiniteSet(K), NEW k, \A e \in R : k[e] \in K,
         NEW g, g = [x \in K |-> Cardinality({e \in R : k[e] = x})],
         NEW t, IsTotal(t, g, K)
  PROVE  t[K] = Cardinality(R)
<1> DEFINE in(T) == {e \in R : k[e] \in T}
           G == {T \in SUBSET K : t[T] = Cardinality(in(T))}
<1>2. {} \in G
  <2>1. in({}) = {}
    OBVIOUS
  <2> HIDE DEF in
  <2> QED BY <2>1, FS_EmptySet DEF IsTotal
<1>3. ASSUME NEW T \in SUBSET K, NEW x \in K \ T, T \in G PROVE T \union {x} \in G
  <2> DEFINE U == T \union {x}
             part == {e \in R : k[e] = x}
  <2>1. t[U] = g[x] + t[U \ {x}] /\ U \ {x} = T
    BY <1>3 DEF IsTotal
  <2>2. in(U) = in(T) \union part /\ in(T) \intersect part = {}
    BY <1>3
  <2>3. IsFiniteSet(in(T)) /\ IsFiniteSet(part)
    BY FS_Subset
  <2>4. g[x] = Cardinality(part) /\ t[T] = Cardinality(in(T)) /\ U \in SUBSET K
    BY <1>3
  <2> HIDE DEF in, part
  <2>5. Cardinality(in(T) \union part) = Cardinality(in(T)) + Cardinality(part) - Cardinality({})
    BY <2>2, <2>3, FS_Union
  <2>6. Cardinality(in(T)) \in Nat /\ Cardinality(part) \in Nat /\ Cardinality({}) = 0
    BY <2>3, FS_CardinalityType, FS_EmptySet
  <2> DEFINE a == Cardinality(in(T))
             b == Cardinality(part)
             c == Cardinality({})
  <2>7. Cardinality(in(U)) = a + b - c /\ t[U] = b + a
    BY <2>1, <2>2, <2>4, <2>5
  <2>8. a \in Nat /\ b \in Nat /\ c = 0
    BY <2>6
  <2> HIDE DEF a, b, c
  <2>9. t[U] = Cardinality(in(U))
    BY <2>7, <2>8
  <2> QED BY <2>4, <2>9
<1> HIDE DEF G
<1>4. K \in G
  <2>0. \A T \in SUBSET K : \A x \in K \ T : T \in G => T \union {x} \in G
    BY <1>3
  <2>1. SUBSET K \subseteq G
    BY <1>2, <2>0, SubsetInduction
  <2> QED BY <2>1
<1>5. in(K) = R
  OBVIOUS
<1> QED BY <1>4, <1>5 DEF G

\* The rows with a key, whether every row has one, and the greatest of their numbers.
PartAt(k, rows, x) == {e \in rows : k[e] = x}
AreKeys(k, rows, K) == (\A e \in rows : k[e] \in K) /\ \A x \in K : PartAt(k, rows, x) # {}
TopOf(n, rows) == Max({n[e] : e \in rows})
OnlyTop(n, rows) == {TopOf(n, rows)}
AreTops(m, n, k, rows, K) == \A x \in K : m[x] = TopOf(n, PartAt(k, rows, x))

\* The greatest number of some rows is the greatest of their parts' greatest.
LEMMA MaxOfParts ==
  ASSUME NEW R, IsFiniteSet(R), R # {}, NEW n \in [R -> Nat],
         NEW K, IsFiniteSet(K), NEW k, AreKeys(k, R, K), NEW m, AreTops(m, n, k, R, K)
  PROVE  TopOf(m, K) = TopOf(n, R)
<1> DEFINE of(x) == {e \in R : k[e] = x}
           numbers(T) == {n[e] : e \in T}
           tops == {m[x] : x \in K}
           all == numbers(R)
<1>1. ASSUME NEW T \in SUBSET R, T # {}
      PROVE  Max(numbers(T)) \in numbers(T) /\ \A e \in T : n[e] <= Max(numbers(T))
  <2>1. numbers(T) \in SUBSET Nat /\ numbers(T) # {}
    BY <1>1
  <2>2. IsFiniteSet(numbers(T))
    <3>1. IsFiniteSet(T)
      BY FS_Subset
    <3> QED BY <3>1, ImageIsFinite
  <2>3. \A e \in T : n[e] \in numbers(T)
    OBVIOUS
  <2> HIDE DEF numbers
  <2> QED BY <2>1, <2>2, <2>3, MaxIs
<1>2. \A x \in K : m[x] = Max(numbers(of(x))) /\ of(x) # {} /\ of(x) \in SUBSET R
  BY DEF AreKeys, AreTops, PartAt, TopOf
<1>3. \A x \in K : m[x] \in numbers(of(x)) /\ \A e \in of(x) : n[e] <= m[x]
  <2> HIDE DEF numbers, of
  <2> QED BY <1>1, <1>2
<1>4. \A x \in K : m[x] \in all
  BY <1>2, <1>3
<1>0. \A e \in R : k[e] \in K
  BY DEF AreKeys
<1>5. all \in SUBSET Nat /\ K # {}
  BY <1>0
<1>6. tops \in SUBSET Nat /\ tops # {}
  <2> HIDE DEF all
  <2> QED BY <1>4, <1>5
<1>7. IsFiniteSet(tops)
  <2>2. \A y \in tops : \E x \in K : y = m[x]
    OBVIOUS
  <2> HIDE DEF tops
  <2> QED BY <2>2, ImageIsFinite
<1>8. Max(tops) \in tops /\ \A y \in tops : y <= Max(tops)
  <2> HIDE DEF tops
  <2> QED BY <1>6, <1>7, MaxIs
<1>9. Max(all) \in all /\ \A e \in R : n[e] <= Max(all)
  BY <1>1
<1>10. \A y \in all : y <= Max(all)
  BY <1>9
<1>11. \A e \in R : k[e] \in K /\ e \in of(k[e]) /\ m[k[e]] \in tops
  BY <1>0
<1>12. \A e \in R : n[e] <= m[k[e]] /\ m[k[e]] <= Max(tops)
  <2> HIDE DEF of, tops
  <2> QED BY <1>3, <1>8, <1>11
<1>13. Max(tops) <= Max(all)
  <2>1. tops \subseteq all
    BY <1>4
  <2> HIDE DEF tops, all
  <2> QED BY <1>8, <1>10, <2>1
<1>14. Max(all) <= Max(tops)
  <2>1. PICK e \in R : Max(all) = n[e]
    BY <1>9
  <2>2. n[e] \in Nat /\ m[k[e]] \in Nat /\ Max(tops) \in Nat
    BY <1>6, <1>8, <1>11
  <2> DEFINE p == Max(tops)
             q == m[k[e]]
  <2>3. n[e] <= q /\ q <= p /\ Max(all) = n[e]
    BY <1>12, <2>1
  <2> HIDE DEF p, q, all
  <2>4. Max(all) <= p
    BY <2>2, <2>3 DEF p, q
  <2> QED BY <2>4 DEF p, all
<1>15. Max(tops) \in Nat /\ Max(all) \in Nat
  BY <1>5, <1>6, <1>8, <1>9
<1>16. Max(tops) = Max(all)
  <2> HIDE DEF tops, all
  <2> QED BY <1>13, <1>14, <1>15
<1> QED BY <1>16 DEF TopOf

-----------------------------------------------------------------------------
(* An analysis with its groups, and without.                               *)

SameButGroup(q, w) ==
  /\ w.schema = q.schema /\ w.narrowing = q.narrowing /\ w.predicates = q.predicates
  /\ w.results = q.results /\ w.group = {}

LEMMA UngroupedIs ==
  ASSUME NEW definition, IsAsked(Normalized(definition)),
         NEW other, other = [definition EXCEPT !.group = {}]
  PROVE  /\ SameButGroup(Normalized(definition), Normalized(other))
         /\ Normalized(definition).group = definition.group
         /\ EnvelopeError(other) = EnvelopeError(definition)
<1>1. DOMAIN definition = {"schema", "narrowing", "predicates", "group", "results"}
  BY DEF IsAsked, IsRecord, Normalized
<1>2. /\ other.schema = definition.schema /\ other.narrowing = definition.narrowing
      /\ other.predicates = definition.predicates /\ other.results = definition.results /\ other.group = {}
      /\ DOMAIN other = DOMAIN definition
  BY <1>1
<1>3. EnvelopeError(other) = EnvelopeError(definition)
  BY <1>2 DEF EnvelopeError
<1>4. \A x : DOMAIN x = DOMAIN definition =>
        /\ Normalized(x).schema = x.schema /\ Normalized(x).group = x.group
        /\ Normalized(x).narrowing = {ToSet(ids) : ids \in x.narrowing}
        /\ Normalized(x).predicates = ToSet(x.predicates) /\ Normalized(x).results = ToSet(x.results)
  BY <1>1 DEF Normalized
<1>5. SameButGroup(Normalized(definition), Normalized(other))
  BY <1>2, <1>4 DEF SameButGroup
<1> QED BY <1>3, <1>4, <1>5

LEMMA DomainSame ==
  ASSUME NEW d, NEW q, NEW w, SameButGroup(q, w)
  PROVE  /\ CandidateRows(d, w) = CandidateRows(d, q) /\ DomainFailure(d, w) = DomainFailure(d, q)
         /\ FormulaRoots(d, w) = FormulaRoots(d, q)
<1>1. CandidateRows(d, w) = CandidateRows(d, q)
  BY DEF CandidateRows, SameButGroup
<1>2. Strays(d, w) = Strays(d, q)
  BY <1>1 DEF Strays, SameButGroup
<1>3. DomainFailure(d, w) = DomainFailure(d, q)
  BY <1>2 DEF DomainFailure, SameButGroup
<1>4. CalculatedFields(w) = CalculatedFields(q)
  BY DEF CalculatedFields, SameButGroup
<1> QED BY <1>1, <1>3, <1>4 DEF FormulaRoots

\* What does not fit of a request, and the failure it is.
UnfitPredicates(fields, q) ==
  {p \in q.predicates : p[1] \in DOMAIN fields => ~PredicateFits(fields[p[1]].type, p)}
UnfitFields(fields, q) == {p[1] : p \in UnfitPredicates(fields, q)}
UnfitMetrics(fields, q) ==
  {r \in q.results : \E f \in r[2] : f \in DOMAIN fields => fields[f].type # NumberType}
UnfitPlaces(fields, q) ==
  {m \in UNION {{i} \X r[2] : i \in DOMAIN ResultKinds, r \in UnfitMetrics(fields, q)} :
      <<ResultKinds[m[1]], {m[2]}>> \in q.results}
RoleFailure(fields, role, f) ==
  {<<IF f \in DOMAIN fields THEN "invalid_type" ELSE "unresolved_field", role, f>>}
FirstUnfit(fields, predicates, group, requested) ==
  IF predicates # {} THEN RoleFailure(fields, "predicate", Min(predicates))
  ELSE IF ~(group \subseteq DOMAIN fields) THEN RoleFailure(fields, "group", The(group))
  ELSE IF requested # {} THEN RoleFailure(fields, "metric", First(requested)[2])
  ELSE {}

LEMMA TargetFailureIs ==
  ASSUME NEW d, NEW q, NEW fields, fields = d.schemas[q.schema].fields
  PROVE  TargetFailure(d, q) = FirstUnfit(fields, UnfitFields(fields, q), q.group, UnfitPlaces(fields, q))
<1>1. TargetFailure(d, q) = FirstUnfit(d.schemas[q.schema].fields, UnfitFields(d.schemas[q.schema].fields, q),
                                       q.group, UnfitPlaces(d.schemas[q.schema].fields, q))
  BY SMT DEF TargetFailure, FirstUnfit, RoleFailure, UnfitPredicates, UnfitFields, UnfitMetrics, UnfitPlaces
<1> QED BY <1>1

LEMMA TargetSame ==
  ASSUME NEW d, NEW q, NEW w, SameButGroup(q, w), TargetFailure(d, q) = {}
  PROVE  TargetFailure(d, w) = {}
<1> DEFINE fields == d.schemas[q.schema].fields
<1>1. fields = d.schemas[w.schema].fields
  BY DEF SameButGroup
<1>2. UnfitFields(fields, w) = UnfitFields(fields, q) /\ UnfitPlaces(fields, w) = UnfitPlaces(fields, q)
  <2>1. w.results = q.results
    BY DEF SameButGroup
  <2>2. UnfitPredicates(fields, w) = UnfitPredicates(fields, q) /\ UnfitMetrics(fields, w) = UnfitMetrics(fields, q)
    BY DEF SameButGroup, UnfitPredicates, UnfitMetrics
  <2> QED BY <2>1, <2>2 DEF UnfitFields, UnfitPlaces
<1> HIDE DEF fields
<1>3. FirstUnfit(fields, UnfitFields(fields, q), q.group, UnfitPlaces(fields, q)) = {}
  BY TargetFailureIs DEF fields
<1>4. FirstUnfit(fields, UnfitFields(fields, w), w.group, UnfitPlaces(fields, w)) = {}
  <2>1. w.group = {}
    BY DEF SameButGroup
  <2> QED BY <1>2, <1>3, <2>1 DEF FirstUnfit, RoleFailure
<1> QED BY <1>1, <1>4, TargetFailureIs

LEMMA VerdictSame ==
  ASSUME NEW d, NEW q, NEW w, SameButGroup(q, w), NEW s, NEW e
  PROVE  RowVerdict(d, w, s, e) = RowVerdict(d, q, s, e)
<1>1. \A cell : CalculationFailed(d, w, s, cell) = CalculationFailed(d, q, s, cell)
  BY DomainSame DEF CalculationFailed
<1>2. \A p : Verdict(d, w, s, e, p) = Verdict(d, q, s, e, p)
  BY <1>1 DEF Verdict
<1> DEFINE open(x) == {p \in x.predicates : Verdict(d, x, s, e, p) # <<"holds">>}
           first(set) == CHOOSE p \in set : \A other \in set : p[1] <= other[1]
<1>3. open(w) = open(q)
  BY <1>2 DEF SameButGroup
<1>4. \A x : RowVerdict(d, x, s, e) = IF open(x) = {} THEN <<"holds">> ELSE Verdict(d, x, s, e, first(open(x)))
  BY DEF RowVerdict
<1> HIDE DEF open, first
<1> QED BY <1>2, <1>3, <1>4

LEMMA SelectionSame ==
  ASSUME NEW d, NEW q, NEW w, SameButGroup(q, w), NEW s
  PROVE  /\ Selected(d, w, s) = Selected(d, q, s)
         /\ SelectionFailure(d, w, s) = SelectionFailure(d, q, s)
<1>1. CandidateRows(d, w) = CandidateRows(d, q) /\ \A e : RowVerdict(d, w, s, e) = RowVerdict(d, q, s, e)
  BY DomainSame, VerdictSame
<1>2. Selected(d, w, s) = Selected(d, q, s)
  BY <1>1 DEF Selected
<1> DEFINE numeric(x) ==
             {c \in (CandidateRows(d, x) \X {p[1] : p \in x.predicates}) \intersect FormulaCells(d) :
                /\ d.schemas[x.schema].fields[c[2]].type = NumberType
                /\ CalculatedNumber(s, c) = {}}
           failing(x) == {e \in CandidateRows(d, x) : RowVerdict(d, x, s, e)[1] \notin {"holds", "differs"}}
<1>3. numeric(w) = numeric(q)
  BY <1>1 DEF SameButGroup
<1>4. failing(w) = failing(q)
  BY <1>1
<1>5. \A x : SelectionFailure(d, x, s) =
               IF numeric(x) # {} THEN {CalculationFailed(d, x, s, First(numeric(x)))}
               ELSE IF failing(x) # {} THEN {RowVerdict(d, x, s, Min(failing(x)))}
               ELSE {}
  BY DEF SelectionFailure
<1>6. \A cell : CalculationFailed(d, w, s, cell) = CalculationFailed(d, q, s, cell)
  BY DomainSame DEF CalculationFailed
<1> HIDE DEF numeric, failing
<1> QED BY <1>1, <1>2, <1>3, <1>4, <1>5, <1>6

LEMMA MetricSame ==
  ASSUME NEW d, NEW q, NEW w, SameButGroup(q, w), NEW s, NEW rows
  PROVE  /\ MetricFailure(d, w, s, rows) = MetricFailure(d, q, s, rows)
         /\ Bucket(d, w, s, rows) = Bucket(d, q, s, rows)
         /\ GroupFailure(d, w, rows) = {}
         /\ LimitFailure(d, q, rows) = {} => LimitFailure(d, w, rows) = {}
<1>0. w.results = q.results /\ w.group = {}
  BY DEF SameButGroup
<1>1. \A cell : CalculationFailed(d, w, s, cell) = CalculationFailed(d, q, s, cell)
  BY DomainSame DEF CalculationFailed
<1> DEFINE failing(x) == {c \in (UNION {r[2] : r \in x.results}) \X rows : MetricNumber(s, d, <<c[2], c[1]>>) = {}}
           cell(x) == <<First(failing(x))[2], First(failing(x))[1]>>
<1>2. failing(w) = failing(q)
  BY <1>0
<1>3. \A x : MetricFailure(d, x, s, rows) =
               IF failing(x) = {} THEN {}
               ELSE IF cell(x) \in FormulaCells(d) THEN {CalculationFailed(d, x, s, cell(x))}
               ELSE {<<"metric_incomplete", cell(x)>>}
  BY DEF MetricFailure
<1> HIDE DEF failing
<1>4. cell(w) = cell(q)
  BY <1>2
<1> HIDE DEF cell
<1>5. MetricFailure(d, w, s, rows) = MetricFailure(d, q, s, rows)
  BY <1>1, <1>2, <1>3, <1>4
<1>6. Bucket(d, w, s, rows) = Bucket(d, q, s, rows)
  BY <1>0 DEF Bucket
<1>7. GroupFailure(d, w, rows) = {}
  BY <1>0 DEF GroupFailure
<1>8. LimitFailure(d, q, rows) = {} => LimitFailure(d, w, rows) = {}
  BY <1>0 DEF LimitFailure
<1> QED BY <1>5, <1>6, <1>7, <1>8

\* What is known of an analysis that came to groups.
CameToGroups(d, q, s) ==
  /\ DomainFailure(d, q) = {} /\ TargetFailure(d, q) = {} /\ SelectionFailure(d, q, s) = {}
  /\ GroupFailure(d, q, Selected(d, q, s)) = {} /\ MetricFailure(d, q, s, Selected(d, q, s)) = {}
  /\ LimitFailure(d, q, Selected(d, q, s)) = {}
GroupsOf(d, q, s) ==
  [key \in GroupKeys(d, q, Selected(d, q, s)) |-> Bucket(d, q, s, Members(d, q, Selected(d, q, s), key))]

LEMMA GroupedIs ==
  ASSUME NEW d, NEW s, NEW definition, Analysis(d, s, {WholeDocument}, definition)[1] = "groups"
  PROVE  /\ EnvelopeError(definition) = {} /\ CameToGroups(d, Normalized(definition), s)
         /\ Analysis(d, s, {WholeDocument}, definition) = <<"groups", GroupsOf(d, Normalized(definition), s)>>
<1> DEFINE q == Normalized(definition)
           rows == Selected(d, q, s)
           answer == Analysis(d, s, {WholeDocument}, definition)
<1>1. Permits({WholeDocument}, AnalysisRequirements(d, q))
  BY WholePermits
<1>2. answer = IF EnvelopeError(definition) # {} THEN <<"envelope", The(EnvelopeError(definition))>>
               ELSE IF DomainFailure(d, q) # {} THEN <<"failure", The(DomainFailure(d, q))>>
               ELSE AnalysisOutcome(d, q, s)
  BY <1>1 DEF Analysis
<1>3. EnvelopeError(definition) = {} /\ DomainFailure(d, q) = {} /\ answer = AnalysisOutcome(d, q, s)
  <2> HIDE DEF q
  <2> QED BY <1>2
<1>4. AnalysisOutcome(d, q, s) =
        IF TargetFailure(d, q) # {} THEN <<"failure", The(TargetFailure(d, q))>>
        ELSE IF SelectionFailure(d, q, s) # {} THEN <<"failure", The(SelectionFailure(d, q, s))>>
        ELSE IF GroupFailure(d, q, rows) # {} THEN <<"failure", The(GroupFailure(d, q, rows))>>
        ELSE IF MetricFailure(d, q, s, rows) # {} THEN <<"failure", The(MetricFailure(d, q, s, rows))>>
        ELSE IF LimitFailure(d, q, rows) # {} THEN <<"failure", The(LimitFailure(d, q, rows))>>
        ELSE IF q.group # {} THEN <<"groups", GroupsOf(d, q, s)>>
        ELSE <<"rows", Bucket(d, q, s, rows)>>
  BY DEF AnalysisOutcome, GroupsOf
<1> HIDE DEF q, rows
<1>5. answer[1] = "groups"
  BY DEF q
<1> HIDE DEF answer
<1>6. /\ TargetFailure(d, q) = {} /\ SelectionFailure(d, q, s) = {} /\ GroupFailure(d, q, rows) = {}
      /\ MetricFailure(d, q, s, rows) = {} /\ LimitFailure(d, q, rows) = {}
      /\ answer = <<"groups", GroupsOf(d, q, s)>>
  BY <1>3, <1>4, <1>5
<1> QED BY <1>3, <1>6 DEF CameToGroups, q, rows, answer

\* Then it comes to rows without them.
LEMMA WholeIs ==
  ASSUME NEW d, NEW s, NEW definition, IsAsked(Normalized(definition)),
         Analysis(d, s, {WholeDocument}, definition)[1] = "groups"
  PROVE  Analysis(d, s, {WholeDocument}, [definition EXCEPT !.group = {}])
           = <<"rows", Bucket(d, Normalized(definition), s, Selected(d, Normalized(definition), s))>>
<1> DEFINE other == [definition EXCEPT !.group = {}]
           q == Normalized(definition)
           w == Normalized(other)
           rows == Selected(d, q, s)
<1>1. SameButGroup(q, w) /\ EnvelopeError(other) = EnvelopeError(definition)
  BY UngroupedIs
<1>2. EnvelopeError(definition) = {} /\ CameToGroups(d, q, s)
  BY GroupedIs
<1>3. Permits({WholeDocument}, AnalysisRequirements(d, w))
  BY WholePermits
<1>4. /\ DomainFailure(d, w) = {} /\ TargetFailure(d, w) = {} /\ SelectionFailure(d, w, s) = {}
      /\ Selected(d, w, s) = rows /\ w.group = {}
  <2> HIDE DEF q, w
  <2> QED BY <1>1, <1>2, DomainSame, TargetSame, SelectionSame DEF CameToGroups, rows, SameButGroup
<1>5. /\ GroupFailure(d, w, rows) = {} /\ MetricFailure(d, w, s, rows) = {} /\ LimitFailure(d, w, rows) = {}
      /\ Bucket(d, w, s, rows) = Bucket(d, q, s, rows)
  <2> HIDE DEF q, w
  <2> QED BY <1>1, <1>2, MetricSame DEF CameToGroups, rows
<1>6. Analysis(d, s, {WholeDocument}, other) = AnalysisOutcome(d, w, s)
  BY <1>1, <1>2, <1>3, <1>4 DEF Analysis
<1> HIDE DEF q, w, rows
<1>7. AnalysisOutcome(d, w, s) = <<"rows", Bucket(d, q, s, rows)>>
  BY <1>4, <1>5 DEF AnalysisOutcome
<1> QED BY <1>6, <1>7 DEF q, rows

-----------------------------------------------------------------------------
(* The groups of an analysis are the parts of its rows.                    *)

\* The row of every group has a value, which is the key of its group.
LEMMA RowsHaveKeys ==
  ASSUME NEW d, IsInMemory(d), NEW q, IsAsked(q), NEW f \in q.group,
         NEW rows, rows \subseteq CandidateRows(d, q), GroupFailure(d, q, rows) = {}
  PROVE  /\ IsFiniteSet(rows)
         /\ \A e \in rows : StoredAt(d, <<e, f>>) = {Stored(d, <<e, f>>)}
<1>1. IsFiniteSet(rows) /\ rows \subseteq Nat
  <2>1. rows \in SUBSET DOMAIN d.entities
    BY DEF CandidateRows
  <2> QED BY <2>1, FS_Subset DEF IsInMemory
<1>2. q.group \subseteq Nat
  BY DEF IsAsked, RequestedFields
<1> DEFINE failing == {c \in rows \X q.group : GroupProblem(d, c) # {}}
<1>3. failing \subseteq Nat \X Nat
  BY <1>1, <1>2
<1>4. failing = {}
  <2> SUFFICES ASSUME NEW c \in failing PROVE FALSE
    OBVIOUS
  <2> DEFINE first == First(failing)
  <2>0. first \in failing
    <3> HIDE DEF failing
    <3> QED BY <1>3, FirstIs
  <2>1. GroupProblem(d, first) # {}
    BY <2>0
  <2>2. GroupFailure(d, q, rows) = UNION {GroupProblem(d, first) : k \in failing}
    BY DEF GroupFailure
  <2> HIDE DEF failing, first
  <2> QED BY <2>1, <2>2
<1>5. ASSUME NEW e \in rows PROVE StoredAt(d, <<e, f>>) = {Stored(d, <<e, f>>)}
  <2> DEFINE c == <<e, f>>
  <2>1. c \in rows \X q.group
    OBVIOUS
  <2>2. GroupProblem(d, c) = {}
    BY <1>4, <2>1
  <2>3. c = <<c[1], c[2]>>
    OBVIOUS
  <2> HIDE DEF c
  <2>4. StoredAt(d, c) # {}
    BY <2>2 DEF GroupProblem
  <2>5. StoredAt(d, c) = {Stored(d, c)}
    BY <2>3, <2>4, StoredIsCell
  <2> QED BY <2>5 DEF c
<1> QED BY <1>1, <1>5

\* The keys of the rows, as a function.
KeyOf(d, f, rows) == [e \in rows |-> Stored(d, <<e, f>>)]

LEMMA KeysAre ==
  ASSUME NEW d, IsInMemory(d), NEW q, IsAsked(q), NEW f \in q.group,
         NEW rows, rows \subseteq CandidateRows(d, q), GroupFailure(d, q, rows) = {},
         NEW k, k = KeyOf(d, f, rows), NEW K, K = GroupKeys(d, q, rows)
  PROVE  /\ IsFiniteSet(rows) /\ IsFiniteSet(K) /\ AreKeys(k, rows, K)
         /\ \A x : Members(d, q, rows, x) = PartAt(k, rows, x)
<1>0. q.group = {f}
  BY DEF IsAsked
<1>1. IsFiniteSet(rows) /\ \A e \in rows : StoredAt(d, <<e, f>>) = {k[e]}
  BY RowsHaveKeys DEF KeyOf
<1>3. \A e \in rows : k[e] \in K
  <2> SUFFICES ASSUME NEW e \in rows PROVE k[e] \in K
    OBVIOUS
  <2> DEFINE c == <<e, f>>
  <2>1. c \in rows \X q.group /\ k[e] \in StoredAt(d, c)
    BY <1>1
  <2> HIDE DEF c
  <2> QED BY <2>1 DEF GroupKeys
<1>4. \A x \in K : \E e \in rows : k[e] = x
  <2> SUFFICES ASSUME NEW x \in K PROVE \E e \in rows : k[e] = x
    OBVIOUS
  <2>1. PICK c \in rows \X q.group : x \in StoredAt(d, c)
    BY DEF GroupKeys
  <2>2. c = <<c[1], f>> /\ c[1] \in rows
    BY <1>0, <2>1
  <2> QED BY <1>1, <2>1, <2>2
<1>5. IsFiniteSet(K)
  BY <1>1, <1>4, ImageIsFinite
<1>6. ASSUME NEW x PROVE Members(d, q, rows, x) = PartAt(k, rows, x)
  BY <1>0, <1>1 DEF Members, PartAt
<1>7. AreKeys(k, rows, K)
  BY <1>3, <1>4 DEF AreKeys, PartAt
<1> QED BY <1>1, <1>5, <1>6, <1>7

\* A number that is collected is natural.
LEMMA MetricIsNumber ==
  ASSUME NEW d, IsInMemory(d), NEW s, IsCalculation(d, s), NEW c, c = <<c[1], c[2]>>,
         MetricNumber(s, d, c) # {}
  PROVE  The(MetricNumber(s, d, c))[2] \in Nat
<1> DEFINE v == Stored(d, c)
<1>1. StoredAt(d, c) # {}
  BY DEF MetricNumber
<1>2. c \in Cells(d) /\ StoredAt(d, c) = {v}
  BY <1>1, StoredIsCell
<1>3. MetricNumber(s, d, c) = UNION {CASE Kind(u) = "formula" -> CalculatedNumber(s, c)
                                       [] Kind(u) = "number" -> {u}
                                       [] OTHER -> {} : u \in {v}}
  BY <1>2 DEF MetricNumber
<1>4. Kind(v) = "number" => v[2] \in Nat
  BY <1>2 DEF IsInMemory
<1>5. CASE Kind(v) = "formula"
  <2>1. MetricNumber(s, d, c) = CalculatedNumber(s, c)
    BY <1>3, <1>5
  <2>2. c \in DOMAIN s.values /\ CalculatedNumber(s, c) = {s.values[c]}
    BY <2>1 DEF CalculatedNumber, Entry
  <2>3. s.values[c][2] \in Nat
    BY <2>2, ValuesAreNumbers, NumberIs
  <2> QED BY <2>1, <2>2, <2>3, TheIs
<1>6. CASE Kind(v) # "formula"
  <2>1. MetricNumber(s, d, c) = IF Kind(v) = "number" THEN {v} ELSE {}
    <3> HIDE DEF v
    <3> QED BY <1>3, <1>6
  <2>2. Kind(v) = "number" /\ MetricNumber(s, d, c) = {v}
    BY <2>1
  <2> HIDE DEF v
  <2> QED BY <1>4, <2>2, TheIs
<1> QED BY <1>5, <1>6

\* The numbers of a metric, as a function of the rows.
NumberOf(d, s, f, rows) == [e \in rows |-> The(MetricNumber(s, d, <<e, f>>))[2]]

LEMMA NumbersAre ==
  ASSUME NEW d, IsInMemory(d), NEW s, IsCalculation(d, s), NEW q,
         NEW rows, MetricFailure(d, q, s, rows) = {}, NEW r \in q.results, NEW f \in r[2]
  PROVE  NumberOf(d, s, f, rows) \in [rows -> Nat]
<1> SUFFICES ASSUME NEW e \in rows PROVE The(MetricNumber(s, d, <<e, f>>))[2] \in Nat
  BY DEF NumberOf
<1> DEFINE c == <<e, f>>
           failing == {k \in (UNION {x[2] : x \in q.results}) \X rows : MetricNumber(s, d, <<k[2], k[1]>>) = {}}
<1>1. failing = {}
  <2> DEFINE cell == <<First(failing)[2], First(failing)[1]>>
  <2>1. MetricFailure(d, q, s, rows) =
          IF failing = {} THEN {}
          ELSE IF cell \in FormulaCells(d) THEN {CalculationFailed(d, q, s, cell)}
          ELSE {<<"metric_incomplete", cell>>}
    BY DEF MetricFailure
  <2> HIDE DEF failing, cell
  <2> QED BY <2>1
<1>2. <<f, e>> \in (UNION {x[2] : x \in q.results}) \X rows
  OBVIOUS
<1>3. MetricNumber(s, d, c) # {}
  BY <1>1, <1>2
<1>4. c = <<c[1], c[2]>>
  OBVIOUS
<1> HIDE DEF c
<1>5. The(MetricNumber(s, d, c))[2] \in Nat
  BY <1>3, <1>4, MetricIsNumber
<1> QED BY <1>5 DEF c

\* What a bucket has under a request.
NumbersOf(d, s, rows, fs) == {The(MetricNumber(s, d, <<e, f>>))[2] : e \in rows, f \in fs}
BucketValue(d, s, rows, kind, fs) ==
  CASE kind = "membership" -> rows
    [] kind = "count" -> Cardinality(rows)
    [] kind = "minimum" -> {Min(NumbersOf(d, s, rows, fs)) : e \in rows}
    [] kind = "maximum" -> {Max(NumbersOf(d, s, rows, fs)) : e \in rows}
    [] kind = "observations" -> [e \in rows |-> The(MetricNumber(s, d, <<e, The(fs)>>))[2]]

LEMMA BucketHas ==
  ASSUME NEW d, NEW s, NEW q, NEW rows, NEW r \in q.results
  PROVE  Bucket(d, q, s, rows)[r] = BucketValue(d, s, rows, r[1], r[2])
<1>1. Bucket(d, q, s, rows) = [x \in q.results |-> BucketValue(d, s, rows, x[1], x[2])]
  BY DEF Bucket, BucketValue, NumbersOf
<1> QED BY <1>1

LEMMA BucketIs ==
  ASSUME NEW d, NEW s, NEW q, IsAsked(q), NEW rows, NEW r \in q.results
  PROVE  /\ r[1] = "membership" => r = <<"membership", {}>> /\ Bucket(d, q, s, rows)[r] = rows
         /\ r[1] = "count" => Bucket(d, q, s, rows)[r] = Cardinality(rows)
<1>1. Bucket(d, q, s, rows)[r] = BucketValue(d, s, rows, r[1], r[2])
  BY BucketHas
<1>2. r[1] = "membership" => r = <<"membership", {}>>
  BY DEF IsAsked
<1> QED BY <1>1, <1>2 DEF BucketValue

SomeOf(part, rows) == part \subseteq rows /\ part # {}

LEMMA MaximumIs ==
  ASSUME NEW d, NEW s, NEW q, IsAsked(q), NEW all, NEW rows, SomeOf(rows, all),
         NEW r \in q.results, r[1] = "maximum", NEW f \in r[2]
  PROVE  Bucket(d, q, s, rows)[r] = OnlyTop(NumberOf(d, s, f, all), rows)
<1> DEFINE n == NumberOf(d, s, f, all)
<1>1. r = <<"maximum", {f}>>
  BY DEF IsAsked
<1>2. Bucket(d, q, s, rows)[r] = BucketValue(d, s, rows, r[1], r[2])
  BY BucketHas
<1>3. BucketValue(d, s, rows, r[1], r[2]) = {Max(NumbersOf(d, s, rows, r[2])) : e \in rows}
  BY DEF BucketValue
<1>4. NumbersOf(d, s, rows, r[2]) = {n[e] : e \in rows}
  <2>0. r[2] = {f}
    BY <1>1
  <2>1. \A e \in rows : n[e] = The(MetricNumber(s, d, <<e, f>>))[2]
    BY DEF NumberOf, SomeOf
  <2>2. NumbersOf(d, s, rows, {f}) = {The(MetricNumber(s, d, <<e, f>>))[2] : e \in rows}
    BY DEF NumbersOf
  <2> HIDE DEF n
  <2>3. {The(MetricNumber(s, d, <<e, f>>))[2] : e \in rows} = {n[e] : e \in rows}
    BY <2>1
  <2>4. NumbersOf(d, s, rows, r[2]) = NumbersOf(d, s, rows, {f})
    BY <2>0
  <2> QED BY <2>2, <2>3, <2>4
<1>5. Bucket(d, q, s, rows)[r] = {TopOf(n, rows) : e \in rows}
  BY <1>2, <1>3, <1>4 DEF TopOf
<1>6. rows # {}
  BY DEF SomeOf
<1> HIDE DEF n
<1> QED BY <1>5, <1>6 DEF n, OnlyTop

\* What Parts says of two answers.
MapSum(grouped, r) == MapThenSumSet(LAMBDA key : grouped[2][key][r], DOMAIN grouped[2])
ValuesUnder(groups, r) == [key \in DOMAIN groups |-> groups[key][r]]
IsPartition(m, rows) == UNION Range(m) = rows /\ \A a, b \in DOMAIN m : a # b => m[a] \intersect m[b] = {}
GroupedParts(grouped, whole, results) ==
  LET request(kind) == {r \in results : r[1] = kind}
      members == ValuesUnder(grouped[2], <<"membership", {}>>)
  IN grouped[1] = "groups" =>
       /\ whole[1] = "rows"
       /\ \A r \in request("membership") : IsPartition(members, whole[2][r])
       /\ \A r \in request("count") :
            whole[2][r] = MapSum(grouped, r)
       /\ \A r \in request("maximum") :
            UNION {grouped[2][key][r] : key \in DOMAIN grouped[2]} # {} =>
               whole[2][r] = {Max(UNION {grouped[2][key][r] : key \in DOMAIN grouped[2]})}

LEMMA PartsAre ==
  ASSUME NEW d, NEW s, NEW q,
         GroupedParts(Analysis(d, s, {WholeDocument}, q), Analysis(d, s, {WholeDocument}, [q EXCEPT !.group = {}]),
                      ToSet(q.results))
  PROVE  Parts(d, s, q)
BY DEF Parts, GroupedParts, MapSum, ValuesUnder, IsPartition, MapThenSumSet, MapThenFoldSet

\* What is under the keys of a map, summed as the library sums it.
LEMMA MapSumIs ==
  ASSUME NEW grouped, NEW r, NEW K, K = DOMAIN grouped[2], IsFiniteSet(K),
         NEW g, AreNatural(g, K), \A key \in K : grouped[2][key][r] = g[key]
  PROVE  \E t : IsTotal(t, g, K) /\ MapSum(grouped, r) = t[K]
<1> DEFINE Iter(t) == t = [s \in SUBSET K |->
                             IF s = {} THEN 0
                             ELSE grouped[2][CHOOSE x \in s : TRUE][r] + t[s \ {CHOOSE x \in s : TRUE}]]
           it == CHOOSE t : Iter(t)
<1>1. PICK t : IsFold(t, g, K)
  BY FoldExists
<1>0. \A s \in SUBSET K : s # {} => Some(s) \in K
  BY DEF Some
<1>2. Iter(t)
  BY <1>0, <1>1 DEF IsFold, Folds, Some
<1>3. Iter(it)
  <2> HIDE DEF Iter
  <2> QED BY <1>2
<1>4. MapSum(grouped, r) = it[K]
  BY DEF MapSum, MapThenSumSet, MapThenFoldSet
<1>5. Folds(it, g, K)
  BY <1>0, <1>3, ZenonT(30) DEF Folds, Some
<1> HIDE DEF it
<1>6. it[K] = t[K]
  BY <1>1, <1>5, FoldIsUnique
<1> QED BY <1>1, <1>4, <1>6, FoldIsTotal

\* What groups have under a request, when their rows are the parts of all rows.
LEMMA GroupsHave ==
  ASSUME NEW d, IsInMemory(d), NEW s, IsCalculation(d, s), NEW q, IsAsked(q), NEW f \in q.group,
         CameToGroups(d, q, s), NEW rows, rows = Selected(d, q, s),
         NEW k, k = KeyOf(d, f, rows), NEW K, K = GroupKeys(d, q, rows), NEW groups, groups = GroupsOf(d, q, s)
  PROVE  /\ DOMAIN groups = K /\ IsFiniteSet(rows) /\ IsFiniteSet(K) /\ AreKeys(k, rows, K)
         /\ \A x \in K : groups[x] = Bucket(d, q, s, PartAt(k, rows, x))
<1>1. rows \subseteq CandidateRows(d, q) /\ GroupFailure(d, q, rows) = {}
  BY DEF Selected, CameToGroups
<1>2. /\ IsFiniteSet(rows) /\ IsFiniteSet(K) /\ AreKeys(k, rows, K)
      /\ \A x : Members(d, q, rows, x) = PartAt(k, rows, x)
  BY <1>1, KeysAre
<1>3. groups = [x \in K |-> Bucket(d, q, s, Members(d, q, rows, x))]
  BY DEF GroupsOf
<1>4. \A x \in K : groups[x] = Bucket(d, q, s, Members(d, q, rows, x))
  BY <1>3
<1> QED BY <1>2, <1>3, <1>4

\* The rows of the groups are the rows, each of them once.
LEMMA MembersAreParts ==
  ASSUME NEW rows, NEW m, NEW k, AreKeys(k, rows, DOMAIN m), \A x \in DOMAIN m : m[x] = PartAt(k, rows, x)
  PROVE  UNION Range(m) = rows /\ \A a, b \in DOMAIN m : a # b => m[a] \intersect m[b] = {}
<1>1. \A x \in DOMAIN m : \A e : e \in m[x] <=> e \in rows /\ k[e] = x
  BY DEF PartAt
<1>2. \A e \in rows : m[k[e]] \in Range(m) /\ e \in m[k[e]]
  BY <1>1 DEF Range, AreKeys
<1>3. \A part \in Range(m) : part \subseteq rows
  BY <1>1 DEF Range
<1>4. UNION Range(m) = rows
  BY <1>2, <1>3
<1>5. \A a, b \in DOMAIN m : a # b => m[a] \intersect m[b] = {}
  BY <1>1
<1> QED BY <1>4, <1>5

\* A membership, a count and a maximum of all rows, and of the groups.
LEMMA GroupedMembers ==
  ASSUME NEW d, IsInMemory(d), NEW s, IsCalculation(d, s), NEW q, IsAsked(q), NEW f \in q.group,
         CameToGroups(d, q, s), NEW rows, rows = Selected(d, q, s), NEW groups, groups = GroupsOf(d, q, s),
         NEW r \in q.results, r[1] = "membership"
  PROVE  r = <<"membership", {}>> /\ IsPartition(ValuesUnder(groups, r), Bucket(d, q, s, rows)[r])
<1> DEFINE m == ValuesUnder(groups, r)
           K == GroupKeys(d, q, rows)
           k == KeyOf(d, f, rows)
<1>1. /\ DOMAIN groups = K /\ AreKeys(k, rows, K)
      /\ \A x \in K : groups[x] = Bucket(d, q, s, PartAt(k, rows, x))
  BY GroupsHave
<1> HIDE DEF K, k
<1>2. ASSUME NEW part PROVE r = <<"membership", {}>> /\ Bucket(d, q, s, part)[r] = part
  BY BucketIs
<1>3. DOMAIN m = K /\ \A x \in DOMAIN m : m[x] = PartAt(k, rows, x)
  BY <1>1, <1>2 DEF ValuesUnder
<1> HIDE DEF m
<1>4. UNION Range(m) = rows /\ \A a, b \in DOMAIN m : a # b => m[a] \intersect m[b] = {}
  BY <1>1, <1>3, MembersAreParts
<1> QED BY <1>2, <1>4 DEF IsPartition, m

LEMMA GroupedCounts ==
  ASSUME NEW d, IsInMemory(d), NEW s, IsCalculation(d, s), NEW q, IsAsked(q), NEW f \in q.group,
         CameToGroups(d, q, s), NEW rows, rows = Selected(d, q, s),
         NEW grouped, grouped[2] = GroupsOf(d, q, s), NEW r \in q.results, r[1] = "count"
  PROVE  Bucket(d, q, s, rows)[r] = MapSum(grouped, r)
<1> DEFINE groups == grouped[2]
           K == GroupKeys(d, q, rows)
           k == KeyOf(d, f, rows)
           g == [x \in K |-> Cardinality({e \in rows : k[e] = x})]
<1>1. /\ DOMAIN groups = K /\ IsFiniteSet(rows) /\ IsFiniteSet(K) /\ AreKeys(k, rows, K)
      /\ \A x \in K : groups[x] = Bucket(d, q, s, PartAt(k, rows, x))
  <2> HIDE DEF groups
  <2> QED BY GroupsHave DEF groups
<1> HIDE DEF K, k
<1>2. ASSUME NEW part PROVE Bucket(d, q, s, part)[r] = Cardinality(part)
  BY BucketIs
<1>3. AreNatural(g, K)
  <2> SUFFICES ASSUME NEW x \in K PROVE Cardinality({e \in rows : k[e] = x}) \in Nat
    BY DEF AreNatural
  <2>1. {e \in rows : k[e] = x} \in SUBSET rows
    OBVIOUS
  <2> QED BY <1>1, <2>1, FS_Subset, FS_CardinalityType
<1>4. \A key \in K : groups[key][r] = g[key]
  BY <1>1, <1>2 DEF PartAt
<1>5. PICK t : IsTotal(t, g, K) /\ MapSum(grouped, r) = t[K]
  <2> HIDE DEF g
  <2> QED BY <1>1, <1>3, <1>4, MapSumIs
<1>6. t[K] = Cardinality(rows)
  <2>1. \A e \in rows : k[e] \in K
    BY <1>1 DEF AreKeys
  <2> QED BY <1>1, <1>5, <2>1, PartsAddUp
<1> QED BY <1>2, <1>5, <1>6

LEMMA GroupedMaxima ==
  ASSUME NEW d, IsInMemory(d), NEW s, IsCalculation(d, s), NEW q, IsAsked(q), NEW f \in q.group,
         CameToGroups(d, q, s), NEW rows, rows = Selected(d, q, s), NEW groups, groups = GroupsOf(d, q, s),
         NEW r \in q.results, r[1] = "maximum",
         NEW tops, tops = UNION {groups[key][r] : key \in DOMAIN groups}, tops # {}
  PROVE  Bucket(d, q, s, rows)[r] = {Max(tops)}
<1> DEFINE K == GroupKeys(d, q, rows)
           k == KeyOf(d, f, rows)
<1>1. /\ DOMAIN groups = K /\ IsFiniteSet(rows) /\ IsFiniteSet(K) /\ AreKeys(k, rows, K)
      /\ \A x \in K : groups[x] = Bucket(d, q, s, PartAt(k, rows, x))
  BY GroupsHave
<1> HIDE DEF K, k
<1>2. PICK h \in r[2] : r = <<r[1], {h}>>
  BY DEF IsAsked
<1> DEFINE n == NumberOf(d, s, h, rows)
           m == [x \in K |-> TopOf(n, PartAt(k, rows, x))]
<1>3. n \in [rows -> Nat]
  <2>1. MetricFailure(d, q, s, rows) = {}
    BY DEF CameToGroups
  <2> QED BY <2>1, NumbersAre
<1>4. ASSUME NEW part, SomeOf(part, rows)
      PROVE  Bucket(d, q, s, part)[r] = OnlyTop(n, part)
  BY <1>4, MaximumIs
<1> HIDE DEF n
<1>5. ASSUME NEW x \in K PROVE groups[x][r] = {m[x]}
  <2>1. SomeOf(PartAt(k, rows, x), rows)
    BY <1>1 DEF AreKeys, PartAt, SomeOf
  <2>2. Bucket(d, q, s, PartAt(k, rows, x))[r] = {TopOf(n, PartAt(k, rows, x))}
    BY <1>4, <2>1 DEF OnlyTop
  <2> QED BY <1>1, <2>2
<1>6. tops = {m[x] : x \in K}
  <2> HIDE DEF m
  <2>1. \A y : y \in tops <=> \E x \in K : y = m[x]
    BY <1>1, <1>5
  <2> QED BY <2>1
<1>7. rows # {}
  BY <1>1, <1>6 DEF AreKeys, PartAt
<1>8. AreTops(m, n, k, rows, K)
  BY DEF AreTops
<1> HIDE DEF m
<1>9. TopOf(m, K) = TopOf(n, rows)
  BY <1>1, <1>3, <1>7, <1>8, MaxOfParts
<1>10. Bucket(d, q, s, rows)[r] = {TopOf(n, rows)}
  <2>1. SomeOf(rows, rows)
    BY <1>7 DEF SomeOf
  <2> QED BY <1>4, <2>1 DEF OnlyTop
<1>11. TopOf(m, K) = Max(tops)
  BY <1>6 DEF TopOf
<1> QED BY <1>9, <1>10, <1>11

\* A grouped answer and the ungrouped one agree.
LEMMA PartsHold ==
  ASSUME NEW d, IsInMemory(d), NEW s, IsCalculation(d, s),
         NEW definition, IsAsked(Normalized(definition)), definition.group # {}
  PROVE  Parts(d, s, definition)
<1> DEFINE q == Normalized(definition)
           grouped == Analysis(d, s, {WholeDocument}, definition)
           whole == Analysis(d, s, {WholeDocument}, [definition EXCEPT !.group = {}])
           rows == Selected(d, q, s)
           groups == GroupsOf(d, q, s)
<1> SUFFICES ASSUME grouped[1] = "groups" PROVE GroupedParts(grouped, whole, ToSet(definition.results))
  BY PartsAre DEF GroupedParts
<1>1. q.group = definition.group /\ q.results = ToSet(definition.results)
  <2>1. DOMAIN definition = {"schema", "narrowing", "predicates", "group", "results"}
    BY DEF IsAsked, IsRecord, Normalized
  <2> QED BY <2>1 DEF Normalized
<1>2. IsAsked(q)
  OBVIOUS
<1>3. CameToGroups(d, q, s) /\ grouped = <<"groups", groups>>
  BY GroupedIs
<1>4. whole = <<"rows", Bucket(d, q, s, rows)>>
  BY WholeIs
<1>5. PICK f \in q.group : TRUE
  BY <1>1
<1> HIDE DEF q, grouped, whole, groups, rows
<1>6. grouped[2] = groups /\ whole[2] = Bucket(d, q, s, rows) /\ whole[1] = "rows"
  BY <1>3, <1>4
<1> DEFINE bucket == whole[2]
<1>7. ASSUME NEW r \in q.results, r[1] = "membership"
      PROVE  IsPartition(ValuesUnder(grouped[2], <<"membership", {}>>), bucket[r])
  <2>1. r = <<"membership", {}>> /\ IsPartition(ValuesUnder(groups, r), Bucket(d, q, s, rows)[r])
    BY <1>2, <1>3, <1>5, <1>7, GroupedMembers DEF rows, groups
  <2> QED BY <1>6, <2>1
<1>8. ASSUME NEW r \in q.results, r[1] = "count"
      PROVE  bucket[r] = MapSum(grouped, r)
  BY <1>2, <1>3, <1>5, <1>6, <1>8, GroupedCounts DEF rows, groups
<1>9. ASSUME NEW r \in q.results, r[1] = "maximum",
             UNION {grouped[2][key][r] : key \in DOMAIN grouped[2]} # {}
      PROVE  bucket[r] = {Max(UNION {grouped[2][key][r] : key \in DOMAIN grouped[2]})}
  <2> DEFINE tops == UNION {groups[key][r] : key \in DOMAIN groups}
  <2>1. tops = UNION {grouped[2][key][r] : key \in DOMAIN grouped[2]}
    BY <1>6
  <2>2. Bucket(d, q, s, rows)[r] = {Max(tops)}
    <3>1. tops # {}
      BY <1>9, <2>1
    <3> QED BY <1>2, <1>3, <1>5, <1>9, <3>1, GroupedMaxima DEF rows, groups
  <2> HIDE DEF tops
  <2> QED BY <1>6, <2>1, <2>2
<1> QED BY <1>1, <1>6, <1>7, <1>8, <1>9 DEF GroupedParts

-----------------------------------------------------------------------------
(* A grouped sum is the sum over all orders, each with its product.         *)

\* A sum over some things is the sum over what they are sent to, one by one.
SendsTo(h, S, T) ==
  /\ \A x \in S : h[x] \in T
  /\ \A x, y \in S : h[x] = h[y] => x = y
  /\ \A y \in T : \E x \in S : y = h[x]

LEMMA SumCarries ==
  ASSUME NEW S, IsFiniteSet(S), NEW T, NEW h, SendsTo(h, S, T),
         NEW g, NEW f, \A x \in S : f[h[x]] = g[x], NEW t, IsTotal(t, g, S), NEW u, IsTotal(u, f, T)
  PROVE  u[T] = t[S]
<1> DEFINE image(U) == {y \in T : \E x \in U : y = h[x]}
           G == {U \in SUBSET S : u[image(U)] = t[U]}
<1>1. {} \in G
  <2>1. image({}) = {}
    OBVIOUS
  <2> HIDE DEF image
  <2> QED BY <2>1 DEF IsTotal
<1>2. ASSUME NEW U \in SUBSET S, NEW x \in S \ U, U \in G PROVE U \union {x} \in G
  <2> DEFINE V == U \union {x}
  <2>1. V \in SUBSET S /\ x \in V /\ V \ {x} = U
    OBVIOUS
  <2>2. h[x] \in image(V) /\ image(V) \in SUBSET T
    BY DEF SendsTo
  <2>3. image(V) \ {h[x]} = image(U)
    BY DEF SendsTo
  <2>4. u[image(U)] = t[U]
    BY <1>2
  <2> HIDE DEF image, V
  <2>5. u[image(V)] = f[h[x]] + u[image(V) \ {h[x]}]
    BY <2>2 DEF IsTotal
  <2>6. t[V] = g[x] + t[V \ {x}]
    BY <2>1 DEF IsTotal
  <2>7. u[image(V)] = t[V]
    BY <2>1, <2>3, <2>4, <2>5, <2>6
  <2> QED BY <2>1, <2>7 DEF V
<1> HIDE DEF G
<1>3. S \in G
  <2>1. \A U \in SUBSET S : \A x \in S \ U : U \in G => U \union {x} \in G
    BY <1>2
  <2>2. SUBSET S \subseteq G
    BY <1>1, <2>1, SubsetInduction
  <2> QED BY <2>2
<1>4. image(S) = T
  BY DEF SendsTo
<1> QED BY <1>3, <1>4 DEF G

LEMMA SentIsAsMany ==
  ASSUME NEW S, IsFiniteSet(S), NEW T, NEW h, SendsTo(h, S, T)
  PROVE  IsFiniteSet(T) /\ Cardinality(T) = Cardinality(S)
<1> DEFINE b == [x \in S |-> h[x]]
<1>1. b \in Surjection(S, T)
  BY DEF SendsTo, Surjection
<1>2. b \in Injection(S, T)
  BY DEF SendsTo, Injection, IsInjective
<1> HIDE DEF b
<1> QED BY <1>1, <1>2, FS_Surjection

\* What SumsAllOrders says of a sum.
PairAmount(numbers, x, pair) == numbers[<<pair[1], x.quantity>>] * numbers[<<pair[2], x.price>>]
PairSum(numbers, x, pairs) == MapThenSumSet(LAMBDA pair : PairAmount(numbers, x, pair), pairs)
PairsOf(d, x) ==
  {pair \in RowsOf(d, x.orders) \X RowsOf(d, x.products) :
     StoredAt(d, <<pair[1], x.lookup>>) = StoredAt(d, <<pair[2], x.key>>)}
NumbersIn(d, state) == [c \in CalculationCells(d) |-> state.values[c][2]]
PairsUnder(d, x, category) == {pair \in PairsOf(d, x) : Stored(d, <<pair[2], x.category>>) = category}
SumOfPairs(d, state, x) ==
  /\ Cardinality(PairsOf(d, x)) = Cardinality(RowsOf(d, x.orders))
  /\ GroupedSum(d, Rebuilt(d), x)[2] =
       [category \in {Stored(d, <<pair[2], x.category>>) : pair \in PairsOf(d, x)} |->
          PairSum(NumbersIn(d, state), x, PairsUnder(d, x, category))]

LEMMA SumsAre ==
  ASSUME NEW d, NEW state, NEW x,
         GroupedSum(d, Rebuilt(d), x)[1] = "complete" /\ state.failures = <<>> => SumOfPairs(d, state, x)
  PROVE  SumsAllOrders(d, state, x)
BY DEF SumsAllOrders, SumOfPairs, PairSum, PairAmount, PairsOf, NumbersIn, PairsUnder,
       MapThenSumSet, MapThenFoldSet

LEMMA PairSumIs ==
  ASSUME NEW numbers, NEW x, NEW P, IsFiniteSet(P),
         NEW g, AreNatural(g, P), \A pair \in P : PairAmount(numbers, x, pair) = g[pair]
  PROVE  \E t : IsTotal(t, g, P) /\ PairSum(numbers, x, P) = t[P]
<1> DEFINE Iter(t) == t = [s \in SUBSET P |->
                             IF s = {} THEN 0
                             ELSE PairAmount(numbers, x, CHOOSE y \in s : TRUE) + t[s \ {CHOOSE y \in s : TRUE}]]
           it == CHOOSE t : Iter(t)
<1>1. PICK t : IsFold(t, g, P)
  BY FoldExists
<1>0. \A s \in SUBSET P : s # {} => Some(s) \in P
  BY DEF Some
<1>2. Iter(t)
  BY <1>0, <1>1 DEF IsFold, Folds, Some
<1>3. Iter(it)
  <2> HIDE DEF Iter
  <2> QED BY <1>2
<1>4. PairSum(numbers, x, P) = it[P]
  BY DEF PairSum, MapThenSumSet, MapThenFoldSet
<1>5. Folds(it, g, P)
  BY <1>0, <1>3 DEF Folds, Some
<1> HIDE DEF it
<1>6. it[P] = t[P]
  BY <1>1, <1>5, FoldIsUnique
<1> QED BY <1>1, <1>4, <1>6, FoldIsTotal

\* A grouped sum that is complete found no problem.
LEMMA CompleteIs ==
  ASSUME NEW d, NEW s, NEW x, GroupedSum(d, s, x)[1] = "complete"
  PROVE  /\ LookupProblems(d, x) = {} /\ AmountProblems(d, s, x) = {}
         /\ GroupedSum(d, s, x)[2] = SumsOf(d, s, x)
<1> DEFINE sum == GroupedSum(d, s, x)
           sums == SumsOf(d, s, x)
<1>1. sum = IF x \notin d.definitions \/ ~BindingsHold(d, x) THEN <<"unavailable", {<<"invalid_definition">>}>>
            ELSE IF KeyProblems(d, x) # {} THEN <<"unavailable", KeyProblems(d, x)>>
            ELSE IF LookupProblems(d, x) # {} THEN <<"unavailable", LookupProblems(d, x)>>
            ELSE IF SumFormulas(d, x) # {} /\ s.failures # <<>> THEN <<"unavailable", {<<"formula_unavailable">>}>>
            ELSE IF AmountProblems(d, s, x) # {} THEN <<"unavailable", AmountProblems(d, s, x)>>
            ELSE SumOutcome(sums)
  BY GroupedSumIs
<1>2. sum[1] = "complete"
  OBVIOUS
<1> HIDE DEF sum, sums
<1>3. LookupProblems(d, x) = {} /\ AmountProblems(d, s, x) = {} /\ sum = SumOutcome(sums)
  BY <1>1, <1>2
<1>4. sum = <<"complete", sums>>
  BY <1>2, <1>3 DEF SumOutcome
<1> QED BY <1>3, <1>4 DEF sum, sums

\* Each order is paired with its product alone.
OwnPairs(d, x) == [o \in Orders(d, x) |-> <<o, ProductOf(d, x, o)>>]

LEMMA PairsAre ==
  ASSUME NEW d, IsInMemory(d), NEW x, LookupProblems(d, x) = {}
  PROVE  SendsTo(OwnPairs(d, x), Orders(d, x), PairsOf(d, x))
<1> DEFINE h == OwnPairs(d, x)
<1>1. ASSUME NEW o \in Orders(d, x)
      PROVE  Matches(d, x, o) = {ProductOf(d, x, o)}
  <2>1. LookupProblem(d, x, o, Matches(d, x, o)) = {}
    BY DEF LookupProblems
  <2>2. Matches(d, x, o) # {} /\ Cardinality(Matches(d, x, o)) = 1
    BY <2>1 DEF LookupProblem
  <2>3. ProductOf(d, x, o) \in Matches(d, x, o)
    BY ProductsAreMatched
  <2>4. Matches(d, x, o) \in SUBSET DOMAIN d.entities
    BY DEF Matches, RowsOf
  <2>5. IsFiniteSet(Matches(d, x, o))
    BY <2>4, FS_Subset DEF IsInMemory
  <2>6. PICK p : Matches(d, x, o) = {p}
    BY <2>2, <2>5, FS_Singleton
  <2> QED BY <2>3, <2>6
<1>2. ASSUME NEW o \in Orders(d, x), NEW p
      PROVE  <<o, p>> \in PairsOf(d, x) <=> p = ProductOf(d, x, o)
  <2>1. p \in Matches(d, x, o) <=> p = ProductOf(d, x, o)
    BY <1>1
  <2>2. p \in Matches(d, x, o) <=>
          p \in RowsOf(d, x.products) /\ StoredAt(d, <<p, x.key>>) = StoredAt(d, <<o, x.lookup>>)
    BY DEF Matches
  <2>3. <<o, p>> \in PairsOf(d, x) <=>
          p \in RowsOf(d, x.products) /\ StoredAt(d, <<o, x.lookup>>) = StoredAt(d, <<p, x.key>>)
    BY DEF PairsOf, Orders
  <2> QED BY <2>1, <2>2, <2>3
<1>3. \A o \in Orders(d, x) : h[o] = <<o, ProductOf(d, x, o)>>
  BY DEF OwnPairs
<1>4. \A y \in PairsOf(d, x) : y = <<y[1], y[2]>> /\ y[1] \in Orders(d, x)
  BY DEF PairsOf, Orders
<1> HIDE DEF h
<1>5. \A o \in Orders(d, x) : h[o] \in PairsOf(d, x)
  BY <1>2, <1>3
<1>6. \A o, r \in Orders(d, x) : h[o] = h[r] => o = r
  BY <1>3
<1>7. ASSUME NEW y \in PairsOf(d, x) PROVE \E o \in Orders(d, x) : y = h[o]
  <2>1. y[2] = ProductOf(d, x, y[1])
    BY <1>2, <1>4
  <2>2. y = h[y[1]]
    BY <1>3, <1>4, <2>1
  <2> QED BY <1>4, <2>2
<1> QED BY <1>5, <1>6, <1>7 DEF SendsTo, h

\* The numbers of the retained calculation are what is operated on.
LEMMA NumbersAreOperands ==
  ASSUME NEW d, IsInMemory(d), NEW s, IsCalculation(d, s), s.failures = <<>>,
         NEW c, c = <<c[1], c[2]>>, NumberProblem(d, c) = {}
  PROVE  NumbersIn(d, s)[c] = OperandIn(d, s, c) /\ NumbersIn(d, s)[c] \in Nat
<1>1. StoredAt(d, c) # {}
  BY DEF NumberProblem
<1>2. c \in Cells(d) /\ StoredAt(d, c) = {Stored(d, c)}
  BY <1>1, StoredIsCell
<1>3. Kind(Stored(d, c)) \in {"number", "formula"}
  BY <1>2 DEF NumberProblem
<1>4. c \in CalculationCells(d)
  BY <1>2, <1>3 DEF CalculationCells
<1>5. DOMAIN s.failures = {}
  OBVIOUS
<1>6. c \in DOMAIN s.values /\ IsRightAt(d, s, c)
  BY <1>4, <1>5 DEF IsCalculation, Covering
<1>7. NumbersIn(d, s)[c] = s.values[c][2]
  BY <1>4 DEF NumbersIn
<1>8. s.values[c][2] \in Nat
  BY <1>6, ValuesAreNumbers, NumberIs
<1>9. c \notin FormulaCells(d) => s.values[c] = Stored(d, c)
  BY <1>5, <1>6 DEF IsRightAt
<1> QED BY <1>7, <1>8, <1>9 DEF OperandIn

\* So every pair has the amount of its order.
LEMMA PairHasAmount ==
  ASSUME NEW d, IsInMemory(d), NEW s, IsCalculation(d, s), s.failures = <<>>,
         NEW x, LookupProblems(d, x) = {}, AmountProblems(d, s, x) = {}, NEW o \in Orders(d, x)
  PROVE  /\ PairAmount(NumbersIn(d, s), x, OwnPairs(d, x)[o]) = AmountsOf(d, s, x)[o]
         /\ AmountsOf(d, s, x)[o] \in Nat
<1> DEFINE q == <<o, x.quantity>>
           r == <<ProductOf(d, x, o), x.price>>
           n == NumbersIn(d, s)
<1>1. AmountProblem(d, s, x, o) = {}
  BY DEF AmountProblems
<1>2. NumberProblem(d, q) = {} /\ NumberProblem(d, r) = {}
  BY <1>1 DEF AmountProblem
<1>3. q = <<q[1], q[2]>> /\ r = <<r[1], r[2]>>
  OBVIOUS
<1>4. PairAmount(n, x, OwnPairs(d, x)[o]) = n[q] * n[r]
  BY DEF PairAmount, OwnPairs
<1>5. AmountsOf(d, s, x)[o] = OperandIn(d, s, q) * OperandIn(d, s, r)
  BY DEF AmountsOf, AmountOf
<1> HIDE DEF q, r
<1>6. n[q] = OperandIn(d, s, q) /\ n[r] = OperandIn(d, s, r) /\ n[q] \in Nat /\ n[r] \in Nat
  BY <1>2, <1>3, NumbersAreOperands
<1> HIDE DEF n
<1> DEFINE a == n[q]
           b == n[r]
<1>7. AmountsOf(d, s, x)[o] = a * b /\ a \in Nat /\ b \in Nat
  BY <1>5, <1>6
<1>8. a * b \in Nat
  <2> HIDE DEF a, b
  <2> QED BY <1>7
<1> QED BY <1>4, <1>7, <1>8 DEF n

OrdersUnder(d, x, category) == {o \in Orders(d, x) : CategoryOf(d, x, o) = category}

\* The sum of a category's orders is the sum of its pairs.
LEMMA CategoryAddsUp ==
  ASSUME NEW d, IsInMemory(d), NEW s, IsCalculation(d, s), s.failures = <<>>,
         NEW x, LookupProblems(d, x) = {}, AmountProblems(d, s, x) = {}, NEW category
  PROVE  PairSum(NumbersIn(d, s), x, PairsUnder(d, x, category)) =
           SumFunctionOnSet(AmountsOf(d, s, x), OrdersUnder(d, x, category))
<1> DEFINE S == OrdersUnder(d, x, category)
           T == PairsUnder(d, x, category)
           h == OwnPairs(d, x)
           g == AmountsOf(d, s, x)
           n == NumbersIn(d, s)
           f == [pair \in T |-> PairAmount(n, x, pair)]
<1>1. SendsTo(h, Orders(d, x), PairsOf(d, x))
  BY PairsAre
<1>2. \A o \in Orders(d, x) : Stored(d, <<h[o][2], x.category>>) = CategoryOf(d, x, o)
  BY DEF OwnPairs, CategoryOf
<1>3. \A o \in S : o \in Orders(d, x) /\ CategoryOf(d, x, o) = category
  BY DEF OrdersUnder
<1>4. \A o \in Orders(d, x) : PairAmount(n, x, h[o]) = g[o] /\ g[o] \in Nat
  BY PairHasAmount
<1>5. IsFiniteSet(S)
  <2>1. S \in SUBSET DOMAIN d.entities
    BY DEF OrdersUnder, Orders, RowsOf
  <2> QED BY <2>1, FS_Subset DEF IsInMemory
<1> HIDE DEF h, g, n
<1>6. SendsTo(h, S, T)
  <2>1. \A o \in S : h[o] \in T
    BY <1>1, <1>2, <1>3 DEF SendsTo, PairsUnder
  <2>2. ASSUME NEW pair \in T PROVE \E o \in S : pair = h[o]
    <3>1. pair \in PairsOf(d, x) /\ Stored(d, <<pair[2], x.category>>) = category
      BY DEF PairsUnder
    <3>2. PICK o \in Orders(d, x) : pair = h[o]
      BY <1>1, <3>1 DEF SendsTo
    <3> QED BY <1>2, <3>1, <3>2 DEF OrdersUnder
  <2>3. \A a, b \in S : h[a] = h[b] => a = b
    BY <1>1, <1>3 DEF SendsTo
  <2> HIDE DEF S, T
  <2> QED BY <2>1, <2>2, <2>3 DEF SendsTo
<1>7. \A o \in S : PairAmount(n, x, h[o]) = g[o] /\ g[o] \in Nat
  BY <1>3, <1>4
<1> HIDE DEF S, T
<1>8. \A pair \in T : f[pair] = PairAmount(n, x, pair)
  OBVIOUS
<1> HIDE DEF f
<1>9. IsFiniteSet(T)
  BY <1>5, <1>6, SentIsAsMany
<1>10. \A o \in S : f[h[o]] = g[o]
  BY <1>6, <1>7, <1>8 DEF SendsTo
<1>11. AreNatural(g, S)
  BY <1>7 DEF AreNatural
<1>12. AreNatural(f, T)
  <2> SUFFICES ASSUME NEW pair \in T PROVE f[pair] \in Nat
    BY DEF AreNatural
  <2>1. PICK o \in S : pair = h[o]
    BY <1>6 DEF SendsTo
  <2> QED BY <1>7, <1>10, <2>1
<1>13. PICK t : IsTotal(t, g, S) /\ SumFunctionOnSet(g, S) = t[S]
  BY <1>5, <1>11, SumFunctionIs
<1>14. PICK u : IsTotal(u, f, T) /\ PairSum(n, x, T) = u[T]
  BY <1>8, <1>9, <1>12, PairSumIs
<1>15. u[T] = t[S]
  BY <1>5, <1>6, <1>10, <1>13, <1>14, SumCarries
<1> QED BY <1>13, <1>14, <1>15 DEF S, T, g, n

\* No order is left out of a complete grouped sum, and none counted twice.
LEMMA SumsHold ==
  ASSUME NEW d, IsInMemory(d), IsCalculation(d, Rebuilt(d)), NEW x
  PROVE  SumsAllOrders(d, Rebuilt(d), x)
<1> DEFINE s == Rebuilt(d)
           h == OwnPairs(d, x)
           ofPairs == {Stored(d, <<pair[2], x.category>>) : pair \in PairsOf(d, x)}
           ofOrders == {CategoryOf(d, x, o) : o \in Orders(d, x)}
           pairs(c) == PairSum(NumbersIn(d, s), x, PairsUnder(d, x, c))
           orders(c) == SumFunctionOnSet(AmountsOf(d, s, x), OrdersUnder(d, x, c))
<1> SUFFICES ASSUME GroupedSum(d, s, x)[1] = "complete", s.failures = <<>>
             PROVE  SumOfPairs(d, s, x)
  BY SumsAre
<1> HIDE DEF s
<1>1. LookupProblems(d, x) = {} /\ AmountProblems(d, s, x) = {} /\ GroupedSum(d, s, x)[2] = SumsOf(d, s, x)
  BY CompleteIs
<1>2. SendsTo(h, Orders(d, x), PairsOf(d, x))
  BY <1>1, PairsAre
<1>3. Cardinality(PairsOf(d, x)) = Cardinality(Orders(d, x))
  <2>1. Orders(d, x) \in SUBSET DOMAIN d.entities
    BY DEF Orders, RowsOf
  <2>2. IsFiniteSet(Orders(d, x))
    BY <2>1, FS_Subset DEF IsInMemory
  <2> HIDE DEF h
  <2> QED BY <1>2, <2>2, SentIsAsMany
<1>4. \A o \in Orders(d, x) : Stored(d, <<h[o][2], x.category>>) = CategoryOf(d, x, o)
  BY DEF OwnPairs, CategoryOf
<1> HIDE DEF h
<1>5. ofPairs = ofOrders
  <2>1. ASSUME NEW pair \in PairsOf(d, x) PROVE Stored(d, <<pair[2], x.category>>) \in ofOrders
    <3>1. PICK o \in Orders(d, x) : pair = h[o]
      BY <1>2 DEF SendsTo
    <3> QED BY <1>4, <3>1
  <2>2. ASSUME NEW o \in Orders(d, x) PROVE CategoryOf(d, x, o) \in ofPairs
    <3>1. h[o] \in PairsOf(d, x)
      BY <1>2 DEF SendsTo
    <3> QED BY <1>4, <3>1
  <2>3. ofPairs \subseteq ofOrders
    BY <2>1
  <2>4. ofOrders \subseteq ofPairs
    BY <2>2
  <2> HIDE DEF ofPairs, ofOrders
  <2> QED BY <2>3, <2>4
<1>6. \A c : pairs(c) = orders(c)
  BY <1>1, CategoryAddsUp DEF s
<1>7. SumsOf(d, s, x) = [c \in ofOrders |-> orders(c)]
  BY DEF SumsOf, OrdersUnder
<1> HIDE DEF ofPairs, ofOrders, pairs, orders
<1>8. GroupedSum(d, s, x)[2] = [c \in ofPairs |-> pairs(c)]
  BY <1>1, <1>5, <1>6, <1>7
<1> QED BY <1>3, <1>8 DEF SumOfPairs, Orders, ofPairs, pairs, s

-----------------------------------------------------------------------------
(* What discovery says of a field is what the operations do with it.        *)

\* The values CapabilitiesAreHonest tries, and what it says of one cell.
TriedValues(d) ==
  {NumberValue(0), TextValue("a"), <<"boolean", TRUE>>, DateValue(0)}
    \union {ReferenceValue(e) : e \in DOMAIN d.entities}
Unbound(f) == [f EXCEPT !.constraint = {}]
ToldOfValue(d, told, f, v) ==
  /\ ValueFits(d, Unbound(f), v) => told.values[Kind(v)] \in {{}, {"formula_edit"}}
  /\ told.values[Kind(v)] = {} => ValueFits(d, Unbound(f), v) \/ Kind(v) = "reference"
ToldOfFormula(d, told, f) == told.formula = {} <=> ValueFits(d, f, FormulaValue([op |-> "sum"]))
ToldOfReasoning(d, told, target) ==
  told.reasoning = {} <=> FormulaReasoning(d, Rebuilt(d), {WholeDocument}, target)[1] = "formula"
ToldOfOverride(d, told, target) ==
  told.override = {} <=> Scenario(d, {WholeDocument}, [cell \in {target} |-> 0], {})[1] = "evaluated"

LEMMA HonestyIs ==
  ASSUME NEW d, NEW told, NEW target,
         \A v \in TriedValues(d) : ToldOfValue(d, told, The(Declaration(d, target)), v),
         ToldOfFormula(d, told, The(Declaration(d, target))),
         ToldOfReasoning(d, told, target), ToldOfOverride(d, told, target)
  PROVE  IsHonest(d, told, target)
BY DEF IsHonest, TriedValues, Unbound, ToldOfValue, ToldOfFormula, ToldOfReasoning, ToldOfOverride

\* What is told of a field that is declared as f.
ToldOf(f, stored) ==
  [values |-> [kind \in InputKinds |-> ValueApplicability(f, stored, kind)],
   formula |-> IF f.type = NumberType THEN {} ELSE {"non_numeric"},
   reasoning |-> ReasoningApplicability(stored),
   override |-> OverrideApplicability(stored)]

LEMMA CapabilitiesAre ==
  ASSUME NEW d, NEW authority, NEW target, Capabilities(d, authority, target)[1] = "field"
  PROVE  /\ Declaration(d, target) # {}
         /\ Capabilities(d, authority, target)[2] = ToldOf(The(Declaration(d, target)), StoredAt(d, target))
<1> DEFINE stored == StoredAt(d, target)
           declared == Declaration(d, target)
           f == The(declared)
           told == CapabilitiesOf(d, target)
           answer == Capabilities(d, authority, target)
<1>1. told # {} /\ answer[2] = The(told)
  BY DEF Capabilities
<1>2. told = {ToldOf(g, stored) : g \in {g \in declared : g.required => stored # {}}}
  BY DEF CapabilitiesOf, ToldOf
<1> HIDE DEF told, answer
<1>3. declared # {}
  BY <1>1, <1>2
<1>4. declared = {f}
  <2>1. \E g : declared = {g}
    BY <1>3, DeclaredIs
  <2> HIDE DEF declared
  <2> QED BY <2>1 DEF The
<1> HIDE DEF declared, f, stored
<1>5. told = {ToldOf(f, stored)}
  BY <1>1, <1>2, <1>4
<1>6. The(told) = ToldOf(f, stored)
  BY <1>5 DEF The
<1> QED BY <1>1, <1>3, <1>6 DEF answer, declared, f, stored

\* A field that is declared is a record, whose type is a kind or a reference.
LEMMA FieldIsRecord ==
  ASSUME NEW d, IsInMemory(d), NEW c, Declaration(d, c) # {}, NEW f, f = The(Declaration(d, c))
  PROVE  /\ Unbound(f).type = f.type /\ Unbound(f).constraint = {}
         /\ f.type[1] # "reference" => f.type = <<f.type[1]>>
<1> DEFINE s == d.entities[c[1]].schema
<1>1. s \in DOMAIN d.schemas /\ c[2] \in DOMAIN d.schemas[s].fields /\ Declaration(d, c) = {d.schemas[s].fields[c[2]]}
  BY DeclaredIs
<1>2. f = d.schemas[s].fields[c[2]]
  BY <1>1 DEF The
<1> HIDE DEF s
<1>3. IsField(f)
  <2>1. \A x \in DOMAIN d.schemas : IsSchema(d.schemas[x])
    BY Zenon DEF IsInMemory, IsDocument
  <2>2. IsSchema(d.schemas[s])
    BY <1>1, <2>1
  <2>3. \A x \in DOMAIN d.schemas[s].fields : IsField(d.schemas[s].fields[x])
    BY <2>2 DEF IsSchema
  <2> QED BY <1>1, <1>2, <2>3
<1>4. f \in FieldsOf(d)
  <2>1. d.schemas[s] \in Range(d.schemas)
    BY <1>1 DEF Range
  <2>2. f \in {d.schemas[s].fields[x] : x \in DOMAIN d.schemas[s].fields}
    BY <1>1, <1>2
  <2> QED BY <2>1, <2>2 DEF FieldsOf
<1>5. Unbound(f).type = f.type /\ Unbound(f).constraint = {}
  BY <1>3 DEF Unbound, IsField, IsRecord
<1> QED BY <1>4, <1>5 DEF IsInMemory

LEMMA ValuesAreTold ==
  ASSUME NEW d, IsInMemory(d), NEW c, Declaration(d, c) # {}, NEW f, f = The(Declaration(d, c)),
         NEW stored, NEW v \in TriedValues(d)
  PROVE  ToldOfValue(d, ToldOf(f, stored), f, v)
<1> DEFINE kind == Kind(v)
           g == Unbound(f)
           told == ToldOf(f, stored).values[kind]
<1>1. kind \in InputKinds /\ kind # "formula"
  <2>1. \/ v = NumberValue(0) \/ v = TextValue("a") \/ v = <<"boolean", TRUE>> \/ v = DateValue(0)
        \/ \E e : v = ReferenceValue(e)
    BY DEF TriedValues
  <2>2. CASE v = NumberValue(0)
    BY <2>2 DEF NumberValue, Kind, InputKinds
  <2>3. CASE v = TextValue("a")
    BY <2>3 DEF TextValue, Kind, InputKinds
  <2>4. CASE v = <<"boolean", TRUE>>
    BY <2>4 DEF Kind, InputKinds
  <2>5. CASE v = DateValue(0)
    BY <2>5 DEF DateValue, Kind, InputKinds
  <2>6. CASE \E e : v = ReferenceValue(e)
    BY <2>6 DEF ReferenceValue, Kind, InputKinds
  <2> QED BY <2>1, <2>2, <2>3, <2>4, <2>5, <2>6
<1>2. told = ValueApplicability(f, stored, kind)
  BY <1>1 DEF ToldOf
<1>3. g.type = f.type /\ g.constraint = {} /\ (f.type[1] # "reference" => f.type = <<f.type[1]>>)
  BY FieldIsRecord
<1> HIDE DEF g, told
<1>4. ValueFits(d, g, v) => f.type[1] = kind
  BY <1>1, <1>3 DEF ValueFits, ReferenceType
<1>5. kind = f.type[1] /\ kind # "reference" => ValueFits(d, g, v)
  BY <1>1, <1>3 DEF ValueFits
<1>6. /\ kind = f.type[1] => told \in {{}, {"formula_edit"}}
      /\ told = {} => kind = f.type[1]
  BY <1>2 DEF ValueApplicability
<1> QED BY <1>4, <1>5, <1>6 DEF ToldOfValue, g, told

\* A cell holds one value at most.
LEMMA StoredIsOne ==
  ASSUME NEW d, NEW c, c = <<c[1], c[2]>>
  PROVE  /\ StoredAt(d, c) = {} \/ StoredAt(d, c) = {Stored(d, c)}
         /\ c \in Cells(d) <=> StoredAt(d, c) # {}
  BY StoredIsCell, StoredAtIs

LEMMA ReasoningIsTold ==
  ASSUME NEW d, NEW c, c = <<c[1], c[2]>>, NEW f
  PROVE  ToldOfReasoning(d, ToldOf(f, StoredAt(d, c)), c)
<1> DEFINE stored == StoredAt(d, c)
           answer == FormulaReasoning(d, Rebuilt(d), {WholeDocument}, c)
           told == ToldOf(f, stored).reasoning
<1>1. \/ answer[1] = "unresolved" /\ stored = {}
      \/ answer[1] = "unsupported" /\ stored # {} /\ c \notin FormulaCells(d)
      \/ answer[1] = "formula" /\ stored # {} /\ c \in FormulaCells(d)
  BY WholePermits DEF FormulaReasoning
<1>2. told = ReasoningApplicability(stored)
  BY DEF ToldOf
<1> HIDE DEF answer, told
<1>3. stored = {} => told # {}
  BY <1>2 DEF ReasoningApplicability
<1>4. stored # {} => stored = {Stored(d, c)} /\ c \in Cells(d)
  BY StoredIsOne
<1> HIDE DEF stored
<1>5. stored # {} => (told = {} <=> \A v \in stored : Kind(v) = "formula")
  BY <1>2 DEF ReasoningApplicability
<1>6. stored # {} => (told = {} <=> c \in FormulaCells(d))
  BY <1>4, <1>5 DEF FormulaCells
<1> QED BY <1>1, <1>3, <1>6 DEF ToldOfReasoning, answer, told, stored

LEMMA OverrideIsTold ==
  ASSUME NEW d, NEW c, c = <<c[1], c[2]>>, NEW f
  PROVE  ToldOfOverride(d, ToldOf(f, StoredAt(d, c)), c)
<1> DEFINE stored == StoredAt(d, c)
           o == [cell \in {c} |-> 0]
           failures == OverrideFailures(d, o)
           answer == Scenario(d, {WholeDocument}, o, {})
           told == ToldOf(f, stored).override
           kinds == {Kind(v) : v \in stored}
<1>1. DOMAIN o = {c} /\ o # <<>>
  OBVIOUS
<1>2. ScenarioAdmitted(d, {WholeDocument}, o, {})
  <2> HIDE DEF o
  <2> QED BY <1>1, WholePermits DEF ScenarioAdmitted
<1> HIDE DEF o
<1>3. \/ answer[1] = "invalid" /\ failures # {}
      \/ answer[1] = "evaluated" /\ failures = {}
  BY <1>2 DEF Scenario
<1>4. failures = {} <=> kinds = {"number"}
  <2> DEFINE bad == {x \in DOMAIN o : {Kind(v) : v \in StoredAt(d, x)} # {"number"}}
  <2>1. bad = {} <=> kinds = {"number"}
    BY <1>1
  <2>2. failures = {<<x, {Kind(v) : v \in StoredAt(d, x)}>> : x \in bad}
    BY DEF OverrideFailures
  <2> HIDE DEF bad, failures, kinds
  <2> QED BY <2>1, <2>2
<1>5. told = OverrideApplicability(stored)
  BY DEF ToldOf
<1> HIDE DEF answer, told, failures, stored
<1>6. told = {} <=> stored # {} /\ \A v \in stored : Kind(v) = "number"
  BY <1>5 DEF OverrideApplicability
<1>7. kinds = {"number"} <=> stored # {} /\ \A v \in stored : Kind(v) = "number"
  OBVIOUS
<1> HIDE DEF kinds
<1> QED BY <1>3, <1>4, <1>6, <1>7 DEF ToldOfOverride, answer, told, o, stored

LEMMA CapabilitiesHold ==
  ASSUME NEW d, IsInMemory(d)
  PROVE  CapabilitiesAreHonest(d)
<1> SUFFICES ASSUME NEW authority \in Authorities[d.id],
                    NEW target \in (DOMAIN d.entities) \X {c[2] : c \in Columns(d)},
                    Capabilities(d, authority, target)[1] = "field"
             PROVE  IsHonest(d, Capabilities(d, authority, target)[2], target)
  BY DEF CapabilitiesAreHonest
<1> DEFINE f == The(Declaration(d, target))
           stored == StoredAt(d, target)
           told == ToldOf(f, stored)
<1>1. Declaration(d, target) # {} /\ Capabilities(d, authority, target)[2] = told
  BY CapabilitiesAre
<1>2. target = <<target[1], target[2]>>
  OBVIOUS
<1>3. \A v \in TriedValues(d) : ToldOfValue(d, told, f, v)
  BY <1>1, ValuesAreTold
<1>4. ToldOfFormula(d, told, f)
  BY DEF ToldOfFormula, ToldOf, ValueFits, FormulaValue, Kind
<1>5. ToldOfReasoning(d, told, target)
  BY <1>2, ReasoningIsTold
<1>6. ToldOfOverride(d, told, target)
  BY <1>2, OverrideIsTold
<1> QED BY <1>1, <1>3, <1>4, <1>5, <1>6, HonestyIs

-----------------------------------------------------------------------------
(* The queries of one document.                                            *)

\* All queries of one document agree, with its calculation from nothing.
LEMMA QueriesAgreeAlways ==
  ASSUME NEW d, IsInMemory(d), NEW kept, \A state \in kept : state = Rebuilt(d)
  PROVE  QueriesAgreeOn(d, kept)
<1>1. IsCalculation(d, Rebuilt(d))
  BY RebuiltIsCalculation
<1>2. ASSUME NEW q \in UNION Entry(Analyses, d.id), q.group # {} PROVE Parts(d, Rebuilt(d), q)
  <2>1. PICK asked \in Range(Analyses) : q \in asked
    BY DEF Entry, Range
  <2>2. IsAsked(Normalized(q))
    BY <2>1, AnalysesAssumption
  <2> QED BY <1>1, <1>2, <2>2, PartsHold
<1>3. ASSUME NEW state \in kept, NEW x \in d.definitions PROVE SumsAllOrders(d, state, x)
  <2>1. SumsAllOrders(d, Rebuilt(d), x)
    BY <1>1, SumsHold
  <2>2. state = Rebuilt(d)
    OBVIOUS
  <2> QED BY <2>1, <2>2
<1>4. CapabilitiesAreHonest(d)
  BY CapabilitiesHold
<1> QED BY <1>2, <1>3, <1>4 DEF QueriesAgreeOn, AnswersAddUp

\* The calculation that is kept is one from nothing, as long as it is covered.
LEMMA KeptIsRebuilt ==
  ASSUME NEW d, NEW covering, NEW kept, covering => kept = Rebuilt(d)
  PROVE  \A state \in {kept : only \in {covering} \intersect {TRUE}} : state = Rebuilt(d)
<1> SUFFICES ASSUME NEW only \in {covering} \intersect {TRUE} PROVE kept = Rebuilt(d)
  OBVIOUS
<1>1. covering = TRUE
  OBVIOUS
<1>2. covering
  BY <1>1
<1> QED BY <1>2

-----------------------------------------------------------------------------
\* However the session publishes, no two queries disagree about one document. The
\* groups of an analysis share out the rows of the whole, and their counts and
\* maxima come to the whole's; a complete saved sum has every order once, with the
\* one product of its key, at the numbers the session keeps; and the capabilities
\* told of a field are what validation, scenarios and explanations then do
\* (analysis_operations.rs, keyed_grouped_sum_operations.rs, capability_discovery.rs).
THEOREM QueriesStayInAgreement == Spec => QueriesAgree
<1> DEFINE agree == QueriesAgreeOn(document, {calculation : only \in {covered} \intersect {TRUE}})
           agreeNext == QueriesAgreeOn(document', {calculation' : only \in {covered'} \intersect {TRUE}})
<1>1. SessionIsRight => agree
  <2> SUFFICES ASSUME SessionIsRight PROVE agree
    OBVIOUS
  <2>1. IsInMemory(document) /\ (covered => calculation = Rebuilt(document))
    BY DEF SessionIsRight
  <2> QED BY <2>1, KeptIsRebuilt, QueriesAgreeAlways
<1>2. SessionIsRight' => agreeNext
  <2> SUFFICES ASSUME SessionIsRight' PROVE agreeNext
    OBVIOUS
  <2>1. IsInMemory(document') /\ (covered' => calculation' = Rebuilt(document'))
    BY DEF SessionIsRight
  <2> QED BY <2>1, KeptIsRebuilt, QueriesAgreeAlways
<1> HIDE DEF agree, agreeNext
<1>3. SessionIsRight /\ SessionIsRight' => [agree /\ agreeNext]_vars
  BY <1>1, <1>2
<1> QED BY <1>3, SessionStaysRight, PTL DEF QueriesAgree, agree, agreeNext
=============================================================================
