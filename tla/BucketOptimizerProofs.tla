------------------------- MODULE BucketOptimizerProofs -------------------------
(******************************************************************************)
(* What the optimizer computes, for every log and every MAX_UNIQUE_BUCKETS,   *)
(* alignment and padding: lemmas about the operators of BucketOptimizer,      *)
(* shown by induction on the turns of the code's loops.                       *)
(******************************************************************************)
EXTENDS BucketOptimizer, ListLemmas

--------------------------------------------------------------------------------
(* The bucket of an event. *)

(* FirstFit names the first bucket that is large enough. *)
LEMMA FirstFitIsFirst ==
  ASSUME NEW bs \in Seq(Nat), NEW s, FirstFit(bs, s) # 0
  PROVE  /\ FirstFit(bs, s) \in DOMAIN bs
         /\ Fits(s, bs[FirstFit(bs, s)])
         /\ \A j \in DOMAIN bs : Fits(s, bs[j]) => FirstFit(bs, s) <= j
<1> DEFINE F == {i \in DOMAIN bs : Fits(s, bs[i])}
<1>1. F \in SUBSET Nat /\ F # {} /\ FirstFit(bs, s) = Min(F)
  BY DEF FirstFit
<1>2. Min(F) \in F /\ \A j \in F : Min(F) <= j
  <2> HIDE DEF F
  <2> QED
    BY <1>1, MinIsLeast
<1> QED
  BY <1>1, <1>2

(* The larger of two numbers. *)
LEMMA MaxOfTwo ==
  ASSUME NEW a \in Int, NEW b \in Int
  PROVE  Max({a, b}) = IF a >= b THEN a ELSE b
<1> DEFINE T == {a, b}
           c == IF a >= b THEN a ELSE b
<1>1. T \in SUBSET Int /\ T # {} /\ c \in Int /\ \A y \in T : y <= c
  OBVIOUS
<1>2. Max(T) \in T /\ \A y \in T : y <= Max(T)
  <2> HIDE DEF T, c
  <2> QED
    BY <1>1, MaxIsGreatest
<1> QED
  BY <1>2

--------------------------------------------------------------------------------
(* set_distributions. *)

(* The values that current_use and max_concurrent_use can have. *)
UseRecs(bs) == [use : [DOMAIN bs -> Int], max : [DOMAIN bs -> Nat]]

(* What they are before the first event. *)
NoUse(bs) == [use |-> [i \in DOMAIN bs |-> 0], max |-> [i \in DOMAIN bs |-> 0]]

(* From d to r the counts of bucket i change as event e says. *)
IsUseStep(bs, d, e, i, r) ==
  /\ \A j \in DOMAIN bs \ {i} : r.use[j] = d.use[j] /\ r.max[j] = d.max[j]
  /\ e.alloc => /\ r.use[i] = d.use[i] + 1
                /\ r.max[i] = IF d.max[i] >= r.use[i] THEN d.max[i] ELSE r.use[i]
  /\ ~e.alloc => r.use[i] = d.use[i] - 1 /\ r.max[i] = d.max[i]

(* An event that fits a bucket changes the counts of this bucket. *)
LEMMA SetDistributionStep ==
  ASSUME NEW bs \in Seq(Nat), NEW d \in UseRecs(bs), NEW e \in Lines,
         FirstFit(bs, e.size) # 0
  PROVE  /\ SetDistribution(bs, d, e) \in UseRecs(bs)
         /\ IsUseStep(bs, d, e, FirstFit(bs, e.size), SetDistribution(bs, d, e))
<1> DEFINE i == FirstFit(bs, e.size)
           r == SetDistribution(bs, d, e)
           u == IF e.alloc THEN d.use[i] + 1 ELSE d.use[i] - 1
           m == IF e.alloc THEN Max({d.max[i], u}) ELSE d.max[i]
<1>1. i \in DOMAIN bs
  BY FirstFitIsFirst
<1>2. r = [use |-> [d.use EXCEPT ![i] = u], max |-> [d.max EXCEPT ![i] = m]]
  BY DEF SetDistribution
<1> HIDE DEF i, r
<1>3. /\ d.use \in [DOMAIN bs -> Int] /\ d.max \in [DOMAIN bs -> Nat]
      /\ d.use[i] \in Int /\ d.max[i] \in Nat /\ u \in Int
  BY <1>1 DEF UseRecs
<1>4. Max({d.max[i], u}) = IF d.max[i] >= u THEN d.max[i] ELSE u
  <2>1. d.max[i] \in Int /\ u \in Int
    BY <1>3
  <2> HIDE DEF u
  <2> QED
    BY <2>1, MaxOfTwo, Zenon
<1>5. m \in Nat
  BY <1>3, <1>4
<1> HIDE DEF u, m
<1>6. r \in UseRecs(bs)
  BY <1>2, <1>3, <1>5 DEF UseRecs
<1>7. /\ r.use[i] = u /\ r.max[i] = m
      /\ \A j \in DOMAIN bs \ {i} : r.use[j] = d.use[j] /\ r.max[j] = d.max[j]
  BY <1>1, <1>2, <1>3
<1>8. e.alloc => u = d.use[i] + 1 /\ m = IF d.max[i] >= u THEN d.max[i] ELSE u
  BY <1>4 DEF m, u
<1>9. ~e.alloc => u = d.use[i] - 1 /\ m = d.max[i]
  BY DEF m, u
<1>10. IsUseStep(bs, d, e, i, r)
  BY <1>7, <1>8, <1>9 DEF IsUseStep
<1> QED
  BY <1>6, <1>10 DEF i, r

(* set_distributions runs through the log, event by event. *)
LEMMA UsesRun ==
  ASSUME NEW bs \in Seq(Nat), NEW l \in Seq(Lines), ~NoFit(bs, l)
  PROVE  /\ Uses(bs, l) \in [0..Len(l) -> UseRecs(bs)]
         /\ Uses(bs, l)[0] = NoUse(bs)
         /\ \A n \in 1..Len(l) :
              Uses(bs, l)[n] = SetDistribution(bs, Uses(bs, l)[n - 1], l[n])
<1> DEFINE D == UseRecs(bs)
           N == Len(l)
           turn(d, n) == IF n = 0 THEN NoUse(bs) ELSE SetDistribution(bs, d[n - 1], l[n])
           IsRun(d) == d = [n \in 0..N |-> turn(d, n)]
           step == [x \in D \X (1..N) |-> SetDistribution(bs, x[1], l[x[2]])]
<1>1. N \in Nat /\ NoUse(bs) \in D
  BY DEF NoUse, UseRecs
<1>2. \A n \in 1..N : l[n] \in Lines /\ FirstFit(bs, l[n].size) # 0
  BY DEF NoFit
<1>3. \A d \in D : \A n \in 1..N : SetDistribution(bs, d, l[n]) \in D
  BY <1>2, SetDistributionStep
<1>4. step \in [D \X (1..N) -> D]
  BY <1>3
<1>5. \A d \in D : \A n \in 1..N : step[<<d, n>>] = SetDistribution(bs, d, l[n])
  OBVIOUS
<1> HIDE DEF step, D, N
<1>6. PICK f : IsLoop(f, D, N, NoUse(bs), step)
  BY <1>1, <1>4, RecursionExists, Zenon
<1>7. \A n \in 1..N : n \in 0..N /\ n - 1 \in 0..N /\ n # 0 /\ f[n - 1] \in D
  BY <1>1, <1>6 DEF IsLoop
<1>8. \A n \in 0..N : f[n] = turn(f, n)
  <2>1. \A n \in 0..N : n = 0 \/ n \in 1..N
    BY <1>1
  <2> QED
    BY <1>5, <1>6, <1>7, <2>1, Zenon DEF IsLoop
<1>9. IsRun(f)
  <2>1. f = [n \in 0..N |-> f[n]]
    BY <1>6 DEF IsLoop
  <2> HIDE DEF turn
  <2> QED
    BY <1>8, <2>1
<1> DEFINE u == CHOOSE g : IsRun(g)
<1>10. Uses(bs, l) = u
  BY DEF Uses, NoUse, N
<1>11. IsRun(u)
  <2> HIDE DEF IsRun
  <2> QED
    BY <1>9, Zenon
<1> HIDE DEF u
<1>12. \A n \in 0..N : u[n] = turn(u, n)
  BY <1>11, Zenon
<1>13. 0 \in 0..N
  BY <1>1
<1>14. u[0] = NoUse(bs)
  BY <1>12, <1>13, Zenon
<1>15. \A n \in 1..N : u[n] = SetDistribution(bs, u[n - 1], l[n])
  BY <1>7, <1>12, Zenon
<1>16. u \in [0..N -> D]
  <2> DEFINE T == {n \in 0..N : u[n] \in D}
  <2>1. 0 \in T
    BY <1>1, <1>13, <1>14
  <2>2. ASSUME NEW n \in 0..(N - 1), n \in T PROVE n + 1 \in T
    <3>1. n + 1 \in 1..N /\ n + 1 \in 0..N /\ (n + 1) - 1 = n
      BY <1>1
    <3> QED
      BY <1>3, <1>15, <2>2, <3>1
  <2>3. \A n \in 0..N : n \in T
    <3> HIDE DEF T
    <3> QED
      BY <1>1, <2>1, <2>2, InductionUpTo
  <2>4. u = [n \in 0..N |-> u[n]]
    <3> HIDE DEF turn
    <3> QED
      BY <1>11
  <2> QED
    BY <2>3, <2>4
<1> QED
  BY <1>10, <1>14, <1>15, <1>16 DEF N, D

(* Blocks for the peak: at no time are more of a bucket in use than dist has. *)
LEMMA PeakIsCovered ==
  ASSUME NEW bs \in Seq(Nat), NEW l \in Seq(Lines), ~NoFit(bs, l)
  PROVE  /\ Distribution(bs, l) \in [DOMAIN bs -> Nat]
         /\ \A n \in 0..Len(l), i \in DOMAIN bs :
              Uses(bs, l)[n].use[i] <= Distribution(bs, l)[i]
<1> DEFINE u == Uses(bs, l)
           N == Len(l)
           T == {n \in 0..N : \A m \in 0..n, i \in DOMAIN bs : u[m].use[i] <= u[n].max[i]}
<1>1. N \in Nat /\ u \in [0..N -> UseRecs(bs)] /\ u[0] = NoUse(bs)
  BY UsesRun
<1>2. ASSUME NEW n \in 0..(N - 1)
      PROVE  /\ n + 1 \in 0..N /\ n \in 0..N
             /\ \A i \in DOMAIN bs : /\ u[n].max[i] <= u[n + 1].max[i]
                                     /\ u[n].use[i] <= u[n].max[i] => u[n + 1].use[i] <= u[n + 1].max[i]
  <2>1. n + 1 \in 1..N /\ (n + 1) - 1 = n /\ n \in 0..N /\ n + 1 \in 0..N
    BY <1>1
  <2>2. u[n + 1] = SetDistribution(bs, u[n], l[n + 1])
    BY <2>1, UsesRun
  <2>3. l[n + 1] \in Lines /\ FirstFit(bs, l[n + 1].size) # 0
    BY <2>1 DEF NoFit
  <2>4. u[n] \in UseRecs(bs)
    BY <1>1, <2>1
  <2> DEFINE k == FirstFit(bs, l[n + 1].size)
             e == l[n + 1]
  <2> HIDE DEF u
  <2>5. /\ \A j \in DOMAIN bs \ {k} : u[n + 1].use[j] = u[n].use[j] /\ u[n + 1].max[j] = u[n].max[j]
        /\ e.alloc => /\ u[n + 1].use[k] = u[n].use[k] + 1
                      /\ u[n + 1].max[k] = IF u[n].max[k] >= u[n + 1].use[k]
                                             THEN u[n].max[k] ELSE u[n + 1].use[k]
        /\ ~e.alloc => u[n + 1].use[k] = u[n].use[k] - 1 /\ u[n + 1].max[k] = u[n].max[k]
    <3>1. IsUseStep(bs, u[n], l[n + 1], FirstFit(bs, l[n + 1].size), u[n + 1])
      BY <2>2, <2>3, <2>4, SetDistributionStep, Zenon
    <3> QED
      BY <3>1, Zenon DEF IsUseStep
  <2>6. \A i \in DOMAIN bs : /\ u[n].use[i] \in Int /\ u[n].max[i] \in Nat
    BY <2>4 DEF UseRecs
  <2> HIDE DEF k, e
  <2>7. ASSUME NEW i \in DOMAIN bs
        PROVE  /\ u[n].max[i] <= u[n + 1].max[i]
               /\ u[n].use[i] <= u[n].max[i] => u[n + 1].use[i] <= u[n + 1].max[i]
    <3> DEFINE a == u[n].use[i]
               b == u[n].max[i]
               c == u[n + 1].use[i]
               d == u[n + 1].max[i]
    <3> HIDE DEF a, b, c, d
    <3>0. a \in Int /\ b \in Nat
      BY <2>6 DEF a, b
    <3>1. CASE i # k
      <4>1. c = a /\ d = b
        BY <2>5, <3>1 DEF a, b, c, d
      <4>2. b <= d /\ (a <= b => c <= d)
        BY <3>0, <4>1
      <4> QED
        BY <4>2 DEF a, b, c, d
    <3>2. CASE i = k /\ e.alloc
      <4>1. c = a + 1 /\ d = IF b >= c THEN b ELSE c
        BY <2>5, <3>2 DEF a, b, c, d
      <4>2. b <= d /\ (a <= b => c <= d)
        BY <3>0, <4>1
      <4> QED
        BY <4>2 DEF a, b, c, d
    <3>3. CASE i = k /\ ~e.alloc
      <4>1. c = a - 1 /\ d = b
        BY <2>5, <3>3 DEF a, b, c, d
      <4>2. b <= d /\ (a <= b => c <= d)
        BY <3>0, <4>1
      <4> QED
        BY <4>2 DEF a, b, c, d
    <3> QED
      BY <3>1, <3>2, <3>3
  <2> QED
    BY <2>1, <2>7
<1> HIDE DEF u
<1>3. 0 \in T
  BY <1>1 DEF NoUse
<1>4. \A n \in 0..N, i \in DOMAIN bs : u[n].use[i] \in Int /\ u[n].max[i] \in Nat
  BY <1>1 DEF UseRecs
<1>5. ASSUME NEW n \in 0..(N - 1), n \in T PROVE n + 1 \in T
  <2>1. ASSUME NEW m \in 0..(n + 1), NEW i \in DOMAIN bs PROVE u[m].use[i] <= u[n + 1].max[i]
    <3>1. n \in 0..n /\ n + 1 \in 0..N /\ n \in 0..N /\ (m = n + 1 \/ m \in 0..n) /\ m \in 0..N
      BY <1>1
    <3>2. u[m].use[i] <= u[n].max[i] \/ m = n + 1
      BY <1>5, <3>1
    <3>3. u[n].use[i] <= u[n].max[i]
      BY <1>5, <3>1
    <3>4. /\ u[n].max[i] <= u[n + 1].max[i]
          /\ u[n].use[i] <= u[n].max[i] => u[n + 1].use[i] <= u[n + 1].max[i]
      BY <1>2
    <3>5. u[m].use[i] \in Int /\ u[n].max[i] \in Nat /\ u[n + 1].max[i] \in Nat
      BY <1>4, <3>1
    <3>6. CASE m = n + 1
      BY <3>3, <3>4, <3>6
    <3>7. CASE u[m].use[i] <= u[n].max[i]
      <4> DEFINE a == u[m].use[i]
                 b == u[n].max[i]
                 d == u[n + 1].max[i]
      <4> HIDE DEF a, b, d
      <4>1. a \in Int /\ b \in Nat /\ d \in Nat /\ a <= b /\ b <= d
        BY <3>4, <3>5, <3>7 DEF a, b, d
      <4>2. a <= d
        BY <4>1
      <4> QED
        BY <4>2 DEF a, d
    <3> QED
      BY <3>2, <3>6, <3>7
  <2> QED
    BY <1>2, <2>1
<1>6. N \in T
  <2> HIDE DEF T, N
  <2>1. \A n \in 0..N : n \in T
    BY <1>1, <1>3, <1>5, InductionUpTo
  <2> QED
    BY <1>1, <2>1
<1>7. Distribution(bs, l) = u[N].max /\ N \in 0..N
  BY <1>1 DEF Distribution, u
<1>8. u[N].max \in [DOMAIN bs -> Nat]
  <2>1. u[N] \in UseRecs(bs)
    <3> HIDE DEF N
    <3> QED
      BY <1>1
  <2> HIDE DEF N
  <2> QED
    BY <2>1 DEF UseRecs
<1> QED
  BY <1>6, <1>7, <1>8 DEF u

--------------------------------------------------------------------------------
(* Counting lines of a log. *)

(* The lines that allocate and that free size s. *)
AllocOf(s) == [alloc |-> TRUE, size |-> s]
FreeOf(s)  == [alloc |-> FALSE, size |-> s]

(* How many of the first n lines are x, and how much of a size is then in use. *)
Count(l, n, x) == Cardinality({i \in 1..n : l[i] = x})
InUse(l, n, s) == Count(l, n, AllocOf(s)) - Count(l, n, FreeOf(s))

(* Counting line by line. *)
LEMMA CountStep ==
  ASSUME NEW l, NEW x, NEW n \in Nat
  PROVE  /\ Count(l, n, x) \in Nat /\ Count(l, n, x) <= n
         /\ Count(l, 0, x) = 0
         /\ Count(l, n + 1, x) = IF l[n + 1] = x THEN Count(l, n, x) + 1 ELSE Count(l, n, x)
<1> DEFINE A == {i \in 1..n : l[i] = x}
           B == {i \in 1..(n + 1) : l[i] = x}
<1>1. IsFiniteSet(1..n) /\ Cardinality(1..n) = n
  BY FS_Interval
<1>2. IsFiniteSet(A) /\ Cardinality(A) \in Nat /\ Cardinality(A) <= n
  BY <1>1, FS_Subset, FS_CardinalityType
<1>3. {i \in 1..0 : l[i] = x} = {}
  OBVIOUS
<1>4. Count(l, 0, x) = 0
  BY <1>3, FS_EmptySet, Zenon DEF Count
<1>5. n + 1 \notin A
  OBVIOUS
<1>6. CASE l[n + 1] = x
  <2>1. B = A \cup {n + 1}
    BY <1>6
  <2>2. Cardinality(A \cup {n + 1}) = Cardinality(A) + 1
    <3> HIDE DEF A
    <3> QED
      BY <1>2, <1>5, FS_AddElement
  <2> QED
    BY <1>2, <1>4, <1>6, <2>1, <2>2 DEF Count
<1>7. CASE l[n + 1] # x
  <2>1. B = A
    BY <1>7
  <2> QED
    BY <1>2, <1>4, <1>7, <2>1 DEF Count
<1> QED
  BY <1>6, <1>7

(* ... is what NumAllocs and NumFrees do. *)
LEMMA NumIsCount ==
  ASSUME NEW l \in Seq(Lines), NEW s, NEW n \in 0..Len(l)
  PROVE  /\ NumAllocs(Prefix(l, n), s) = Count(l, n, AllocOf(s))
         /\ NumFrees(Prefix(l, n), s) = Count(l, n, FreeOf(s))
<1>1. DOMAIN Prefix(l, n) = 1..n /\ \A i \in 1..n : Prefix(l, n)[i] = l[i]
  BY DEF Prefix
<1>2. \A x : {i \in DOMAIN Prefix(l, n) : Prefix(l, n)[i] = x} = {i \in 1..n : l[i] = x}
  BY <1>1
<1> QED
  BY <1>2, Zenon DEF NumAllocs, NumFrees, Count, AllocOf, FreeOf

(* The whole log. *)
LEMMA NumIsCountAll ==
  ASSUME NEW l \in Seq(Lines), NEW s
  PROVE  /\ NumAllocs(l, s) = Count(l, Len(l), AllocOf(s))
         /\ NumFrees(l, s) = Count(l, Len(l), FreeOf(s))
<1>1. DOMAIN l = 1..Len(l)
  OBVIOUS
<1> QED
  BY <1>1, Zenon DEF NumAllocs, NumFrees, Count, AllocOf, FreeOf

(* A line is an allocation or a free of its size. *)
LEMMA LineCases ==
  ASSUME NEW e \in Lines
  PROVE  /\ e.size \in Sizes
         /\ e.alloc => e = AllocOf(e.size)
         /\ ~e.alloc => e = FreeOf(e.size)
         /\ \A s : e = AllocOf(s) => e.alloc /\ e.size = s
         /\ \A s : e = FreeOf(s) => ~e.alloc /\ e.size = s
<1>1. PICK a \in BOOLEAN, z \in Sizes : e = [alloc |-> a, size |-> z]
  BY DEF Lines
<1>2. CASE a = TRUE
  BY <1>1, <1>2 DEF AllocOf, FreeOf
<1>3. CASE a = FALSE
  BY <1>1, <1>3 DEF AllocOf, FreeOf
<1> QED
  BY <1>2, <1>3

(* What is in use at the start, and after a line. *)
LEMMA InUseStep ==
  ASSUME NEW l \in Seq(Lines), NEW s, NEW n \in 0..Len(l)
  PROVE  /\ InUse(l, n, s) \in Int /\ InUse(l, n, s) <= n
         /\ InUse(l, 0, s) = 0
         /\ n > 0 => /\ l[n].size # s => InUse(l, n, s) = InUse(l, n - 1, s)
                     /\ l[n].size = s /\ l[n].alloc => InUse(l, n, s) = InUse(l, n - 1, s) + 1
                     /\ l[n].size = s /\ ~l[n].alloc => InUse(l, n, s) = InUse(l, n - 1, s) - 1
<1> DEFINE A(m) == Count(l, m, AllocOf(s))
           F(m) == Count(l, m, FreeOf(s))
<1>1. n \in Nat
  OBVIOUS
<1>2. A(n) \in Nat /\ F(n) \in Nat /\ A(n) <= n /\ F(n) <= n /\ A(0) = 0 /\ F(0) = 0
  BY <1>1, CountStep, Zenon
<1>3. \A m : InUse(l, m, s) = A(m) - F(m)
  BY DEF InUse
<1>4. ASSUME n > 0
      PROVE  /\ l[n].size # s => InUse(l, n, s) = InUse(l, n - 1, s)
             /\ l[n].size = s /\ l[n].alloc => InUse(l, n, s) = InUse(l, n - 1, s) + 1
             /\ l[n].size = s /\ ~l[n].alloc => InUse(l, n, s) = InUse(l, n - 1, s) - 1
  <2>1. n - 1 \in Nat /\ (n - 1) + 1 = n /\ l[n] \in Lines
    BY <1>1, <1>4
  <2>2. A(n - 1) \in Nat /\ F(n - 1) \in Nat
    BY <2>1, CountStep, Zenon
  <2>3. /\ A((n - 1) + 1) = IF l[(n - 1) + 1] = AllocOf(s) THEN A(n - 1) + 1 ELSE A(n - 1)
        /\ F((n - 1) + 1) = IF l[(n - 1) + 1] = FreeOf(s) THEN F(n - 1) + 1 ELSE F(n - 1)
    BY <2>1, CountStep, Zenon
  <2>4. /\ A(n) = IF l[n] = AllocOf(s) THEN A(n - 1) + 1 ELSE A(n - 1)
        /\ F(n) = IF l[n] = FreeOf(s) THEN F(n - 1) + 1 ELSE F(n - 1)
    BY <2>1, <2>3, Zenon
  <2>5. /\ l[n].size # s => l[n] # AllocOf(s) /\ l[n] # FreeOf(s)
        /\ l[n].size = s /\ l[n].alloc => l[n] = AllocOf(s) /\ l[n] # FreeOf(s)
        /\ l[n].size = s /\ ~l[n].alloc => l[n] # AllocOf(s) /\ l[n] = FreeOf(s)
    BY <2>1, LineCases, Zenon
  <2> HIDE DEF A, F
  <2> QED
    BY <1>3, <2>2, <2>4, <2>5
<1> HIDE DEF A, F
<1> QED
  BY <1>1, <1>2, <1>3, <1>4

(* A well-formed log never frees more of a size than it has allocated. *)
LEMMA WellFormedInUse ==
  ASSUME NEW l \in Seq(Lines), WellFormed(l), NEW s \in Sizes, NEW n \in 0..Len(l)
  PROVE  InUse(l, n, s) >= 0
<1> DEFINE T == {NumFrees(Prefix(l, m), s) - NumAllocs(Prefix(l, m), s) : m \in 0..Len(l)}
<1>1. \A m \in 0..Len(l) :
        /\ Count(l, m, FreeOf(s)) \in Nat /\ Count(l, m, AllocOf(s)) \in Nat
        /\ Count(l, m, FreeOf(s)) <= m
  BY CountStep
<1>2. \A m \in 0..Len(l) :
        NumFrees(Prefix(l, m), s) - NumAllocs(Prefix(l, m), s)
          = Count(l, m, FreeOf(s)) - Count(l, m, AllocOf(s))
  BY NumIsCount
<1>3. T \in SUBSET Int /\ T # {} /\ Len(l) \in Int /\ \A y \in T : y <= Len(l)
  <2>1. ASSUME NEW y \in T PROVE y \in Int /\ y <= Len(l)
    BY <1>1, <1>2, <2>1
  <2>2. 0 \in 0..Len(l)
    OBVIOUS
  <2> QED
    BY <2>1, <2>2
<1>4. \A y \in T : y <= Max(T)
  <2> HIDE DEF T
  <2> QED
    BY <1>3, MaxIsGreatest
<1>5. Max(T) = 0
  BY DEF WellFormed, Unmatched
<1>6. Count(l, n, FreeOf(s)) - Count(l, n, AllocOf(s)) <= 0
  BY <1>2, <1>4, <1>5
<1> QED
  BY <1>1, <1>6 DEF InUse

--------------------------------------------------------------------------------
(* The sort of optimize_buckets. *)

(* The buckets are in ascending order. *)
Ascending(bs) == \A i, j \in DOMAIN bs : i < j => bs[i] <= bs[j]

(* Where FirstLarger is: everything before it is not larger, nothing after it *)
(* is smaller.                                                                *)
LEMMA FirstLargerPlace ==
  ASSUME NEW bs \in Seq(Nat), NEW b \in Nat, Ascending(bs)
  PROVE  /\ FirstLarger(bs, b) \in 1..(Len(bs) + 1)
         /\ \A i \in DOMAIN bs : i < FirstLarger(bs, b) => bs[i] <= b
         /\ \A i \in DOMAIN bs : FirstLarger(bs, b) <= i => b <= bs[i]
<1> DEFINE T == {i \in DOMAIN bs : bs[i] > b} \cup {Len(bs) + 1}
           p == FirstLarger(bs, b)
<1>1. T \in SUBSET Nat /\ T # {} /\ p = Min(T) /\ DOMAIN bs = 1..Len(bs) /\ Len(bs) \in Nat
  BY DEF FirstLarger
<1>2. p \in T /\ \A i \in T : p <= i
  <2> HIDE DEF T, p
  <2> QED
    BY <1>1, MinIsLeast
<1> HIDE DEF p
<1>3. p \in 1..(Len(bs) + 1)
  BY <1>1, <1>2
<1>4. ASSUME NEW i \in DOMAIN bs, i < p PROVE bs[i] <= b
  <2>1. ~(p <= i) /\ bs[i] \in Nat
    BY <1>1, <1>3, <1>4
  <2>2. i \notin T
    BY <1>2, <2>1
  <2> QED
    BY <2>1, <2>2
<1>5. ASSUME NEW i \in DOMAIN bs, p <= i PROVE b <= bs[i]
  <2>1. p \in DOMAIN bs /\ bs[p] > b /\ bs[p] \in Nat /\ bs[i] \in Nat
    BY <1>1, <1>2, <1>3, <1>5
  <2>2. p = i \/ bs[p] <= bs[i]
    BY <1>1, <1>5, <2>1 DEF Ascending
  <2> QED
    BY <2>1, <2>2
<1> QED
  BY <1>3, <1>4, <1>5 DEF p

(* One turn of the sort. *)
LEMMA SortTurn ==
  ASSUME NEW bs \in Seq(Nat), NEW b \in Nat, Ascending(bs)
  PROVE  LET r == InsertAt(bs, FirstLarger(bs, b), b)
         IN  /\ r \in Seq(Nat) /\ Len(r) = Len(bs) + 1
             /\ Ascending(r)
             /\ ToSet(r) = ToSet(bs) \cup {b}
<1> DEFINE p == FirstLarger(bs, b)
           r == InsertAt(bs, p, b)
<1>1. /\ p \in 1..(Len(bs) + 1)
      /\ \A i \in DOMAIN bs : i < p => bs[i] <= b
      /\ \A i \in DOMAIN bs : p <= i => b <= bs[i]
  BY FirstLargerPlace
<1> HIDE DEF p
<1>2. r \in Seq(Nat) /\ Len(r) = Len(bs) + 1
  BY <1>1, InsertAtPlaces
<1>3. /\ DOMAIN r = 1..(Len(bs) + 1)
      /\ \A i \in DOMAIN r :
           \/ i < p /\ i \in DOMAIN bs /\ r[i] = bs[i]
           \/ i = p /\ r[i] = b
           \/ p < i /\ i - 1 \in DOMAIN bs /\ p <= i - 1 /\ r[i] = bs[i - 1]
      /\ ToSet(r) = ToSet(bs) \cup {b}
  BY <1>1, InsertAtCases
<1> HIDE DEF r
<1>4. Ascending(r)
  <2>1. SUFFICES ASSUME NEW i \in DOMAIN r, NEW j \in DOMAIN r, i < j
                 PROVE  r[i] <= r[j]
    BY DEF Ascending
  <2>2. i \in Nat /\ j \in Nat /\ p \in Nat
    BY <1>1, <1>3
  <2>3. /\ \A k \in DOMAIN bs : bs[k] \in Nat /\ k \in Nat
        /\ \A k, m \in DOMAIN bs : k < m => bs[k] <= bs[m]
    BY DEF Ascending
  <2>4. CASE i < p
    BY <1>1, <1>3, <2>1, <2>2, <2>3, <2>4
  <2>5. CASE i = p
    BY <1>1, <1>3, <2>1, <2>2, <2>3, <2>5
  <2>6. CASE p < i
    <3>1. i - 1 \in DOMAIN bs /\ r[i] = bs[i - 1]
      BY <1>3, <2>2, <2>6
    <3>2. j - 1 \in DOMAIN bs /\ r[j] = bs[j - 1]
      BY <1>3, <2>1, <2>2, <2>6
    <3> QED
      BY <2>1, <2>2, <2>3, <3>1, <3>2
  <2> QED
    BY <2>2, <2>4, <2>5, <2>6
<1> QED
  BY <1>2, <1>3, <1>4 DEF r, p

(* The sort runs through the list, turn by turn. *)
LEMMA SortRun ==
  ASSUME NEW bs \in Seq(Nat)
  PROVE  /\ SortSteps(bs)[0] = <<>>
         /\ \A n \in 1..Len(bs) :
              SortSteps(bs)[n] = InsertAt(SortSteps(bs)[n - 1],
                                          FirstLarger(SortSteps(bs)[n - 1], bs[n]), bs[n])
<1> DEFINE D == {s \in Seq(Nat) : Ascending(s)}
           N == Len(bs)
           put(s, n) == InsertAt(s, FirstLarger(s, bs[n]), bs[n])
           turn(f, n) == IF n = 0 THEN <<>> ELSE put(f[n - 1], n)
           IsRun(f) == f = [n \in 0..N |-> turn(f, n)]
           step == [x \in D \X (1..N) |-> put(x[1], x[2])]
<1>1. N \in Nat /\ <<>> \in D
  BY DEF Ascending
<1>2. \A s \in D : \A n \in 1..N : put(s, n) \in D
  <2>1. ASSUME NEW s \in D, NEW n \in 1..N PROVE put(s, n) \in D
    <3>1. s \in Seq(Nat) /\ Ascending(s) /\ bs[n] \in Nat
      OBVIOUS
    <3> QED
      BY <3>1, SortTurn
  <2> QED
    BY <2>1
<1>3. step \in [D \X (1..N) -> D]
  <2> HIDE DEF put, D
  <2> QED
    BY <1>2
<1>4. \A s \in D : \A n \in 1..N : step[<<s, n>>] = put(s, n)
  <2> HIDE DEF put, D
  <2> QED
    OBVIOUS
<1> HIDE DEF step, D, N, put
<1>5. PICK f : IsLoop(f, D, N, <<>>, step)
  BY <1>1, <1>3, RecursionExists, Zenon
<1>6. \A n \in 1..N : n \in 0..N /\ n - 1 \in 0..N /\ n # 0 /\ f[n - 1] \in D
  BY <1>1, <1>5 DEF IsLoop
<1>7. \A n \in 0..N : f[n] = turn(f, n)
  <2>1. \A n \in 0..N : n = 0 \/ n \in 1..N
    BY <1>1
  <2> QED
    BY <1>4, <1>5, <1>6, <2>1, Zenon DEF IsLoop
<1>8. IsRun(f)
  <2>1. f = [n \in 0..N |-> f[n]]
    BY <1>5 DEF IsLoop
  <2> HIDE DEF turn
  <2> QED
    BY <1>7, <2>1
<1> DEFINE u == CHOOSE g : IsRun(g)
<1>9. SortSteps(bs) = u
  BY DEF SortSteps, N, put
<1>10. IsRun(u)
  <2> HIDE DEF IsRun
  <2> QED
    BY <1>8, Zenon
<1> HIDE DEF u
<1>11. \A n \in 0..N : u[n] = turn(u, n)
  BY <1>10, Zenon
<1>12. 0 \in 0..N
  BY <1>1
<1>13. u[0] = <<>>
  BY <1>11, <1>12, Zenon
<1>14. \A n \in 1..N : u[n] = put(u[n - 1], n)
  BY <1>6, <1>11, Zenon
<1> QED
  BY <1>9, <1>13, <1>14 DEF N, put

(* Sort returns the same buckets in ascending order. *)
LEMMA SortSorts ==
  ASSUME NEW bs \in Seq(Nat)
  PROVE  /\ Sort(bs) \in Seq(Nat) /\ Len(Sort(bs)) = Len(bs)
         /\ Ascending(Sort(bs))
         /\ ToSet(Sort(bs)) = ToSet(bs)
<1> DEFINE N == Len(bs)
           u == SortSteps(bs)
           OK(n) == /\ u[n] \in Seq(Nat) /\ Len(u[n]) = n /\ Ascending(u[n])
                    /\ ToSet(u[n]) = {bs[i] : i \in 1..n}
           T == {n \in 0..N : OK(n)}
<1>1. N \in Nat /\ u[0] = <<>>
  BY SortRun
<1>2. \A n \in 1..N : u[n] = InsertAt(u[n - 1], FirstLarger(u[n - 1], bs[n]), bs[n])
  BY SortRun
<1> HIDE DEF u
<1>3. 0 \in T
  <2>1. OK(0)
    BY <1>1 DEF Ascending, ToSet
  <2> HIDE DEF OK
  <2> QED
    BY <1>1, <2>1
<1>4. ASSUME NEW n \in 0..(N - 1), n \in T PROVE n + 1 \in T
  <2>1. n \in Nat /\ n + 1 \in 1..N /\ n + 1 \in 0..N /\ (n + 1) - 1 = n /\ bs[n + 1] \in Nat
    BY <1>1
  <2>2. u[n] \in Seq(Nat) /\ Len(u[n]) = n /\ Ascending(u[n]) /\ ToSet(u[n]) = {bs[i] : i \in 1..n}
    BY <1>4
  <2>3. u[n + 1] = InsertAt(u[n], FirstLarger(u[n], bs[n + 1]), bs[n + 1])
    BY <1>2, <2>1
  <2>4. /\ u[n + 1] \in Seq(Nat) /\ Len(u[n + 1]) = Len(u[n]) + 1 /\ Ascending(u[n + 1])
        /\ ToSet(u[n + 1]) = ToSet(u[n]) \cup {bs[n + 1]}
    BY <2>1, <2>2, <2>3, SortTurn
  <2>5. {bs[i] : i \in 1..(n + 1)} = {bs[i] : i \in 1..n} \cup {bs[n + 1]}
    BY <2>1
  <2>6. OK(n + 1)
    BY <2>2, <2>4, <2>5
  <2> HIDE DEF OK
  <2> QED
    BY <2>1, <2>6
<1>5. OK(N)
  <2> HIDE DEF T, N, OK
  <2>1. \A n \in 0..N : n \in T
    BY <1>1, <1>3, <1>4, InductionUpTo
  <2>2. N \in T
    BY <1>1, <2>1
  <2> QED
    BY <2>2 DEF T
<1>6. ToSet(bs) = {bs[i] : i \in 1..N} /\ Sort(bs) = u[N]
  BY DEF ToSet, Sort, u
<1> QED
  BY <1>5, <1>6

--------------------------------------------------------------------------------
(* find_max_concurent_allocations. *)

(* The AllocSizeNode records; concurrent may be below zero. *)
Nodes == [size : Sizes, count : Nat, concurrent : Int, maxConcurrent : Nat]

(* The list has each size once, the largest first. *)
Descending(list) == \A i, j \in DOMAIN list : i < j => list[i].size > list[j].size

(* The sizes with a node. *)
SizesOf(list) == {list[i].size : i \in DOMAIN list}

(* Where a new size belongs. *)
LEMMA FirstSmallerPlace ==
  ASSUME NEW list \in Seq(Nodes), NEW s \in Sizes, Descending(list), s \notin SizesOf(list)
  PROVE  /\ FirstSmaller(list, s) \in 1..(Len(list) + 1)
         /\ \A i \in DOMAIN list : i < FirstSmaller(list, s) => list[i].size > s
         /\ \A i \in DOMAIN list : FirstSmaller(list, s) <= i => s > list[i].size
<1> DEFINE T == {i \in DOMAIN list : list[i].size < s} \cup {Len(list) + 1}
           p == FirstSmaller(list, s)
<1>1. T \in SUBSET Nat /\ T # {} /\ p = Min(T) /\ DOMAIN list = 1..Len(list) /\ Len(list) \in Nat
  BY DEF FirstSmaller
<1>2. p \in T /\ \A i \in T : p <= i
  <2> HIDE DEF T, p
  <2> QED
    BY <1>1, MinIsLeast
<1> HIDE DEF p
<1>3. p \in 1..(Len(list) + 1)
  BY <1>1, <1>2
<1>4. s \in Nat /\ \A i \in DOMAIN list : list[i].size \in Nat /\ list[i].size # s /\ i \in Nat
  <2>1. \A i \in DOMAIN list : list[i] \in Nodes /\ i \in Nat
    OBVIOUS
  <2> QED
    BY <2>1, OptimizerAssumption DEF Nodes, SizesOf
<1>5. ASSUME NEW i \in DOMAIN list, i < p PROVE list[i].size > s
  <2>1. ~(p <= i)
    BY <1>3, <1>4, <1>5
  <2>2. i \notin T
    BY <1>2, <2>1
  <2> QED
    BY <1>4, <2>2
<1>6. ASSUME NEW i \in DOMAIN list, p <= i PROVE s > list[i].size
  <2>1. p \in DOMAIN list /\ list[p].size < s
    BY <1>1, <1>2, <1>3, <1>6
  <2>2. p = i \/ list[p].size > list[i].size
    BY <1>3, <1>4, <1>6, <2>1 DEF Descending
  <2> QED
    BY <1>4, <2>1, <2>2
<1> QED
  BY <1>3, <1>5, <1>6 DEF p

(* find_or_create_alloc_size keeps the order and adds at most the new node. *)
LEMMA FindOrCreate ==
  ASSUME NEW list \in Seq(Nodes), NEW s \in Sizes, Descending(list)
  PROVE  LET r == find_or_create_alloc_size(list, s)
         IN  /\ r \in Seq(Nodes) /\ Descending(r)
             /\ SizesOf(r) = SizesOf(list) \cup {s}
             /\ \A x \in ToSet(r) : \/ x \in ToSet(list)
                                    \/ x = NewAllocSize(s) /\ s \notin SizesOf(list)
<1> DEFINE r == find_or_create_alloc_size(list, s)
<1>1. CASE s \in SizesOf(list)
  <2>1. r = list
    BY <1>1 DEF find_or_create_alloc_size, SizesOf
  <2> HIDE DEF r
  <2> QED
    BY <1>1, <2>1 DEF r
<1>2. CASE s \notin SizesOf(list)
  <2> DEFINE p == FirstSmaller(list, s)
             e == NewAllocSize(s)
  <2>1. r = InsertAt(list, p, e)
    BY <1>2 DEF find_or_create_alloc_size, SizesOf
  <2>2. /\ p \in 1..(Len(list) + 1)
        /\ \A i \in DOMAIN list : i < p => list[i].size > s
        /\ \A i \in DOMAIN list : p <= i => s > list[i].size
    BY <1>2, FirstSmallerPlace
  <2>3. e \in Nodes /\ e.size = s
    BY DEF NewAllocSize, Nodes
  <2> HIDE DEF p, e
  <2>4. InsertAt(list, p, e) \in Seq(Nodes)
    BY <2>2, <2>3, InsertAtPlaces
  <2>5. LET q == InsertAt(list, p, e)
        IN  /\ DOMAIN q = 1..(Len(list) + 1)
            /\ \A i \in DOMAIN q :
                 \/ i < p /\ i \in DOMAIN list /\ q[i] = list[i]
                 \/ i = p /\ q[i] = e
                 \/ p < i /\ i - 1 \in DOMAIN list /\ p <= i - 1 /\ q[i] = list[i - 1]
            /\ ToSet(q) = ToSet(list) \cup {e}
    BY <2>2, <2>3, InsertAtCases
  <2> HIDE DEF r
  <2>6. r \in Seq(Nodes) /\ ToSet(r) = ToSet(list) \cup {e}
    BY <2>1, <2>4, <2>5
  <2>7. /\ DOMAIN r = 1..(Len(list) + 1)
        /\ \A i \in DOMAIN r :
             \/ i < p /\ i \in DOMAIN list /\ r[i] = list[i]
             \/ i = p /\ r[i] = e
             \/ p < i /\ i - 1 \in DOMAIN list /\ p <= i - 1 /\ r[i] = list[i - 1]
    BY <2>1, <2>5
  <2>8. Descending(r)
    <3>1. SUFFICES ASSUME NEW i \in DOMAIN r, NEW j \in DOMAIN r, i < j
                   PROVE  r[i].size > r[j].size
      BY DEF Descending
    <3>2. i \in Nat /\ j \in Nat /\ p \in Nat
      BY <2>2, <2>7
    <3>3. /\ \A k \in DOMAIN list : list[k].size \in Nat /\ k \in Nat
          /\ s \in Nat
      <4>1. \A k \in DOMAIN list : list[k] \in Nodes /\ k \in Nat
        OBVIOUS
      <4> QED
        BY <4>1, OptimizerAssumption DEF Nodes
    <3>4. \A k, m \in DOMAIN list : k < m => list[k].size > list[m].size
      BY DEF Descending
    <3>5. CASE i < p
      <4>1. i \in DOMAIN list /\ r[i] = list[i]
        BY <2>7, <3>2, <3>5
      <4>2. CASE j < p
        BY <2>7, <3>1, <3>2, <3>4, <4>1, <4>2
      <4>3. CASE j = p
        BY <2>2, <2>3, <2>7, <3>2, <3>5, <4>1, <4>3
      <4>4. CASE p < j
        <5>1. j - 1 \in DOMAIN list /\ r[j] = list[j - 1]
          BY <2>7, <3>2, <4>4
        <5> QED
          BY <3>2, <3>4, <3>5, <4>1, <4>4, <5>1
      <4> QED
        BY <3>2, <4>2, <4>3, <4>4
    <3>6. CASE i = p
      <4>1. r[i] = e
        BY <2>7, <3>2, <3>6
      <4>2. j - 1 \in DOMAIN list /\ p <= j - 1 /\ r[j] = list[j - 1]
        BY <2>7, <3>1, <3>2, <3>6
      <4> QED
        BY <2>2, <2>3, <4>1, <4>2
    <3>7. CASE p < i
      <4>1. i - 1 \in DOMAIN list /\ r[i] = list[i - 1]
        BY <2>7, <3>2, <3>7
      <4>2. j - 1 \in DOMAIN list /\ r[j] = list[j - 1]
        BY <2>7, <3>1, <3>2, <3>7
      <4> QED
        BY <3>1, <3>2, <3>4, <4>1, <4>2
    <3> QED
      BY <3>2, <3>5, <3>6, <3>7
  <2>9. \A q : SizesOf(q) = {x.size : x \in ToSet(q)}
    BY DEF SizesOf, ToSet
  <2>10. SizesOf(r) = SizesOf(list) \cup {s}
    BY <2>3, <2>6, <2>9
  <2>11. \A x \in ToSet(r) : \/ x \in ToSet(list)
                             \/ x = NewAllocSize(s) /\ s \notin SizesOf(list)
    BY <1>2, <2>6 DEF e
  <2> QED
    BY <2>6, <2>8, <2>10, <2>11 DEF r
<1> QED
  BY <1>1, <1>2

(* What an event does to the node of its size. *)
LEMMA CountEventNode ==
  ASSUME NEW x \in Nodes, NEW alloc \in BOOLEAN
  PROVE  LET y == CountEvent(x, alloc)
         IN  /\ y \in Nodes /\ y.size = x.size
             /\ alloc => /\ y.concurrent = x.concurrent + 1 /\ y.count = x.count + 1
                         /\ y.maxConcurrent = IF x.maxConcurrent >= x.concurrent + 1
                                                THEN x.maxConcurrent ELSE x.concurrent + 1
             /\ ~alloc => /\ y.concurrent = x.concurrent - 1 /\ y.count = x.count
                          /\ y.maxConcurrent = x.maxConcurrent
<1> DEFINE c == IF alloc THEN x.concurrent + 1 ELSE x.concurrent - 1
           n == IF alloc THEN x.count + 1 ELSE x.count
           m == IF alloc THEN Max({x.maxConcurrent, x.concurrent + 1}) ELSE x.maxConcurrent
           y == CountEvent(x, alloc)
<1>1. /\ x.size \in Sizes /\ x.count \in Nat /\ x.concurrent \in Int /\ x.maxConcurrent \in Nat
      /\ x = [size |-> x.size, count |-> x.count, concurrent |-> x.concurrent,
              maxConcurrent |-> x.maxConcurrent]
  BY DEF Nodes
<1>2. x.maxConcurrent \in Int /\ x.concurrent + 1 \in Int
  BY <1>1
<1>3. Max({x.maxConcurrent, x.concurrent + 1})
        = IF x.maxConcurrent >= x.concurrent + 1 THEN x.maxConcurrent ELSE x.concurrent + 1
  BY <1>2, MaxOfTwo, Zenon
<1>4. c \in Int /\ n \in Nat /\ m \in Nat
  BY <1>1, <1>3
<1>5. y = [x EXCEPT !.concurrent = c, !.count = n, !.maxConcurrent = m]
  BY DEF CountEvent
<1>6. alloc => /\ c = x.concurrent + 1 /\ n = x.count + 1
               /\ m = IF x.maxConcurrent >= x.concurrent + 1
                        THEN x.maxConcurrent ELSE x.concurrent + 1
  BY <1>3
<1>7. ~alloc => c = x.concurrent - 1 /\ n = x.count /\ m = x.maxConcurrent
  OBVIOUS
<1> HIDE DEF c, n, m, y
<1>8. y = [size |-> x.size, count |-> n, concurrent |-> c, maxConcurrent |-> m]
  BY <1>1, <1>5
<1>9. y \in Nodes /\ y.size = x.size /\ y.concurrent = c /\ y.count = n /\ y.maxConcurrent = m
  BY <1>1, <1>4, <1>8 DEF Nodes
<1> QED
  BY <1>6, <1>7, <1>9 DEF y

(* The list with the event counted. *)
LEMMA CountInListNodes ==
  ASSUME NEW list \in Seq(Nodes), NEW e \in Lines, Descending(list)
  PROVE  LET r == CountInList(list, e)
         IN  /\ r \in Seq(Nodes) /\ Descending(r)
             /\ DOMAIN r = DOMAIN list
             /\ \A i \in DOMAIN list :
                  /\ r[i].size = list[i].size
                  /\ list[i].size = e.size => r[i] = CountEvent(list[i], e.alloc)
                  /\ list[i].size # e.size => r[i] = list[i]
             /\ SizesOf(r) = SizesOf(list)
<1> DEFINE r == CountInList(list, e)
           v(i) == IF list[i].size = e.size THEN CountEvent(list[i], e.alloc) ELSE list[i]
<1>1. e.alloc \in BOOLEAN
  BY DEF Lines
<1>2. DOMAIN list = 1..Len(list) /\ Len(list) \in Nat /\ \A i \in DOMAIN list : list[i] \in Nodes
  OBVIOUS
<1>3. \A i \in DOMAIN list : v(i) \in Nodes /\ v(i).size = list[i].size
  <2>1. \A i \in DOMAIN list : /\ CountEvent(list[i], e.alloc) \in Nodes
                               /\ CountEvent(list[i], e.alloc).size = list[i].size
    BY <1>1, <1>2, CountEventNode
  <2> QED
    BY <1>2, <2>1, Zenon
<1>4. r = [i \in DOMAIN list |-> v(i)]
  BY DEF CountInList
<1>5. \A i \in DOMAIN list : r[i] = v(i)
  BY <1>4, Zenon
<1>6. /\ DOMAIN r = DOMAIN list
      /\ \A i \in DOMAIN list :
           /\ r[i] \in Nodes /\ r[i].size = list[i].size
           /\ list[i].size = e.size => r[i] = CountEvent(list[i], e.alloc)
           /\ list[i].size # e.size => r[i] = list[i]
  BY <1>3, <1>4, <1>5, Zenon
<1>7. r \in Seq(Nodes)
  <2>1. r = [i \in 1..Len(list) |-> v(i)] /\ \A i \in 1..Len(list) : v(i) \in Nodes
    BY <1>2, <1>3, <1>4, Zenon
  <2> HIDE DEF v, r
  <2> QED
    BY <1>2, <2>1
<1> HIDE DEF r, v
<1>8. Descending(r) /\ SizesOf(r) = SizesOf(list)
  BY <1>6 DEF Descending, SizesOf
<1> QED
  BY <1>6, <1>7, <1>8 DEF r

(* The lists that the loop makes. *)
SizeLists == {list \in Seq(Nodes) : Descending(list)}

(* One event: its node is found or made, and counted. *)
SizeTurn(list, e) == CountInList(find_or_create_alloc_size(list, e.size), e)

(* The loop runs through the log, event by event. *)
LEMMA AllocSizesRun ==
  ASSUME NEW l \in Seq(Lines)
  PROVE  /\ AllocSizeLists(l)[0] = <<>>
         /\ \A n \in 0..Len(l) : AllocSizeLists(l)[n] \in SizeLists
         /\ \A n \in 1..Len(l) : AllocSizeLists(l)[n] = SizeTurn(AllocSizeLists(l)[n - 1], l[n])
<1> DEFINE D == SizeLists
           N == Len(l)
           turn(f, n) == IF n = 0 THEN <<>> ELSE SizeTurn(f[n - 1], l[n])
           IsRun(f) == f = [n \in 0..N |-> turn(f, n)]
           step == [x \in D \X (1..N) |-> SizeTurn(x[1], l[x[2]])]
<1>1. N \in Nat /\ <<>> \in D
  BY DEF SizeLists, Descending
<1>2. \A s \in D : \A n \in 1..N : SizeTurn(s, l[n]) \in D
  <2>1. ASSUME NEW s \in D, NEW n \in 1..N PROVE SizeTurn(s, l[n]) \in D
    <3>1. s \in Seq(Nodes) /\ Descending(s) /\ l[n] \in Lines /\ l[n].size \in Sizes
      BY LineCases DEF SizeLists
    <3> DEFINE q == find_or_create_alloc_size(s, l[n].size)
    <3>2. q \in Seq(Nodes) /\ Descending(q)
      BY <3>1, FindOrCreate
    <3> HIDE DEF q
    <3>3. CountInList(q, l[n]) \in Seq(Nodes) /\ Descending(CountInList(q, l[n]))
      BY <3>1, <3>2, CountInListNodes
    <3> QED
      BY <3>3 DEF SizeTurn, SizeLists, q
  <2> QED
    BY <2>1
<1>3. step \in [D \X (1..N) -> D]
  <2> HIDE DEF D
  <2> QED
    BY <1>2
<1>4. \A s \in D : \A n \in 1..N : step[<<s, n>>] = SizeTurn(s, l[n])
  <2> HIDE DEF D
  <2> QED
    OBVIOUS
<1> HIDE DEF step, D, N
<1>5. PICK f : IsLoop(f, D, N, <<>>, step)
  BY <1>1, <1>3, RecursionExists, Zenon
<1>6. \A n \in 1..N : n \in 0..N /\ n - 1 \in 0..N /\ n # 0 /\ f[n - 1] \in D
  BY <1>1, <1>5 DEF IsLoop
<1>7. \A n \in 0..N : f[n] = turn(f, n)
  <2>1. \A n \in 0..N : n = 0 \/ n \in 1..N
    BY <1>1
  <2> QED
    BY <1>4, <1>5, <1>6, <2>1, Zenon DEF IsLoop
<1>8. IsRun(f)
  <2>1. f = [n \in 0..N |-> f[n]]
    BY <1>5 DEF IsLoop
  <2> HIDE DEF turn
  <2> QED
    BY <1>7, <2>1
<1> DEFINE u == CHOOSE g : IsRun(g)
<1>9. AllocSizeLists(l) = u
  BY DEF AllocSizeLists, N, SizeTurn
<1>10. IsRun(u)
  <2> HIDE DEF IsRun
  <2> QED
    BY <1>8, Zenon
<1> HIDE DEF u
<1>11. \A n \in 0..N : u[n] = turn(u, n)
  BY <1>10, Zenon
<1>12. 0 \in 0..N
  BY <1>1
<1>13. u[0] = <<>>
  BY <1>11, <1>12, Zenon
<1>14. \A n \in 1..N : u[n] = SizeTurn(u[n - 1], l[n])
  BY <1>6, <1>11, Zenon
<1>15. \A n \in 0..N : u[n] \in D
  <2> DEFINE T == {n \in 0..N : u[n] \in D}
  <2>1. 0 \in T
    BY <1>1, <1>12, <1>13
  <2>2. ASSUME NEW n \in 0..(N - 1), n \in T PROVE n + 1 \in T
    <3>1. n + 1 \in 1..N /\ n + 1 \in 0..N /\ (n + 1) - 1 = n
      BY <1>1
    <3> QED
      BY <1>2, <1>14, <2>2, <3>1
  <2>3. \A n \in 0..N : n \in T
    <3> HIDE DEF T
    <3> QED
      BY <1>1, <2>1, <2>2, InductionUpTo
  <2> QED
    BY <2>3
<1> QED
  BY <1>9, <1>13, <1>14, <1>15 DEF N, D

(* The counts of node x are what the first n lines say. *)
NodeExact(l, n, x) ==
  /\ x.count = Count(l, n, AllocOf(x.size))
  /\ x.concurrent = InUse(l, n, x.size)
  /\ \E m \in 0..n : x.maxConcurrent = InUse(l, m, x.size)
  /\ \A m \in 0..n : InUse(l, m, x.size) <= x.maxConcurrent

(* The node that is made for a size that has not occurred yet. *)
LEMMA NewNodeExact ==
  ASSUME NEW l \in Seq(Lines), NEW n \in 0..Len(l), NEW s \in Sizes,
         \A i \in 1..n : l[i].size # s
  PROVE  NodeExact(l, n, NewAllocSize(s))
<1>1. ASSUME NEW m \in 0..n, NEW x \in {AllocOf(s), FreeOf(s)} PROVE Count(l, m, x) = 0
  <2>1. x.size = s
    BY <1>1 DEF AllocOf, FreeOf
  <2>2. \A i \in 1..m : l[i] # x
    <3>1. \A i \in 1..m : i \in 1..n
      OBVIOUS
    <3> QED
      BY <2>1, <3>1, Zenon
  <2>3. {i \in 1..m : l[i] = x} = {}
    BY <2>2, Zenon
  <2> QED
    BY <2>3, FS_EmptySet, Zenon DEF Count
<1>2. 0 \in 0..n /\ n \in 0..n
  OBVIOUS
<1>3. \A m \in 0..n : Count(l, m, AllocOf(s)) = 0 /\ Count(l, m, FreeOf(s)) = 0
  BY <1>1, Zenon
<1>4. \A m \in 0..n : InUse(l, m, s) = 0
  BY <1>3 DEF InUse
<1>5. /\ NewAllocSize(s).size = s /\ NewAllocSize(s).count = 0
      /\ NewAllocSize(s).concurrent = 0 /\ NewAllocSize(s).maxConcurrent = 0
  BY DEF NewAllocSize
<1> QED
  BY <1>2, <1>3, <1>4, <1>5 DEF NodeExact

(* A node of another size than the next line's. *)
LEMMA OtherNodeExact ==
  ASSUME NEW l \in Seq(Lines), NEW n \in 0..(Len(l) - 1), NEW x \in Nodes,
         NodeExact(l, n, x), l[n + 1].size # x.size
  PROVE  NodeExact(l, n + 1, x)
<1>1. n \in Nat /\ n + 1 \in 0..Len(l) /\ n + 1 > 0 /\ (n + 1) - 1 = n /\ n \in 0..n
  OBVIOUS
<1>2. InUse(l, n + 1, x.size) = InUse(l, n, x.size)
  BY <1>1, InUseStep
<1>3. Count(l, n + 1, AllocOf(x.size)) = Count(l, n, AllocOf(x.size))
  <2>1. AllocOf(x.size).size = x.size
    BY DEF AllocOf
  <2>2. l[n + 1] # AllocOf(x.size)
    BY <2>1
  <2> QED
    BY <1>1, <2>2, CountStep, Zenon
<1>4. \A m \in 0..(n + 1) : m \in 0..n \/ m = n + 1
  OBVIOUS
<1>5. \A m \in 0..n : m \in 0..(n + 1)
  OBVIOUS
<1>6. \A m \in 0..(n + 1) : InUse(l, m, x.size) <= x.maxConcurrent
  BY <1>1, <1>2, <1>4 DEF NodeExact
<1> QED
  BY <1>2, <1>3, <1>5, <1>6, Zenon DEF NodeExact

(* The node of the next line's size. *)
LEMMA CountedNodeExact ==
  ASSUME NEW l \in Seq(Lines), NEW n \in 0..(Len(l) - 1), NEW x \in Nodes,
         NodeExact(l, n, x), l[n + 1].size = x.size
  PROVE  NodeExact(l, n + 1, CountEvent(x, l[n + 1].alloc))
<1> DEFINE s == x.size
           y == CountEvent(x, l[n + 1].alloc)
<1>1. /\ n \in Nat /\ n + 1 \in 0..Len(l) /\ n + 1 > 0 /\ (n + 1) - 1 = n /\ n \in 0..n
      /\ n + 1 \in 0..(n + 1) /\ l[n + 1] \in Lines
  OBVIOUS
<1>2. l[n + 1].alloc \in BOOLEAN
  BY <1>1 DEF Lines
<1>3. /\ y \in Nodes /\ y.size = s
      /\ l[n + 1].alloc => /\ y.concurrent = x.concurrent + 1 /\ y.count = x.count + 1
                           /\ y.maxConcurrent = IF x.maxConcurrent >= x.concurrent + 1
                                                  THEN x.maxConcurrent ELSE x.concurrent + 1
      /\ ~l[n + 1].alloc => /\ y.concurrent = x.concurrent - 1 /\ y.count = x.count
                            /\ y.maxConcurrent = x.maxConcurrent
  BY <1>2, CountEventNode
<1> HIDE DEF y
<1>4. /\ l[n + 1].alloc => InUse(l, n + 1, s) = InUse(l, n, s) + 1
      /\ ~l[n + 1].alloc => InUse(l, n + 1, s) = InUse(l, n, s) - 1
  BY <1>1, InUseStep
<1>5. Count(l, n + 1, AllocOf(s)) = IF l[n + 1].alloc THEN Count(l, n, AllocOf(s)) + 1
                                                      ELSE Count(l, n, AllocOf(s))
  <2>1. l[n + 1] = AllocOf(s) <=> l[n + 1].alloc
    BY <1>1, LineCases, Zenon
  <2>2. Count(l, n + 1, AllocOf(s)) = IF l[n + 1] = AllocOf(s) THEN Count(l, n, AllocOf(s)) + 1
                                                              ELSE Count(l, n, AllocOf(s))
    BY <1>1, CountStep, Zenon
  <2> QED
    BY <2>1, <2>2, Zenon
<1>6. /\ x.count = Count(l, n, AllocOf(s)) /\ x.concurrent = InUse(l, n, s)
      /\ \A m \in 0..n : InUse(l, m, s) <= x.maxConcurrent
  BY DEF NodeExact
<1>7. PICK k \in 0..n : x.maxConcurrent = InUse(l, k, s)
  BY DEF NodeExact
<1>8. /\ \A m \in 0..(n + 1) : (m \in 0..n \/ m = n + 1) /\ m \in 0..Len(l)
      /\ k \in 0..(n + 1)
  OBVIOUS
<1>9. \A m \in 0..(n + 1) : InUse(l, m, s) \in Int
  BY <1>8, InUseStep
<1>10. x.maxConcurrent \in Nat /\ x.concurrent \in Int
  BY DEF Nodes
<1> HIDE DEF s
<1>11. y.count = Count(l, n + 1, AllocOf(s)) /\ y.concurrent = InUse(l, n + 1, s)
  BY <1>2, <1>3, <1>4, <1>5, <1>6
<1>12. y.maxConcurrent = InUse(l, k, s) \/ y.maxConcurrent = InUse(l, n + 1, s)
  BY <1>2, <1>3, <1>4, <1>6, <1>7
<1>13. x.maxConcurrent <= y.maxConcurrent /\ InUse(l, n + 1, s) <= y.maxConcurrent
  <2>1. CASE l[n + 1].alloc
    BY <1>3, <1>4, <1>6, <1>10, <2>1
  <2>2. CASE ~l[n + 1].alloc
    <3>1. InUse(l, n, s) <= x.maxConcurrent
      BY <1>1, <1>6
    <3> QED
      BY <1>3, <1>4, <1>6, <1>10, <2>2, <3>1
  <2> QED
    BY <2>1, <2>2
<1>14. \A m \in 0..(n + 1) : InUse(l, m, s) <= y.maxConcurrent
  <2>1. y.maxConcurrent \in Nat
    BY <1>3 DEF Nodes
  <2> QED
    BY <1>6, <1>8, <1>9, <1>10, <1>13, <2>1
<1> QED
  BY <1>1, <1>3, <1>8, <1>11, <1>12, <1>14, Zenon DEF NodeExact, y

(* After every event the list has the sizes so far, with exact counts. *)
LEMMA AllocSizesExact ==
  ASSUME NEW l \in Seq(Lines)
  PROVE  /\ AllocSizes(l) \in SizeLists
         /\ SizesOf(AllocSizes(l)) = {l[i].size : i \in 1..Len(l)}
         /\ \A x \in ToSet(AllocSizes(l)) : NodeExact(l, Len(l), x)
<1> DEFINE N == Len(l)
           u == AllocSizeLists(l)
           OK(n) == /\ SizesOf(u[n]) = {l[i].size : i \in 1..n}
                    /\ \A x \in ToSet(u[n]) : NodeExact(l, n, x)
           T == {n \in 0..N : OK(n)}
<1>1. /\ N \in Nat /\ u[0] = <<>>
      /\ \A n \in 0..N : u[n] \in SizeLists
      /\ \A n \in 1..N : u[n] = SizeTurn(u[n - 1], l[n])
  BY AllocSizesRun
<1> HIDE DEF u
<1>2. 0 \in T
  <2>1. OK(0)
    BY <1>1 DEF SizesOf, ToSet
  <2> HIDE DEF OK
  <2> QED
    BY <1>1, <2>1
<1>3. ASSUME NEW n \in 0..(N - 1), n \in T PROVE n + 1 \in T
  <2> DEFINE e == l[n + 1]
             q == find_or_create_alloc_size(u[n], e.size)
             r == CountInList(q, e)
  <2>1. /\ n \in Nat /\ n + 1 \in 1..N /\ n + 1 \in 0..N /\ n \in 0..N /\ (n + 1) - 1 = n
        /\ e \in Lines /\ u[n] \in Seq(Nodes) /\ Descending(u[n])
    BY <1>1 DEF SizeLists
  <2>2. e.size \in Sizes
    BY <2>1, LineCases
  <2>3. u[n + 1] = r
    BY <1>1, <2>1 DEF SizeTurn
  <2>4. SizesOf(u[n]) = {l[i].size : i \in 1..n} /\ \A x \in ToSet(u[n]) : NodeExact(l, n, x)
    BY <1>3
  <2> HIDE DEF e
  <2>5. /\ q \in Seq(Nodes) /\ Descending(q) /\ SizesOf(q) = SizesOf(u[n]) \cup {e.size}
        /\ \A x \in ToSet(q) : \/ x \in ToSet(u[n])
                               \/ x = NewAllocSize(e.size) /\ e.size \notin SizesOf(u[n])
    BY <2>1, <2>2, FindOrCreate
  <2> HIDE DEF q
  <2>6. /\ DOMAIN r = DOMAIN q /\ SizesOf(r) = SizesOf(q)
        /\ \A i \in DOMAIN q :
             /\ q[i].size = e.size => r[i] = CountEvent(q[i], e.alloc)
             /\ q[i].size # e.size => r[i] = q[i]
    BY <2>1, <2>5, CountInListNodes
  <2> HIDE DEF r
  <2>7. SizesOf(r) = {l[i].size : i \in 1..(n + 1)}
    <3>1. {l[i].size : i \in 1..(n + 1)} = {l[i].size : i \in 1..n} \cup {e.size}
      BY <2>1 DEF e
    <3> QED
      BY <2>4, <2>5, <2>6, <3>1
  <2>8. \A x \in ToSet(q) : x \in Nodes /\ NodeExact(l, n, x)
    <3>1. ASSUME NEW x \in ToSet(q) PROVE x \in Nodes /\ NodeExact(l, n, x)
      <4>1. x \in Nodes
        BY <2>5 DEF ToSet
      <4>2. CASE x \in ToSet(u[n])
        BY <2>4, <4>1, <4>2
      <4>3. CASE x = NewAllocSize(e.size) /\ e.size \notin SizesOf(u[n])
        <5>1. \A i \in 1..n : l[i].size # e.size
          BY <2>4, <4>3
        <5> QED
          BY <2>1, <2>2, <4>1, <4>3, <5>1, NewNodeExact
      <4> QED
        BY <2>5, <4>2, <4>3
    <3> QED
      BY <3>1
  <2>9. \A x \in ToSet(r) : NodeExact(l, n + 1, x)
    <3>1. SUFFICES ASSUME NEW i \in DOMAIN q PROVE NodeExact(l, n + 1, r[i])
      BY <2>6 DEF ToSet
    <3>2. q[i] \in Nodes /\ NodeExact(l, n, q[i])
      BY <2>8 DEF ToSet
    <3>3. CASE q[i].size = e.size
      BY <2>6, <3>2, <3>3, CountedNodeExact DEF e
    <3>4. CASE q[i].size # e.size
      BY <2>6, <3>2, <3>4, OtherNodeExact DEF e
    <3> QED
      BY <3>3, <3>4
  <2>10. OK(n + 1)
    BY <2>3, <2>7, <2>9
  <2> HIDE DEF OK
  <2> QED
    BY <2>1, <2>10
<1>4. OK(N)
  <2> HIDE DEF T, N, OK
  <2>1. \A n \in 0..N : n \in T
    BY <1>1, <1>2, <1>3, InductionUpTo
  <2>2. N \in T
    BY <1>1, <2>1
  <2> QED
    BY <2>2 DEF T
<1>5. AllocSizes(l) = u[N] /\ N \in 0..N
  BY <1>1 DEF AllocSizes, u
<1> QED
  BY <1>1, <1>4, <1>5

(* ... which is what SizesExact says of the log. *)
LEMMA SizesExactOfLog ==
  ASSUME log \in Seq(Lines)
  PROVE  SizesExact
<1> DEFINE sizes == AllocSizes(log)
<1>1. /\ sizes \in Seq(Nodes) /\ Descending(sizes)
      /\ SizesOf(sizes) = {log[i].size : i \in 1..Len(log)}
      /\ \A x \in ToSet(sizes) : NodeExact(log, Len(log), x)
  BY AllocSizesExact DEF SizeLists
<1> HIDE DEF sizes
<1>2. ASSUME NEW i \in DOMAIN sizes
      PROVE  LET s == sizes[i].size
                 inUse(n) == NumAllocs(Prefix(log, n), s) - NumFrees(Prefix(log, n), s)
             IN  /\ sizes[i].count = NumAllocs(log, s)
                 /\ sizes[i].maxConcurrent = Max({inUse(n) : n \in 0..Len(log)})
  <2> DEFINE s == sizes[i].size
             inUse(n) == NumAllocs(Prefix(log, n), s) - NumFrees(Prefix(log, n), s)
             T == {inUse(n) : n \in 0..Len(log)}
             m == sizes[i].maxConcurrent
  <2>1. sizes[i] \in ToSet(sizes) /\ sizes[i] \in Nodes
    BY <1>1 DEF ToSet
  <2>2. NodeExact(log, Len(log), sizes[i])
    BY <1>1, <2>1
  <2>3. s \in Sizes /\ m \in Nat
    BY <2>1 DEF Nodes
  <2>4. sizes[i].count = NumAllocs(log, s)
    BY <2>2, NumIsCountAll DEF NodeExact
  <2> HIDE DEF s, m
  <2>5. \A n \in 0..Len(log) : inUse(n) = InUse(log, n, s) /\ InUse(log, n, s) \in Int
    BY <2>3, NumIsCount, InUseStep DEF InUse
  <2>6. (\E n \in 0..Len(log) : m = InUse(log, n, s)) /\ \A n \in 0..Len(log) : InUse(log, n, s) <= m
    BY <2>2 DEF NodeExact, s, m
  <2> HIDE DEF inUse
  <2>7. T \in SUBSET Int /\ m \in T /\ \A y \in T : y <= m
    BY <2>5, <2>6
  <2>8. Max(T) \in T /\ m <= Max(T)
    <3> HIDE DEF T
    <3>1. T # {} /\ m \in Int
      BY <2>3, <2>7
    <3> QED
      BY <2>7, <3>1, MaxIsGreatest
  <2>9. Max(T) = m
    <3> HIDE DEF T
    <3>1. Max(T) \in Int /\ Max(T) <= m /\ m <= Max(T)
      BY <2>7, <2>8
    <3> QED
      BY <2>3, <3>1
  <2> QED
    BY <2>4, <2>9 DEF s, m, inUse
<1>3. \A i, j \in DOMAIN sizes : i < j => sizes[i].size > sizes[j].size
  BY <1>1 DEF Descending
<1>4. {sizes[i].size : i \in DOMAIN sizes} = {log[i].size : i \in DOMAIN log}
  <2>1. DOMAIN log = 1..Len(log)
    OBVIOUS
  <2> QED
    BY <1>1, <2>1, Zenon DEF SizesOf
<1> QED
  BY <1>2, <1>3, <1>4, Zenon DEF SizesExact, sizes

--------------------------------------------------------------------------------
(* optimize_buckets. *)

(* A size fits in the bucket that is made of it. *)
LEMMA BucketHoldsItsSize ==
  ASSUME NEW s \in Nat
  PROVE  get_bucket_size(s) \in Nat /\ s + Padding <= get_bucket_size(s)
<1>1. Align \in Nat \ {0} /\ Padding \in Nat
  BY OptimizerAssumption
<1>2. s % Align \in 0..(Align - 1)
  BY <1>1
<1> QED
  BY <1>1, <1>2 DEF get_bucket_size

(* The first half has at least one bucket, made of the largest size. *)
LEMMA LargestHalfIs ==
  ASSUME NEW sizes \in Seq(Nodes), sizes # <<>>
  PROVE  /\ LargestHalf(sizes) \in Seq(Nat)
         /\ Len(LargestHalf(sizes)) \in 1..MaxUniqueBuckets
         /\ LargestHalf(sizes)[1] = get_bucket_size(sizes[1].size)
<1> DEFINE h == MaxUniqueBuckets \div 2
           T == {h, Len(sizes)}
           n == Min(T)
           b(i) == get_bucket_size(sizes[i].size)
<1>1. Len(sizes) \in Nat /\ Len(sizes) >= 1
  OBVIOUS
<1>2. h \in Nat /\ h >= 1 /\ h <= MaxUniqueBuckets /\ MaxUniqueBuckets \in Nat
  BY OptimizerAssumption
<1>3. T \in SUBSET Nat /\ T # {}
  BY <1>1, <1>2
<1>4. n \in T /\ \A y \in T : n <= y
  <2> HIDE DEF T
  <2> QED
    BY <1>3, MinIsLeast
<1>5. n \in Nat /\ n >= 1 /\ n <= MaxUniqueBuckets /\ n <= Len(sizes)
  <2> HIDE DEF n, h
  <2>1. (n = h \/ n = Len(sizes)) /\ n <= h /\ n <= Len(sizes)
    BY <1>4
  <2> QED
    BY <1>1, <1>2, <2>1
<1>6. LargestHalf(sizes) = [i \in 1..n |-> b(i)]
  BY DEF LargestHalf
<1> HIDE DEF n
<1>7. \A i \in 1..n : b(i) \in Nat
  <2>1. ASSUME NEW i \in 1..n PROVE b(i) \in Nat
    <3>1. sizes[i] \in Nodes
      BY <1>1, <1>5
    <3>2. sizes[i].size \in Nat
      BY <3>1, OptimizerAssumption DEF Nodes
    <3> QED
      BY <3>2, BucketHoldsItsSize
  <2> QED
    BY <2>1
<1> HIDE DEF b
<1>8. LargestHalf(sizes) \in Seq(Nat) /\ Len(LargestHalf(sizes)) = n
  BY <1>5, <1>6, <1>7
<1>9. 1 \in 1..n /\ n \in 1..MaxUniqueBuckets
  BY <1>5, OptimizerAssumption
<1> QED
  BY <1>6, <1>8, <1>9 DEF b

(* A round adds at most one bucket and takes none away. *)
LEMMA RoundAdds ==
  ASSUME NEW sizes \in Seq(Nodes), NEW chosen \in Seq(Nat)
  PROVE  /\ AddNextMax(sizes, chosen) \in Seq(Nat)
         /\ Len(AddNextMax(sizes, chosen)) <= Len(chosen) + 1
         /\ ToSet(chosen) \subseteq ToSet(AddNextMax(sizes, chosen))
<1>1. CASE \E i \in DOMAIN sizes : IsNextMax(sizes, chosen, i)
  <2> DEFINE i == CHOOSE k \in DOMAIN sizes : IsNextMax(sizes, chosen, k)
             b == get_bucket_size(sizes[i].size)
  <2>1. i \in DOMAIN sizes
    BY <1>1
  <2>2. AddNextMax(sizes, chosen) = Append(chosen, b)
    BY <1>1, Zenon DEF AddNextMax
  <2> HIDE DEF i
  <2>3. sizes[i] \in Nodes
    BY <2>1
  <2>4. b \in Nat
    <3>1. sizes[i].size \in Nat
      BY <2>3, OptimizerAssumption DEF Nodes
    <3> QED
      BY <3>1, BucketHoldsItsSize
  <2> HIDE DEF b
  <2>5. Append(chosen, b) \in Seq(Nat) /\ Len(Append(chosen, b)) = Len(chosen) + 1
    BY <2>4
  <2>6. \A j \in DOMAIN chosen : j \in DOMAIN Append(chosen, b) /\ Append(chosen, b)[j] = chosen[j]
    BY <2>4
  <2>7. ToSet(chosen) \subseteq ToSet(Append(chosen, b))
    BY <2>6 DEF ToSet
  <2> QED
    BY <2>2, <2>5, <2>7
<1>2. CASE ~\E i \in DOMAIN sizes : IsNextMax(sizes, chosen, i)
  <2>1. AddNextMax(sizes, chosen) = chosen
    BY <1>2, Zenon DEF AddNextMax
  <2> QED
    BY <2>1
<1> QED
  BY <1>1, <1>2

(* The rounds, one after the other. *)
LEMMA RoundsRun ==
  ASSUME NEW sizes \in Seq(Nodes), sizes # <<>>
  PROVE  /\ Rounds(sizes)[0] = LargestHalf(sizes)
         /\ \A n \in 1..MaxUniqueBuckets :
              Rounds(sizes)[n] = AddNextMax(sizes, Rounds(sizes)[n - 1])
<1> DEFINE D == Seq(Nat)
           N == MaxUniqueBuckets
           half == LargestHalf(sizes)
           turn(f, n) == IF n = 0 THEN half ELSE AddNextMax(sizes, f[n - 1])
           IsRun(f) == f = [n \in 0..N |-> turn(f, n)]
           step == [x \in D \X (1..N) |-> AddNextMax(sizes, x[1])]
<1>1. N \in Nat /\ half \in D
  BY OptimizerAssumption, LargestHalfIs
<1>2. \A s \in D : AddNextMax(sizes, s) \in D
  BY RoundAdds
<1> HIDE DEF D, N, half
<1>3. step \in [D \X (1..N) -> D]
  BY <1>2
<1>4. \A s \in D : \A n \in 1..N : step[<<s, n>>] = AddNextMax(sizes, s)
  OBVIOUS
<1> HIDE DEF step
<1>5. PICK f : IsLoop(f, D, N, half, step)
  BY <1>1, <1>3, RecursionExists, Zenon
<1>6. \A n \in 1..N : n \in 0..N /\ n - 1 \in 0..N /\ n # 0 /\ f[n - 1] \in D
  BY <1>1, <1>5 DEF IsLoop
<1>7. \A n \in 0..N : f[n] = turn(f, n)
  <2>1. \A n \in 0..N : n = 0 \/ n \in 1..N
    BY <1>1
  <2> QED
    BY <1>4, <1>5, <1>6, <2>1, Zenon DEF IsLoop
<1>8. IsRun(f)
  <2>1. f = [n \in 0..N |-> f[n]]
    BY <1>5 DEF IsLoop
  <2> HIDE DEF turn
  <2> QED
    BY <1>7, <2>1
<1> DEFINE u == CHOOSE g : IsRun(g)
<1>9. Rounds(sizes) = u
  BY DEF Rounds, N, half
<1>10. IsRun(u)
  <2> HIDE DEF IsRun
  <2> QED
    BY <1>8, Zenon
<1> HIDE DEF u
<1>11. \A n \in 0..N : u[n] = turn(u, n)
  BY <1>10, Zenon
<1>12. 0 \in 0..N
  BY <1>1
<1>13. u[0] = half
  BY <1>11, <1>12, Zenon
<1>14. \A n \in 1..N : u[n] = AddNextMax(sizes, u[n - 1])
  BY <1>6, <1>11, Zenon
<1> QED
  BY <1>9, <1>13, <1>14 DEF N, half

(* There are at most MAX_UNIQUE_BUCKETS buckets, the largest among them. *)
LEMMA ChosenBuckets ==
  ASSUME NEW sizes \in Seq(Nodes), sizes # <<>>
  PROVE  /\ Chosen(sizes) \in Seq(Nat) /\ Len(Chosen(sizes)) <= MaxUniqueBuckets
         /\ get_bucket_size(sizes[1].size) \in ToSet(Chosen(sizes))
<1> DEFINE N == MaxUniqueBuckets
           u == Rounds(sizes)
           half == LargestHalf(sizes)
           b == get_bucket_size(sizes[1].size)
           OK(n) == u[n] \in Seq(Nat) /\ Len(u[n]) <= Len(half) + n /\ b \in ToSet(u[n])
           T == {n \in 0..N : OK(n)}
<1>1. N \in Nat /\ half \in Seq(Nat) /\ Len(half) \in 1..N /\ half[1] = b
  BY OptimizerAssumption, LargestHalfIs
<1>2. u[0] = half /\ \A n \in 1..N : u[n] = AddNextMax(sizes, u[n - 1])
  BY RoundsRun
<1>3. Chosen(sizes) = u[N - Len(half)]
  BY DEF Chosen
<1> HIDE DEF N, u, half, b
<1>4. 0 \in T
  <2>1. 1 \in DOMAIN half
    BY <1>1
  <2>2. b \in ToSet(half)
    BY <1>1, <2>1 DEF ToSet
  <2> QED
    BY <1>1, <1>2, <2>2
<1>5. ASSUME NEW n \in 0..(N - 1), n \in T PROVE n + 1 \in T
  <2>1. n \in Nat /\ n + 1 \in 1..N /\ n + 1 \in 0..N /\ (n + 1) - 1 = n
    BY <1>1
  <2>2. u[n + 1] = AddNextMax(sizes, u[n])
    BY <1>2, <2>1
  <2>3. u[n] \in Seq(Nat) /\ Len(u[n]) <= Len(half) + n /\ b \in ToSet(u[n])
    BY <1>5
  <2>4. /\ u[n + 1] \in Seq(Nat) /\ Len(u[n + 1]) <= Len(u[n]) + 1
        /\ ToSet(u[n]) \subseteq ToSet(u[n + 1])
    BY <2>2, <2>3, RoundAdds
  <2>5. Len(u[n + 1]) <= Len(half) + (n + 1)
    BY <1>1, <2>1, <2>3, <2>4
  <2> QED
    BY <2>1, <2>3, <2>4, <2>5
<1>6. \A n \in 0..N : n \in T
  <2> HIDE DEF T
  <2> QED
    BY <1>1, <1>4, <1>5, InductionUpTo
<1>7. N - Len(half) \in 0..N /\ Len(half) + (N - Len(half)) = N
  BY <1>1
<1> QED
  BY <1>3, <1>6, <1>7 DEF N, b

(* The buckets of a log: ascending, not too many, and one for every size. *)
LEMMA BucketsFit ==
  ASSUME NEW l \in Seq(Lines), l # <<>>
  PROVE  /\ Buckets(l) \in Seq(Nat) /\ Len(Buckets(l)) <= MaxUniqueBuckets
         /\ Ascending(Buckets(l))
         /\ ~NoFit(Buckets(l), l)
<1> DEFINE sizes == AllocSizes(l)
           ch == Chosen(sizes)
           bs == Buckets(l)
           b == get_bucket_size(sizes[1].size)
<1>1. /\ sizes \in Seq(Nodes) /\ Descending(sizes)
      /\ SizesOf(sizes) = {l[i].size : i \in 1..Len(l)}
  BY AllocSizesExact DEF SizeLists
<1> HIDE DEF sizes
<1>2. sizes # <<>>
  <2>1. 1 \in 1..Len(l)
    OBVIOUS
  <2>2. l[1].size \in SizesOf(sizes)
    BY <1>1, <2>1
  <2> QED
    BY <2>2 DEF SizesOf
<1>3. ch \in Seq(Nat) /\ Len(ch) <= MaxUniqueBuckets /\ b \in ToSet(ch)
  BY <1>1, <1>2, ChosenBuckets
<1>4. bs = Sort(ch)
  BY DEF Buckets, sizes
<1> HIDE DEF ch, bs, b
<1>5. /\ bs \in Seq(Nat) /\ Len(bs) <= MaxUniqueBuckets /\ Ascending(bs)
      /\ b \in ToSet(bs)
  BY <1>3, <1>4, SortSorts
<1>6. PICK k \in DOMAIN bs : bs[k] = b
  BY <1>5 DEF ToSet
<1>7. ASSUME NEW i \in DOMAIN l PROVE FirstFit(bs, l[i].size) # 0
  <2>1. i \in 1..Len(l)
    OBVIOUS
  <2>2. l[i].size \in SizesOf(sizes)
    BY <1>1, <2>1
  <2>3. PICK j \in DOMAIN sizes : sizes[j].size = l[i].size
    BY <2>2 DEF SizesOf
  <2>4. /\ 1 \in DOMAIN sizes /\ j \in Nat /\ j >= 1
        /\ sizes[1] \in Nodes /\ sizes[j] \in Nodes
    BY <1>1, <1>2
  <2>5. sizes[1].size \in Nat /\ sizes[j].size \in Nat
    BY <2>4, OptimizerAssumption DEF Nodes
  <2>6. sizes[j].size <= sizes[1].size
    <3>1. j = 1 \/ sizes[1].size > sizes[j].size
      BY <1>1, <2>4 DEF Descending
    <3> QED
      BY <2>5, <3>1
  <2>7. b \in Nat /\ sizes[1].size + Padding <= b
    BY <2>5, BucketHoldsItsSize DEF b
  <2>8. Fits(l[i].size, bs[k])
    BY <1>6, <2>3, <2>5, <2>6, <2>7, OptimizerAssumption DEF Fits
  <2> DEFINE F == {j1 \in DOMAIN bs : Fits(l[i].size, bs[j1])}
  <2>9. F \in SUBSET Nat /\ F # {} /\ 0 \notin F
    BY <1>5, <2>8
  <2>10. FirstFit(bs, l[i].size) = Min(F)
    BY <2>8 DEF FirstFit
  <2>11. Min(F) \in F
    <3> HIDE DEF F
    <3> QED
      BY <2>9, MinIsLeast
  <2> HIDE DEF F
  <2> QED
    BY <2>9, <2>10, <2>11
<1>8. ~NoFit(bs, l)
  BY <1>7 DEF NoFit
<1> QED
  BY <1>5, <1>8 DEF bs

(* In ascending buckets the first that is large enough wastes least. *)
LEMMA FirstFitIsBest ==
  ASSUME NEW bs \in Seq(Nat), Ascending(bs), NEW s, FirstFit(bs, s) # 0
  PROVE  BestBucket(bs, s) = FirstFit(bs, s)
<1> DEFINE fit == {i \in DOMAIN bs : Fits(s, bs[i])}
           least == {i \in fit : \A j \in fit : bs[i] <= bs[j]}
           f == FirstFit(bs, s)
<1>1. f \in fit /\ \A j \in fit : f <= j
  BY FirstFitIsFirst
<1>2. \A i \in fit : i \in Nat /\ i \in DOMAIN bs /\ bs[i] \in Nat
  OBVIOUS
<1> HIDE DEF f
<1>3. f \in least
  <2>1. SUFFICES ASSUME NEW j \in fit PROVE bs[f] <= bs[j]
    BY <1>1
  <2>2. f = j \/ f < j
    BY <1>1, <1>2
  <2> QED
    BY <1>1, <1>2, <2>2 DEF Ascending
<1>4. least \in SUBSET Nat /\ \A j \in least : j \in fit
  BY <1>2
<1>5. BestBucket(bs, s) = Min(least)
  BY <1>1 DEF BestBucket
<1> HIDE DEF fit, least
<1>6. Min(least) \in least /\ Min(least) <= f
  BY <1>3, <1>4, MinIsLeast
<1>7. f <= Min(least)
  BY <1>1, <1>4, <1>6
<1>8. Min(least) = f
  <2>1. f \in Nat /\ Min(least) \in Nat
    BY <1>1, <1>2, <1>4, <1>6
  <2> QED
    BY <1>6, <1>7, <2>1
<1> QED
  BY <1>5, <1>8 DEF f

================================================================================
