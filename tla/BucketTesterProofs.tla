-------------------------- MODULE BucketTesterProofs ---------------------------
(******************************************************************************)
(* Proofs about the two bucket tools, for every log and every number of       *)
(* buckets, alignment and padding: what the optimizer prints is exact, every  *)
(* size has a bucket, and the tester's replay of a well-formed log can run    *)
(* out of blocks only where the optimizer's fit test and the allocator's      *)
(* disagree on a size of the log.                                             *)
(******************************************************************************)
EXTENDS BucketTester, BucketOptimizerProofs

--------------------------------------------------------------------------------
(* The inductive invariant. *)

(* The tester has started. *)
Replayed == {"replaying", "passed", "failed"}

(* The optimizer is only given a log with events. *)
LogInv ==
  /\ log \in Seq(Lines) /\ Len(log) <= MaxEvents
  /\ stage \in {"logging", "optimized", "noFit", "notLoaded"} \cup Replayed
  /\ stage # "logging" => log # <<>>

(* What the optimizer hands over. *)
OptimizedInv ==
  /\ stage # "noFit"
  /\ stage = "logging" => buckets = <<>> /\ dist = <<>>
  /\ stage # "logging" => buckets = Buckets(log) /\ dist = Distribution(buckets, log)

(* What is in use of bucket i, and of size s. *)
BlocksOf(i) == {j \in DOMAIN ptr : ptr[j] = i}
BlocksOfSize(s) == {j \in DOMAIN log : log[j].size = s /\ ptr[j] # 0}

(* The replay: an allocation that has been replayed may have a block, blocks  *)
(* are neither lost nor made.                                                 *)
ReplayInv ==
  /\ stage \notin Replayed => next = 0 /\ ava = <<>> /\ ptr = <<>>
  /\ stage \in Replayed =>
       /\ next \in 1..(Len(log) + 1)
       /\ stage = "passed" => next = Len(log) + 1
       /\ ava \in [DOMAIN buckets -> Nat]
       /\ ptr \in [DOMAIN log -> 0..Len(buckets)]
       /\ \A j \in DOMAIN ptr : ptr[j] # 0 => j < next /\ log[j].alloc
       /\ \A i \in DOMAIN buckets : ava[i] + Cardinality(BlocksOf(i)) = dist[i]

(* A well-formed log on whose sizes the two fit tests agree. *)
Agreeing == WellFormed(log) /\ FitsAgree(buckets, log)

(* ... and for such a log the blocks in use are those that set_distributions  *)
(* counted, of each bucket and of each size.                                  *)
PlannedInv ==
  stage \in Replayed /\ Agreeing =>
    /\ stage # "failed"
    /\ \A j \in DOMAIN ptr : ptr[j] \in {0, FirstFit(buckets, log[j].size)}
    /\ \A i \in DOMAIN buckets :
         Cardinality(BlocksOf(i)) = Uses(buckets, log)[next - 1].use[i]
    /\ \A s \in Sizes : Cardinality(BlocksOfSize(s)) = InUse(log, next - 1, s)

(* All together. *)
TesterInv == LogInv /\ OptimizedInv /\ ReplayInv /\ PlannedInv

--------------------------------------------------------------------------------
(* From the optimizer to the tester. *)

(* What the optimizer hands over: ascending buckets with room for every size, *)
(* and a distribution that covers the use of each at any time.                *)
LEMMA HandedOver ==
  ASSUME TesterInv, stage # "logging"
  PROVE  /\ buckets \in Seq(Nat) /\ Len(buckets) <= MaxUniqueBuckets
         /\ Ascending(buckets) /\ ~NoFit(buckets, log)
         /\ dist \in [DOMAIN buckets -> Nat]
         /\ \A n \in 0..Len(log), i \in DOMAIN buckets :
              Uses(buckets, log)[n].use[i] <= dist[i]
<1>1. log \in Seq(Lines) /\ log # <<>> /\ buckets = Buckets(log) /\ dist = Distribution(buckets, log)
  BY DEF TesterInv, LogInv, OptimizedInv
<1>2. /\ buckets \in Seq(Nat) /\ Len(buckets) <= MaxUniqueBuckets
      /\ Ascending(buckets) /\ ~NoFit(buckets, log)
  BY <1>1, BucketsFit
<1> QED
  BY <1>1, <1>2, PeakIsCovered

(* The blocks in use are finitely many. *)
LEMMA BlocksFinite ==
  ASSUME TesterInv, stage \in Replayed
  PROVE  /\ DOMAIN ptr = 1..Len(log) /\ DOMAIN log = 1..Len(log) /\ Len(log) \in Nat
         /\ \A i : IsFiniteSet(BlocksOf(i)) /\ Cardinality(BlocksOf(i)) \in Nat
         /\ \A s : IsFiniteSet(BlocksOfSize(s)) /\ Cardinality(BlocksOfSize(s)) \in Nat
<1>1. DOMAIN ptr = 1..Len(log) /\ DOMAIN log = 1..Len(log) /\ Len(log) \in Nat
  BY DEF TesterInv, LogInv, ReplayInv
<1>2. IsFiniteSet(1..Len(log))
  BY <1>1, FS_Interval
<1>3. \A i : BlocksOf(i) \subseteq 1..Len(log)
  BY <1>1 DEF BlocksOf
<1>4. \A s : BlocksOfSize(s) \subseteq 1..Len(log)
  BY <1>1 DEF BlocksOfSize
<1>5. \A A : A \subseteq 1..Len(log) => IsFiniteSet(A) /\ Cardinality(A) \in Nat
  BY <1>2, FS_Subset, FS_CardinalityType
<1> QED
  BY <1>1, <1>3, <1>4, <1>5

(* The allocator's fit test admits what the optimizer's does. *)
LEMMA FitsIsSmaller ==
  ASSUME NEW s \in Sizes, NEW b \in Nat, Fits(s, b)
  PROVE  s <= b
BY OptimizerAssumption DEF Fits

(* In the replay of an agreeing log the next allocation has a block in the    *)
(* bucket that it was counted in.                                             *)
LEMMA PlannedBlockIsFree ==
  ASSUME TesterInv, Replaying, log[next].alloc, Agreeing
  PROVE  HasBlock(FirstFit(buckets, log[next].size), log[next].size)
<1> DEFINE s == log[next].size
           f == FirstFit(buckets, s)
           u == Uses(buckets, log)
<1>1. stage \in Replayed /\ stage # "logging"
  BY DEF Replaying, Replayed
<1>2. /\ log \in Seq(Lines) /\ next \in 1..(Len(log) + 1) /\ next <= Len(log)
      /\ Len(log) \in Nat
  BY <1>1 DEF TesterInv, LogInv, ReplayInv, Replaying
<1>3. /\ next \in 1..Len(log) /\ next \in 0..Len(log) /\ next - 1 \in 0..Len(log)
      /\ next \in DOMAIN log
  BY <1>2
<1>4. /\ buckets \in Seq(Nat) /\ ~NoFit(buckets, log) /\ dist \in [DOMAIN buckets -> Nat]
      /\ \A n \in 0..Len(log), i \in DOMAIN buckets : u[n].use[i] <= dist[i]
  BY <1>1, HandedOver
<1>5. f # 0 /\ log[next] \in Lines
  BY <1>2, <1>3, <1>4 DEF NoFit
<1>6. f \in DOMAIN buckets /\ Fits(s, buckets[f])
  BY <1>4, <1>5, FirstFitIsFirst
<1>7. u[next - 1] \in UseRecs(buckets) /\ u[next] = SetDistribution(buckets, u[next - 1], log[next])
  BY <1>2, <1>3, <1>4, UsesRun
<1> HIDE DEF u
<1>8. u[next].use[f] = u[next - 1].use[f] + 1
  <2>1. IsUseStep(buckets, u[next - 1], log[next], f, u[next])
    BY <1>4, <1>5, <1>7, SetDistributionStep, Zenon
  <2> QED
    BY <2>1 DEF IsUseStep
<1> HIDE DEF f
<1>9. Cardinality(BlocksOf(f)) = u[next - 1].use[f]
  BY <1>1, <1>6 DEF TesterInv, PlannedInv, u
<1>10. ava[f] + Cardinality(BlocksOf(f)) = dist[f] /\ ava[f] \in Nat
  BY <1>1, <1>6 DEF TesterInv, ReplayInv
<1>11. Cardinality(BlocksOf(f)) \in Nat
  BY <1>1, BlocksFinite
<1>12. u[next].use[f] <= dist[f] /\ dist[f] \in Nat
  BY <1>3, <1>4, <1>6
<1>13. ava[f] > 0
  BY <1>8, <1>9, <1>10, <1>11, <1>12
<1>14. s \in Sizes
  BY <1>5, LineCases
<1>15. s <= buckets[f]
  <2>1. buckets[f] \in Nat
    BY <1>4, <1>6
  <2> QED
    BY <1>6, <1>14, <2>1, FitsIsSmaller
<1> QED
  BY <1>13, <1>15 DEF HasBlock, f

--------------------------------------------------------------------------------
(* TesterInv is kept by every step. *)

(* The initial states have it. *)
LEMMA TesterInit ==
  ASSUME Init
  PROVE  TesterInv
<1>1. log \in Seq(Lines) /\ Len(log) = 0 /\ stage = "logging" /\ stage \notin Replayed
  BY DEF Init, OptimizerInit, Replayed
<1>2. LogInv
  BY <1>1, OptimizerAssumption DEF LogInv
<1>3. OptimizedInv
  BY <1>1 DEF OptimizedInv, Init, OptimizerInit
<1>4. ReplayInv /\ PlannedInv
  BY <1>1 DEF ReplayInv, PlannedInv, Init
<1> QED
  BY <1>2, <1>3, <1>4 DEF TesterInv

(* A line of the log: nothing else has begun. *)
LEMMA LogLineKeeps ==
  ASSUME TesterInv, NEW e \in Lines, LogLine(e), UNCHANGED tester
  PROVE  TesterInv'
<1>1. /\ stage = "logging" /\ stage' = "logging" /\ stage' \notin Replayed
      /\ log' = Append(log, e) /\ Len(log) < MaxEvents
      /\ buckets' = buckets /\ dist' = dist
      /\ next' = next /\ ava' = ava /\ ptr' = ptr
  BY DEF LogLine, tester, Replayed
<1>2. log' \in Seq(Lines) /\ Len(log') = Len(log) + 1 /\ Len(log) \in Nat
  BY <1>1 DEF TesterInv, LogInv
<1>3. LogInv'
  BY <1>1, <1>2, OptimizerAssumption DEF LogInv
<1>4. OptimizedInv'
  BY <1>1 DEF TesterInv, OptimizedInv
<1>5. ReplayInv'
  BY <1>1 DEF TesterInv, ReplayInv
<1>6. PlannedInv'
  BY <1>1 DEF PlannedInv
<1> QED
  BY <1>3, <1>4, <1>5, <1>6 DEF TesterInv

(* The optimizer: by BucketsFit it never ends without a bucket for a size. *)
LEMMA OptimizeKeeps ==
  ASSUME TesterInv, Optimize, UNCHANGED tester
  PROVE  TesterInv'
<1>1. /\ stage = "logging" /\ log # <<>> /\ log' = log /\ log \in Seq(Lines)
      /\ buckets' = Buckets(log)
      /\ next' = next /\ ava' = ava /\ ptr' = ptr
  BY DEF TesterInv, LogInv, Optimize, tester
<1>2. ~NoFit(buckets', log)
  BY <1>1, BucketsFit
<1>3. stage' = "optimized" /\ dist' = Distribution(buckets', log)
  BY <1>2 DEF Optimize
<1>4. stage \notin Replayed /\ stage' \notin Replayed
  BY <1>1, <1>3 DEF Replayed
<1>5. LogInv'
  BY <1>1, <1>3 DEF TesterInv, LogInv
<1>6. OptimizedInv'
  BY <1>1, <1>3 DEF OptimizedInv
<1>7. ReplayInv'
  BY <1>1, <1>4 DEF TesterInv, ReplayInv
<1>8. PlannedInv'
  BY <1>4 DEF PlannedInv
<1> QED
  BY <1>5, <1>6, <1>7, <1>8 DEF TesterInv

(* The tester's start: all blocks are free, none is in use. *)
LEMMA LoadStaticMemoryKeeps ==
  ASSUME TesterInv, LoadStaticMemory
  PROVE  TesterInv'
<1>1. /\ stage = "optimized" /\ stage' = "replaying" /\ next' = 1 /\ ava' = dist
      /\ ptr' = [i \in DOMAIN log |-> 0]
      /\ log' = log /\ buckets' = buckets /\ dist' = dist
  BY DEF LoadStaticMemory
<1>2. stage # "logging" /\ stage' \in Replayed
  BY <1>1 DEF Replayed
<1>3. log \in Seq(Lines) /\ Len(log) \in Nat /\ DOMAIN log = 1..Len(log) /\ log # <<>>
  BY <1>2 DEF TesterInv, LogInv
<1>4. /\ buckets \in Seq(Nat) /\ ~NoFit(buckets, log) /\ dist \in [DOMAIN buckets -> Nat]
      /\ DOMAIN buckets = 1..Len(buckets) /\ Len(buckets) \in Nat
  BY <1>2, HandedOver
<1>5. \A j \in DOMAIN ptr' : ptr'[j] = 0
  BY <1>1
<1>6. \A i \in DOMAIN buckets : BlocksOf(i)' = {}
  BY <1>1, <1>4, <1>5 DEF BlocksOf
<1>7. \A s : BlocksOfSize(s)' = {}
  BY <1>1, <1>5 DEF BlocksOfSize
<1>8. LogInv' /\ OptimizedInv'
  <2>1. LogInv'
    BY <1>1, <1>2, <1>3 DEF TesterInv, LogInv
  <2>2. OptimizedInv'
    BY <1>1 DEF TesterInv, OptimizedInv
  <2> QED
    BY <2>1, <2>2
<1>9. ReplayInv'
  <2>1. next' \in 1..(Len(log') + 1)
    BY <1>1, <1>3
  <2>2. ava' \in [DOMAIN buckets' -> Nat] /\ ptr' \in [DOMAIN log' -> 0..Len(buckets')]
    BY <1>1, <1>4
  <2>3. \A i \in DOMAIN buckets' : ava'[i] + Cardinality(BlocksOf(i)') = dist'[i]
    <3> SUFFICES ASSUME NEW i \in DOMAIN buckets
                 PROVE  dist[i] + Cardinality(BlocksOf(i)') = dist[i]
      BY <1>1
    <3>1. Cardinality(BlocksOf(i)') = 0
      BY <1>6, FS_EmptySet
    <3> QED
      BY <1>4, <3>1
  <2> QED
    BY <1>1, <1>2, <1>5, <2>1, <2>2, <2>3 DEF ReplayInv
<1>10. PlannedInv'
  <2>1. Uses(buckets, log)[0] = NoUse(buckets)
    BY <1>3, <1>4, UsesRun
  <2>2. \A i \in DOMAIN buckets : Cardinality(BlocksOf(i)') = Uses(buckets, log)[0].use[i]
    <3> TAKE i \in DOMAIN buckets
    <3>1. Cardinality(BlocksOf(i)') = 0
      BY <1>6, FS_EmptySet
    <3> QED
      BY <2>1, <3>1 DEF NoUse
  <2>3. \A s \in Sizes : Cardinality(BlocksOfSize(s)') = InUse(log, 0, s)
    <3> TAKE s \in Sizes
    <3>1. Cardinality(BlocksOfSize(s)') = 0
      BY <1>7, FS_EmptySet
    <3>2. InUse(log, 0, s) = 0
      BY <1>3, InUseStep
    <3> QED
      BY <3>1, <3>2
  <2>4. next' - 1 = 0
    BY <1>1
  <2>5. \A j \in DOMAIN ptr' : ptr'[j] \in {0, FirstFit(buckets, log[j].size)}
    BY <1>5
  <2> QED
    BY <1>1, <2>2, <2>3, <2>4, <2>5 DEF PlannedInv
<1> QED
  BY <1>8, <1>9, <1>10 DEF TesterInv

(* The tester that ends before the replay. *)
LEMMA LoadStaticMemoryFailsKeeps ==
  ASSUME TesterInv, LoadStaticMemoryFails
  PROVE  TesterInv'
<1>1. /\ stage = "optimized" /\ stage' = "notLoaded"
      /\ stage \notin Replayed /\ stage' \notin Replayed
      /\ log' = log /\ buckets' = buckets /\ dist' = dist
      /\ next' = next /\ ava' = ava /\ ptr' = ptr
  BY DEF LoadStaticMemoryFails, tester, Replayed
<1>2. LogInv'
  BY <1>1 DEF TesterInv, LogInv
<1>3. OptimizedInv'
  BY <1>1 DEF TesterInv, OptimizedInv
<1>4. ReplayInv'
  BY <1>1 DEF TesterInv, ReplayInv
<1>5. PlannedInv'
  BY <1>1 DEF PlannedInv
<1> QED
  BY <1>2, <1>3, <1>4, <1>5 DEF TesterInv

(* A block handed out to event n is one more of its bucket and of its size. *)
LEMMA BlockTaken ==
  ASSUME TesterInv, stage \in Replayed, NEW n \in DOMAIN log, ptr[n] = 0,
         NEW i \in DOMAIN buckets, ptr' = [ptr EXCEPT ![n] = i], log' = log
  PROVE  /\ Cardinality(BlocksOf(i)') = Cardinality(BlocksOf(i)) + 1
         /\ \A k \in DOMAIN buckets \ {i} : BlocksOf(k)' = BlocksOf(k)
         /\ Cardinality(BlocksOfSize(log[n].size)') = Cardinality(BlocksOfSize(log[n].size)) + 1
         /\ \A s : s # log[n].size => BlocksOfSize(s)' = BlocksOfSize(s)
<1>1. /\ DOMAIN ptr = DOMAIN log /\ IsFiniteSet(BlocksOf(i))
      /\ IsFiniteSet(BlocksOfSize(log[n].size))
  BY BlocksFinite
<1>2. \A k \in DOMAIN buckets : k # 0
  BY HandedOver DEF Replayed
<1>3. DOMAIN ptr' = DOMAIN ptr /\ ptr'[n] = i /\ \A j \in DOMAIN ptr : j # n => ptr'[j] = ptr[j]
  BY <1>1
<1>4. BlocksOf(i)' = BlocksOf(i) \cup {n} /\ n \notin BlocksOf(i)
  BY <1>1, <1>2, <1>3 DEF BlocksOf
<1>5. \A k \in DOMAIN buckets \ {i} : BlocksOf(k)' = BlocksOf(k)
  BY <1>1, <1>2, <1>3 DEF BlocksOf
<1>6. /\ BlocksOfSize(log[n].size)' = BlocksOfSize(log[n].size) \cup {n}
      /\ n \notin BlocksOfSize(log[n].size)
  BY <1>1, <1>2, <1>3 DEF BlocksOfSize
<1>7. \A s : s # log[n].size => BlocksOfSize(s)' = BlocksOfSize(s)
  BY <1>1, <1>3 DEF BlocksOfSize
<1>8. Cardinality(BlocksOf(i)') = Cardinality(BlocksOf(i)) + 1
  BY <1>1, <1>4, FS_AddElement
<1>9. Cardinality(BlocksOfSize(log[n].size)') = Cardinality(BlocksOfSize(log[n].size)) + 1
  BY <1>1, <1>6, FS_AddElement
<1> QED
  BY <1>5, <1>7, <1>8, <1>9

(* A block given back is one less. *)
LEMMA BlockGivenBack ==
  ASSUME TesterInv, stage \in Replayed, NEW n \in DOMAIN log,
         NEW i \in DOMAIN buckets, ptr[n] = i, ptr' = [ptr EXCEPT ![n] = 0], log' = log
  PROVE  /\ Cardinality(BlocksOf(i)) = Cardinality(BlocksOf(i)') + 1
         /\ \A k \in DOMAIN buckets \ {i} : BlocksOf(k)' = BlocksOf(k)
         /\ Cardinality(BlocksOfSize(log[n].size)) = Cardinality(BlocksOfSize(log[n].size)') + 1
         /\ \A s : s # log[n].size => BlocksOfSize(s)' = BlocksOfSize(s)
<1>1. /\ DOMAIN ptr = DOMAIN log /\ IsFiniteSet(BlocksOf(i))
      /\ IsFiniteSet(BlocksOfSize(log[n].size))
  BY BlocksFinite
<1>2. \A k \in DOMAIN buckets : k # 0
  BY HandedOver DEF Replayed
<1>3. DOMAIN ptr' = DOMAIN ptr /\ ptr'[n] = 0 /\ \A j \in DOMAIN ptr : j # n => ptr'[j] = ptr[j]
  BY <1>1
<1>4. BlocksOf(i)' = BlocksOf(i) \ {n} /\ n \in BlocksOf(i)
  BY <1>1, <1>2, <1>3 DEF BlocksOf
<1>5. \A k \in DOMAIN buckets \ {i} : BlocksOf(k)' = BlocksOf(k)
  BY <1>1, <1>2, <1>3 DEF BlocksOf
<1>6. /\ BlocksOfSize(log[n].size)' = BlocksOfSize(log[n].size) \ {n}
      /\ n \in BlocksOfSize(log[n].size)
  BY <1>1, <1>2, <1>3 DEF BlocksOfSize
<1>7. \A s : s # log[n].size => BlocksOfSize(s)' = BlocksOfSize(s)
  BY <1>1, <1>3 DEF BlocksOfSize
<1>8. \A T, x : IsFiniteSet(T) /\ x \in T => Cardinality(T) = Cardinality(T \ {x}) + 1
  <2> SUFFICES ASSUME NEW T, NEW x \in T, IsFiniteSet(T)
               PROVE  Cardinality(T) = Cardinality(T \ {x}) + 1
    OBVIOUS
  <2>1. Cardinality(T \ {x}) = Cardinality(T) - 1 /\ Cardinality(T) \in Nat
    BY FS_RemoveElement, FS_CardinalityType
  <2> QED
    BY <2>1
<1>9. Cardinality(BlocksOf(i)) = Cardinality(BlocksOf(i)') + 1
  BY <1>1, <1>4, <1>8
<1>10. Cardinality(BlocksOfSize(log[n].size)) = Cardinality(BlocksOfSize(log[n].size)') + 1
  BY <1>1, <1>6, <1>8
<1> QED
  BY <1>5, <1>7, <1>9, <1>10

(* What every step of the replay leaves alone, and what it finds. *)
LEMMA ReplayGround ==
  ASSUME TesterInv, Replaying
  PROVE  /\ stage = "replaying" /\ stage \in Replayed /\ stage # "logging"
         /\ log \in Seq(Lines) /\ Len(log) \in Nat /\ DOMAIN log = 1..Len(log)
         /\ next \in DOMAIN log /\ next \in 0..Len(log) /\ next - 1 \in 0..Len(log)
         /\ next + 1 \in 1..(Len(log) + 1)
         /\ log[next] \in Lines /\ next > 0 /\ next \in Nat
         /\ buckets \in Seq(Nat) /\ ~NoFit(buckets, log)
         /\ dist \in [DOMAIN buckets -> Nat]
         /\ DOMAIN buckets = 1..Len(buckets) /\ Len(buckets) \in Nat
         /\ ava \in [DOMAIN buckets -> Nat] /\ ptr \in [DOMAIN log -> 0..Len(buckets)]
<1>1. stage = "replaying" /\ stage \in Replayed /\ stage # "logging"
  BY DEF Replaying, Replayed
<1>2. /\ log \in Seq(Lines) /\ Len(log) \in Nat /\ DOMAIN log = 1..Len(log)
      /\ next \in 1..(Len(log) + 1) /\ next <= Len(log)
      /\ ava \in [DOMAIN buckets -> Nat] /\ ptr \in [DOMAIN log -> 0..Len(buckets)]
  BY <1>1 DEF TesterInv, LogInv, ReplayInv, Replaying
<1>3. /\ next \in DOMAIN log /\ next \in 0..Len(log) /\ next - 1 \in 0..Len(log)
      /\ next + 1 \in 1..(Len(log) + 1) /\ next > 0 /\ next \in Nat
  BY <1>2
<1>4. /\ buckets \in Seq(Nat) /\ ~NoFit(buckets, log)
      /\ dist \in [DOMAIN buckets -> Nat]
  BY <1>1, HandedOver
<1>5. log[next] \in Lines
  BY <1>2, <1>3
<1> QED
  BY <1>1, <1>2, <1>3, <1>4, <1>5

(* What an event does to the use that set_distributions counts. *)
LEMMA CountedUse ==
  ASSUME TesterInv, Replaying
  PROVE  LET f == FirstFit(buckets, log[next].size)
             u == Uses(buckets, log)
         IN  /\ f \in DOMAIN buckets
             /\ \A i \in DOMAIN buckets : u[next - 1].use[i] \in Int
             /\ \A i \in DOMAIN buckets \ {f} : u[next].use[i] = u[next - 1].use[i]
             /\ log[next].alloc => u[next].use[f] = u[next - 1].use[f] + 1
             /\ ~log[next].alloc => u[next].use[f] = u[next - 1].use[f] - 1
<1> DEFINE f == FirstFit(buckets, log[next].size)
           u == Uses(buckets, log)
<1>1. /\ log \in Seq(Lines) /\ next \in 1..Len(log) /\ next \in DOMAIN log
      /\ next - 1 \in 0..Len(log) /\ log[next] \in Lines
      /\ buckets \in Seq(Nat) /\ ~NoFit(buckets, log)
  BY ReplayGround
<1>2. f # 0
  BY <1>1 DEF NoFit
<1>3. f \in DOMAIN buckets
  BY <1>1, <1>2, FirstFitIsFirst
<1>4. u[next - 1] \in UseRecs(buckets) /\ u[next] = SetDistribution(buckets, u[next - 1], log[next])
  BY <1>1, UsesRun
<1> HIDE DEF u
<1>5. /\ \A i \in DOMAIN buckets \ {f} : u[next].use[i] = u[next - 1].use[i]
      /\ log[next].alloc => u[next].use[f] = u[next - 1].use[f] + 1
      /\ ~log[next].alloc => u[next].use[f] = u[next - 1].use[f] - 1
  <2>1. IsUseStep(buckets, u[next - 1], log[next], f, u[next])
    BY <1>1, <1>2, <1>4, SetDistributionStep, Zenon
  <2> QED
    BY <2>1, Zenon DEF IsUseStep
<1>6. \A i \in DOMAIN buckets : u[next - 1].use[i] \in Int
  BY <1>4 DEF UseRecs
<1> QED
  BY <1>3, <1>5, <1>6 DEF u

(* An allocation that finds a block: of an agreeing log, in its own bucket. *)
LEMMA ReplayAllocKeeps ==
  ASSUME TesterInv, ReplayAlloc
  PROVE  TesterInv'
<1>1. /\ Replaying /\ log[next].alloc /\ next' = next + 1
      /\ log' = log /\ stage' = stage /\ buckets' = buckets /\ dist' = dist
  BY DEF ReplayAlloc, optimizer
<1>2. /\ stage = "replaying" /\ stage \in Replayed
      /\ log \in Seq(Lines) /\ Len(log) \in Nat /\ DOMAIN log = 1..Len(log)
      /\ next \in DOMAIN log /\ next + 1 \in 1..(Len(log) + 1) /\ next \in Nat
      /\ log[next] \in Lines
      /\ buckets \in Seq(Nat) /\ ~NoFit(buckets, log)
      /\ DOMAIN buckets = 1..Len(buckets) /\ Len(buckets) \in Nat
      /\ ava \in [DOMAIN buckets -> Nat] /\ ptr \in [DOMAIN log -> 0..Len(buckets)]
  BY <1>1, ReplayGround
<1>3. PICK n \in DOMAIN log : n = next
  BY <1>2
<1>4. PICK i \in DOMAIN buckets : XMALLOC(i, log[n].size) /\ ptr' = [ptr EXCEPT ![n] = i]
  BY <1>3 DEF ReplayAlloc
<1>5. /\ ava[i] > 0 /\ ava' = [ava EXCEPT ![i] = @ - 1]
      /\ \A j \in DOMAIN buckets : HasBlock(j, log[n].size) => i <= j
      /\ log[n].size <= buckets[i]
  BY <1>4 DEF XMALLOC, HasBlock
<1>6. ptr[n] = 0
  BY <1>2, <1>3 DEF TesterInv, ReplayInv
<1>7. /\ Cardinality(BlocksOf(i)') = Cardinality(BlocksOf(i)) + 1
      /\ \A k \in DOMAIN buckets \ {i} : BlocksOf(k)' = BlocksOf(k)
      /\ Cardinality(BlocksOfSize(log[n].size)') = Cardinality(BlocksOfSize(log[n].size)) + 1
      /\ \A s : s # log[n].size => BlocksOfSize(s)' = BlocksOfSize(s)
  BY <1>1, <1>2, <1>4, <1>6, BlockTaken
<1>8. /\ \A k : Cardinality(BlocksOf(k)) \in Nat
      /\ \A s : Cardinality(BlocksOfSize(s)) \in Nat
  BY <1>2, BlocksFinite
<1>9. LogInv' /\ OptimizedInv'
  BY <1>1 DEF TesterInv, LogInv, OptimizedInv
<1>10. ReplayInv'
  <2>1. next' \in 1..(Len(log') + 1) /\ stage' \in Replayed /\ stage' # "passed"
    BY <1>1, <1>2
  <2>2. ava' \in [DOMAIN buckets' -> Nat]
    BY <1>1, <1>2, <1>5
  <2>3. ptr' \in [DOMAIN log' -> 0..Len(buckets')]
    BY <1>1, <1>2, <1>4
  <2>4. \A j \in DOMAIN ptr' : ptr'[j] # 0 => j < next' /\ log'[j].alloc
    <3>1. \A j \in DOMAIN ptr : ptr[j] # 0 => j < next /\ log[j].alloc
      BY <1>2 DEF TesterInv, ReplayInv
    <3> SUFFICES ASSUME NEW j \in DOMAIN log, ptr'[j] # 0
                 PROVE  j < next + 1 /\ log[j].alloc
      BY <1>1, <2>3
    <3>2. CASE j = n
      BY <1>1, <1>2, <1>3, <3>2
    <3>3. CASE j # n
      <4>1. ptr[j] # 0
        BY <1>2, <1>4, <3>3
      <4> QED
        BY <1>2, <3>1, <4>1
    <3> QED
      BY <3>2, <3>3
  <2>5. \A k \in DOMAIN buckets' : ava'[k] + Cardinality(BlocksOf(k)') = dist'[k]
    <3> SUFFICES ASSUME NEW k \in DOMAIN buckets
                 PROVE  ava'[k] + Cardinality(BlocksOf(k)') = dist[k]
      BY <1>1
    <3>1. ava[k] + Cardinality(BlocksOf(k)) = dist[k] /\ ava[k] \in Nat
      BY <1>2 DEF TesterInv, ReplayInv
    <3>2. CASE k = i
      <4>1. ava'[i] = ava[i] - 1
        BY <1>2, <1>5
      <4> QED
        BY <1>7, <1>8, <3>1, <3>2, <4>1
    <3>3. CASE k # i
      BY <1>2, <1>5, <1>7, <3>1, <3>3
    <3> QED
      BY <3>2, <3>3
  <2> QED
    BY <2>1, <2>2, <2>3, <2>4, <2>5 DEF ReplayInv
<1>11. PlannedInv'
  <2> SUFFICES ASSUME Agreeing PROVE PlannedInv'
    BY <1>1 DEF PlannedInv, Agreeing
  <2>1. /\ \A j \in DOMAIN ptr : ptr[j] \in {0, FirstFit(buckets, log[j].size)}
        /\ \A k \in DOMAIN buckets :
             Cardinality(BlocksOf(k)) = Uses(buckets, log)[next - 1].use[k]
        /\ \A s \in Sizes : Cardinality(BlocksOfSize(s)) = InUse(log, next - 1, s)
    BY <1>2 DEF TesterInv, PlannedInv
  <2>2. i = FirstFit(buckets, log[n].size)
    <3>1. HasBlock(FirstFit(buckets, log[n].size), log[n].size)
      BY <1>1, <1>3, PlannedBlockIsFree
    <3>2. FirstFit(buckets, log[n].size) # 0
      BY <1>2 DEF NoFit
    <3>3. /\ FirstFit(buckets, log[n].size) \in DOMAIN buckets
          /\ FirstFit(buckets, log[n].size) <= i
      <4>1. Fits(log[n].size, buckets[i])
        BY <1>5 DEF Agreeing, FitsAgree
      <4> QED
        BY <1>2, <3>2, <4>1, FirstFitIsFirst
    <3>4. i <= FirstFit(buckets, log[n].size)
      BY <1>5, <3>1, <3>3
    <3> QED
      BY <1>2, <3>3, <3>4
  <2>3. \A j \in DOMAIN ptr' : ptr'[j] \in {0, FirstFit(buckets, log[j].size)}
    BY <1>2, <1>4, <2>1, <2>2
  <2>4. next' - 1 = n
    BY <1>1, <1>2, <1>3
  <2>5. \A k \in DOMAIN buckets : Cardinality(BlocksOf(k)') = Uses(buckets, log)[n].use[k]
    <3> TAKE k \in DOMAIN buckets
    <3>1. /\ Uses(buckets, log)[n].use[i] = Uses(buckets, log)[n - 1].use[i] + 1
          /\ k # i => Uses(buckets, log)[n].use[k] = Uses(buckets, log)[n - 1].use[k]
      BY <1>1, <1>3, <2>2, CountedUse
    <3> QED
      BY <1>3, <1>7, <2>1, <3>1
  <2>6. \A s \in Sizes : Cardinality(BlocksOfSize(s)') = InUse(log, n, s)
    <3> TAKE s \in Sizes
    <3>1. n \in 0..Len(log) /\ n > 0 /\ log[n].alloc
      BY <1>1, <1>2, <1>3
    <3>2. /\ log[n].size # s => InUse(log, n, s) = InUse(log, n - 1, s)
          /\ log[n].size = s => InUse(log, n, s) = InUse(log, n - 1, s) + 1
      BY <1>2, <3>1, InUseStep
    <3>3. log'[n].size = log[n].size
      BY <1>1
    <3>4. CASE s = log[n].size
      BY <1>3, <1>7, <2>1, <3>2, <3>3, <3>4
    <3>5. CASE s # log[n].size
      BY <1>3, <1>7, <2>1, <3>2, <3>5
    <3> QED
      BY <3>4, <3>5
  <2> QED
    BY <1>1, <1>2, <2>3, <2>4, <2>5, <2>6 DEF PlannedInv
<1> QED
  BY <1>9, <1>10, <1>11 DEF TesterInv

(* No allocation of an agreeing log fails; of another log one may. *)
LEMMA ReplayAllocFailsKeeps ==
  ASSUME TesterInv, ReplayAllocFails
  PROVE  TesterInv'
<1>1. /\ Replaying /\ log[next].alloc /\ stage' = "failed"
      /\ \A i \in DOMAIN buckets : ~HasBlock(i, log[next].size)
      /\ log' = log /\ buckets' = buckets /\ dist' = dist
      /\ next' = next /\ ava' = ava /\ ptr' = ptr
  BY DEF ReplayAllocFails, tester
<1>2. stage \in Replayed /\ stage # "logging" /\ stage' \in Replayed
  BY <1>1, ReplayGround DEF Replayed
<1>3. ~Agreeing
  <2> SUFFICES ASSUME Agreeing PROVE FALSE
    OBVIOUS
  <2>1. HasBlock(FirstFit(buckets, log[next].size), log[next].size)
    BY <1>1, PlannedBlockIsFree
  <2>2. FirstFit(buckets, log[next].size) \in DOMAIN buckets
    BY <1>1, CountedUse
  <2> QED
    BY <1>1, <2>1, <2>2
<1>4. LogInv'
  BY <1>1, <1>2 DEF TesterInv, LogInv
<1>5. OptimizedInv'
  BY <1>1, <1>2 DEF TesterInv, OptimizedInv
<1>6. \A k : BlocksOf(k)' = BlocksOf(k)
  BY <1>1 DEF BlocksOf
<1>7. ReplayInv'
  BY <1>1, <1>2, <1>6 DEF TesterInv, ReplayInv
<1>8. PlannedInv'
  BY <1>1, <1>3 DEF PlannedInv, Agreeing
<1> QED
  BY <1>4, <1>5, <1>7, <1>8 DEF TesterInv

(* The line of the allocation that a free is of. *)
LEMMA AsAllocation ==
  ASSUME NEW e \in Lines
  PROVE  [e EXCEPT !.alloc = TRUE] = AllocOf(e.size)
<1>1. PICK a \in BOOLEAN, s \in Sizes : e = [alloc |-> a, size |-> s]
  BY DEF Lines
<1>2. \A b, c, x : [[alloc |-> b, size |-> x] EXCEPT !.alloc = c] = [alloc |-> c, size |-> x]
  OBVIOUS
<1>3. [[alloc |-> a, size |-> s] EXCEPT !.alloc = TRUE] = [alloc |-> TRUE, size |-> s]
  BY <1>2, Zenon
<1>4. [e EXCEPT !.alloc = TRUE] = [alloc |-> TRUE, size |-> s]
  BY <1>1, <1>3, Zenon
<1>5. e.size = s
  BY <1>1
<1> QED
  BY <1>4, <1>5 DEF AllocOf

(* The event a free is of: an allocation of its size that has a block. *)
LEMMA CandidatesAre ==
  ASSUME TesterInv, Replaying
  PROVE  /\ \A j \in Candidates : /\ j \in DOMAIN log /\ ptr[j] # 0
                                  /\ log[j].size = log[next].size
         /\ Candidates # {} => Max(Candidates) \in Candidates
         /\ BlocksOfSize(log[next].size) \subseteq Candidates
<1>1. /\ stage \in Replayed /\ log \in Seq(Lines) /\ Len(log) \in Nat /\ DOMAIN log = 1..Len(log)
      /\ next \in DOMAIN log /\ log[next] \in Lines /\ next \in Nat
      /\ ptr \in [DOMAIN log -> 0..Len(buckets)]
  BY ReplayGround
<1>2. [log[next] EXCEPT !.alloc = TRUE] = AllocOf(log[next].size)
  BY <1>1, AsAllocation
<1>3. \A j \in Candidates : /\ j \in 1..(next - 1) /\ j \in DOMAIN log /\ ptr[j] # 0
                            /\ log[j] = AllocOf(log[next].size)
  BY <1>1, <1>2 DEF Candidates
<1>4. \A j \in Candidates : log[j].size = log[next].size
  BY <1>3 DEF AllocOf
<1>5. ASSUME Candidates # {} PROVE Max(Candidates) \in Candidates
  <2>1. Candidates \in SUBSET Int /\ next \in Int /\ \A j \in Candidates : j <= next
    BY <1>1, <1>3
  <2> QED
    BY <1>5, <2>1, MaxIsGreatest
<1>6. BlocksOfSize(log[next].size) \subseteq Candidates
  <2> SUFFICES ASSUME NEW j \in BlocksOfSize(log[next].size) PROVE j \in Candidates
    OBVIOUS
  <2>1. j \in DOMAIN log /\ log[j].size = log[next].size /\ ptr[j] # 0
    BY DEF BlocksOfSize
  <2>2. j < next /\ log[j].alloc
    BY <1>1, <2>1 DEF TesterInv, ReplayInv
  <2>3. log[j] \in Lines
    BY <1>1, <2>1
  <2>4. log[j] = AllocOf(log[next].size)
    BY <2>1, <2>2, <2>3, LineCases
  <2>5. j \in 1..(next - 1)
    BY <1>1, <2>1, <2>2
  <2> QED
    BY <1>2, <2>1, <2>4, <2>5 DEF Candidates
<1> QED
  BY <1>3, <1>4, <1>5, <1>6

(* In an agreeing log a free has its allocation. *)
LEMMA FreeHasAllocation ==
  ASSUME TesterInv, Replaying, ~log[next].alloc, Agreeing
  PROVE  Candidates # {}
<1> DEFINE s == log[next].size
<1>1. /\ stage \in Replayed /\ log \in Seq(Lines)
      /\ next \in 0..Len(log) /\ next > 0 /\ next \in Nat /\ log[next] \in Lines
      /\ next - 1 \in 0..Len(log)
  BY ReplayGround
<1>2. s \in Sizes
  BY <1>1, LineCases
<1>3. Cardinality(BlocksOfSize(s)) = InUse(log, next - 1, s)
  BY <1>1, <1>2 DEF TesterInv, PlannedInv
<1>4. InUse(log, next, s) = InUse(log, next - 1, s) - 1
  BY <1>1, InUseStep
<1>5. InUse(log, next - 1, s) \in Int
  BY <1>1, InUseStep
<1>6. InUse(log, next, s) >= 0
  BY <1>1, <1>2, WellFormedInUse DEF Agreeing
<1> HIDE DEF s
<1>7. Cardinality(BlocksOfSize(s)) # 0
  BY <1>3, <1>4, <1>5, <1>6
<1>8. BlocksOfSize(s) # {}
  BY <1>7, FS_EmptySet
<1>9. BlocksOfSize(s) \subseteq Candidates
  BY CandidatesAre DEF s
<1> QED
  BY <1>8, <1>9

(* A free without an allocation: no agreeing log has one. *)
LEMMA ReplayFreeWarns ==
  ASSUME TesterInv, ReplayFree, Candidates = {}
  PROVE  TesterInv'
<1>1. /\ Replaying /\ ~log[next].alloc /\ next' = next + 1 /\ ava' = ava /\ ptr' = ptr
      /\ log' = log /\ stage' = stage /\ buckets' = buckets /\ dist' = dist
  BY DEF ReplayFree, optimizer
<1>2. ~Agreeing
  BY <1>1, FreeHasAllocation
<1>3. LogInv' /\ OptimizedInv'
  BY <1>1 DEF TesterInv, LogInv, OptimizedInv
<1>4. ReplayInv'
  <2>1. /\ stage = "replaying" /\ stage \in Replayed /\ Len(log) \in Nat /\ DOMAIN log = 1..Len(log)
        /\ next + 1 \in 1..(Len(log) + 1) /\ next \in Nat
        /\ ptr \in [DOMAIN log -> 0..Len(buckets)]
    BY <1>1, ReplayGround
  <2>2. \A j \in DOMAIN ptr : ptr[j] # 0 => j < next + 1 /\ log[j].alloc
    BY <2>1 DEF TesterInv, ReplayInv
  <2>3. \A k : BlocksOf(k)' = BlocksOf(k)
    BY <1>1 DEF BlocksOf
  <2>4. \A k \in DOMAIN buckets : ava[k] + Cardinality(BlocksOf(k)) = dist[k]
    BY <2>1 DEF TesterInv, ReplayInv
  <2>5. ava \in [DOMAIN buckets -> Nat]
    BY <1>1, ReplayGround
  <2> QED
    BY <1>1, <2>1, <2>2, <2>3, <2>4, <2>5 DEF ReplayInv
<1>5. PlannedInv'
  BY <1>1, <1>2 DEF PlannedInv, Agreeing
<1> QED
  BY <1>3, <1>4, <1>5 DEF TesterInv

(* A free gives the block back to the bucket that it came from. *)
LEMMA ReplayFreeKeeps ==
  ASSUME TesterInv, ReplayFree
  PROVE  TesterInv'
<1> SUFFICES ASSUME Candidates # {} PROVE TesterInv'
  BY ReplayFreeWarns
<1>1. /\ Replaying /\ ~log[next].alloc /\ next' = next + 1
      /\ log' = log /\ stage' = stage /\ buckets' = buckets /\ dist' = dist
  BY DEF ReplayFree, optimizer
<1>2. /\ stage = "replaying" /\ stage \in Replayed
      /\ log \in Seq(Lines) /\ Len(log) \in Nat /\ DOMAIN log = 1..Len(log)
      /\ next \in DOMAIN log /\ next + 1 \in 1..(Len(log) + 1) /\ next \in Nat
      /\ log[next] \in Lines
      /\ DOMAIN buckets = 1..Len(buckets) /\ Len(buckets) \in Nat
      /\ ava \in [DOMAIN buckets -> Nat] /\ ptr \in [DOMAIN log -> 0..Len(buckets)]
  BY <1>1, ReplayGround
<1>3. PICK m \in DOMAIN log : m = next
  BY <1>2
<1>4. /\ Max(Candidates) \in DOMAIN log /\ ptr[Max(Candidates)] # 0
      /\ log[Max(Candidates)].size = log[next].size
  BY <1>1, CandidatesAre
<1>5. PICK n \in DOMAIN log : n = Max(Candidates)
  BY <1>4
<1>6. ptr[n] # 0 /\ log[n].size = log[m].size
  BY <1>3, <1>4, <1>5
<1>7. PICK i \in DOMAIN buckets : ptr[n] = i
  BY <1>2, <1>6
<1>8. ava' = [ava EXCEPT ![i] = @ + 1] /\ ptr' = [ptr EXCEPT ![n] = 0]
  BY <1>5, <1>7 DEF ReplayFree
<1>9. /\ Cardinality(BlocksOf(i)) = Cardinality(BlocksOf(i)') + 1
      /\ \A k \in DOMAIN buckets \ {i} : BlocksOf(k)' = BlocksOf(k)
      /\ Cardinality(BlocksOfSize(log[n].size)) = Cardinality(BlocksOfSize(log[n].size)') + 1
      /\ \A s : s # log[n].size => BlocksOfSize(s)' = BlocksOfSize(s)
  BY <1>1, <1>2, <1>7, <1>8, BlockGivenBack
<1>10. /\ \A k : Cardinality(BlocksOf(k)') \in Nat
       /\ \A s : Cardinality(BlocksOfSize(s)') \in Nat
  <2>1. DOMAIN ptr' = 1..Len(log) /\ DOMAIN log' = 1..Len(log)
    BY <1>1, <1>2, <1>8
  <2>2. /\ \A k : BlocksOf(k)' \subseteq 1..Len(log)
        /\ \A s : BlocksOfSize(s)' \subseteq 1..Len(log)
    BY <2>1 DEF BlocksOf, BlocksOfSize
  <2>3. IsFiniteSet(1..Len(log))
    BY <1>2, FS_Interval
  <2>4. \A A : A \subseteq 1..Len(log) => Cardinality(A) \in Nat
    BY <2>3, FS_Subset, FS_CardinalityType
  <2> QED
    BY <2>2, <2>4
<1>11. LogInv' /\ OptimizedInv'
  BY <1>1 DEF TesterInv, LogInv, OptimizedInv
<1>12. ReplayInv'
  <2>1. next' \in 1..(Len(log') + 1) /\ stage' \in Replayed /\ stage' # "passed"
    BY <1>1, <1>2
  <2>2. ava' \in [DOMAIN buckets' -> Nat]
    BY <1>1, <1>2, <1>8
  <2>3. ptr' \in [DOMAIN log' -> 0..Len(buckets')]
    BY <1>1, <1>2, <1>8
  <2>4. \A j \in DOMAIN ptr' : ptr'[j] # 0 => j < next' /\ log'[j].alloc
    <3>1. \A j \in DOMAIN ptr : ptr[j] # 0 => j < next /\ log[j].alloc
      BY <1>2 DEF TesterInv, ReplayInv
    <3>2. \A j \in DOMAIN ptr' : ptr'[j] # 0 => j \in DOMAIN ptr /\ ptr[j] # 0 /\ j \in Nat
      BY <1>2, <1>8
    <3> QED
      BY <1>1, <1>2, <3>1, <3>2
  <2>5. \A k \in DOMAIN buckets' : ava'[k] + Cardinality(BlocksOf(k)') = dist'[k]
    <3> SUFFICES ASSUME NEW k \in DOMAIN buckets
                 PROVE  ava'[k] + Cardinality(BlocksOf(k)') = dist[k]
      BY <1>1
    <3>1. ava[k] + Cardinality(BlocksOf(k)) = dist[k] /\ ava[k] \in Nat
      BY <1>2 DEF TesterInv, ReplayInv
    <3>2. CASE k = i
      <4>1. ava'[i] = ava[i] + 1
        BY <1>2, <1>8
      <4> QED
        BY <1>9, <1>10, <3>1, <3>2, <4>1
    <3>3. CASE k # i
      BY <1>2, <1>8, <1>9, <3>1, <3>3
    <3> QED
      BY <3>2, <3>3
  <2> QED
    BY <2>1, <2>2, <2>3, <2>4, <2>5 DEF ReplayInv
<1>13. PlannedInv'
  <2> SUFFICES ASSUME Agreeing PROVE PlannedInv'
    BY <1>1 DEF PlannedInv, Agreeing
  <2>1. /\ \A j \in DOMAIN ptr : ptr[j] \in {0, FirstFit(buckets, log[j].size)}
        /\ \A k \in DOMAIN buckets :
             Cardinality(BlocksOf(k)) = Uses(buckets, log)[next - 1].use[k]
        /\ \A s \in Sizes : Cardinality(BlocksOfSize(s)) = InUse(log, next - 1, s)
    BY <1>2 DEF TesterInv, PlannedInv
  <2>2. i = FirstFit(buckets, log[m].size)
    BY <1>2, <1>6, <1>7, <2>1
  <2>3. \A j \in DOMAIN ptr' : ptr'[j] \in {0, FirstFit(buckets, log[j].size)}
    BY <1>2, <1>8, <2>1
  <2>4. next' - 1 = m
    BY <1>1, <1>2, <1>3
  <2>5. \A k \in DOMAIN buckets : Cardinality(BlocksOf(k)') = Uses(buckets, log)[m].use[k]
    <3> TAKE k \in DOMAIN buckets
    <3>1. /\ Uses(buckets, log)[m].use[i] = Uses(buckets, log)[m - 1].use[i] - 1
          /\ k # i => Uses(buckets, log)[m].use[k] = Uses(buckets, log)[m - 1].use[k]
      BY <1>1, <1>3, <2>2, CountedUse
    <3>2. Cardinality(BlocksOf(k)) = Uses(buckets, log)[m - 1].use[k]
      BY <1>3, <2>1
    <3>3. CASE k = i
      BY <1>9, <1>10, <3>1, <3>2, <3>3
    <3>4. CASE k # i
      BY <1>9, <3>1, <3>2, <3>4
    <3> QED
      BY <3>3, <3>4
  <2>6. \A s \in Sizes : Cardinality(BlocksOfSize(s)') = InUse(log, m, s)
    <3> TAKE s \in Sizes
    <3>1. m \in 0..Len(log) /\ m > 0 /\ ~log[m].alloc
      BY <1>1, <1>2, <1>3
    <3>2. /\ log[m].size # s => InUse(log, m, s) = InUse(log, m - 1, s)
          /\ log[m].size = s => InUse(log, m, s) = InUse(log, m - 1, s) - 1
      BY <1>2, <3>1, InUseStep
    <3>3. log'[n].size = log[n].size /\ Cardinality(BlocksOfSize(s)) = InUse(log, m - 1, s)
      BY <1>1, <1>3, <2>1
    <3>4. CASE s = log[n].size
      BY <1>6, <1>9, <1>10, <3>2, <3>3, <3>4
    <3>5. CASE s # log[n].size
      BY <1>6, <1>9, <3>2, <3>3, <3>5
    <3> QED
      BY <3>4, <3>5
  <2> QED
    BY <1>1, <1>2, <2>3, <2>4, <2>5, <2>6 DEF PlannedInv
<1> QED
  BY <1>11, <1>12, <1>13 DEF TesterInv

(* The end of the log. *)
LEMMA ReplayEndsKeeps ==
  ASSUME TesterInv, ReplayEnds
  PROVE  TesterInv'
<1>1. /\ stage = "replaying" /\ next > Len(log) /\ stage' = "passed"
      /\ log' = log /\ buckets' = buckets /\ dist' = dist
      /\ next' = next /\ ava' = ava /\ ptr' = ptr
  BY DEF ReplayEnds, tester
<1>2. stage \in Replayed /\ stage # "logging" /\ stage' \in Replayed
  BY <1>1 DEF Replayed
<1>3. LogInv'
  BY <1>1, <1>2 DEF TesterInv, LogInv
<1>4. OptimizedInv'
  BY <1>1, <1>2 DEF TesterInv, OptimizedInv
<1>5. (\A k : BlocksOf(k)' = BlocksOf(k)) /\ (\A s : BlocksOfSize(s)' = BlocksOfSize(s))
  BY <1>1 DEF BlocksOf, BlocksOfSize
<1>6. next = Len(log) + 1
  <2>1. next \in 1..(Len(log) + 1) /\ Len(log) \in Nat
    BY <1>2 DEF TesterInv, LogInv, ReplayInv
  <2> QED
    BY <1>1, <2>1
<1>7. ReplayInv'
  BY <1>1, <1>2, <1>5, <1>6 DEF TesterInv, ReplayInv
<1>8. PlannedInv'
  BY <1>1, <1>2, <1>5 DEF TesterInv, PlannedInv, Agreeing
<1> QED
  BY <1>3, <1>4, <1>7, <1>8 DEF TesterInv

(* Every step keeps the invariant. *)
LEMMA TesterStep ==
  ASSUME TesterInv, [Next]_vars
  PROVE  TesterInv'
<1>1. CASE (\E e \in Lines : LogLine(e)) /\ UNCHANGED tester
  BY <1>1, LogLineKeeps
<1>2. CASE Optimize /\ UNCHANGED tester
  BY <1>2, OptimizeKeeps
<1>3. CASE LoadStaticMemory
  BY <1>3, LoadStaticMemoryKeeps
<1>4. CASE ReplayAlloc
  BY <1>4, ReplayAllocKeeps
<1>5. CASE ReplayAllocFails
  BY <1>5, ReplayAllocFailsKeeps
<1>6. CASE ReplayFree
  BY <1>6, ReplayFreeKeeps
<1>7. CASE ReplayEnds
  BY <1>7, ReplayEndsKeeps
<1>8. CASE LoadStaticMemoryFails
  BY <1>8, LoadStaticMemoryFailsKeeps
<1>9. CASE UNCHANGED vars
  <2>1. /\ log' = log /\ stage' = stage /\ buckets' = buckets /\ dist' = dist
        /\ next' = next /\ ava' = ava /\ ptr' = ptr
    BY <1>9 DEF vars, optimizer, tester
  <2>2. (\A k : BlocksOf(k)' = BlocksOf(k)) /\ (\A s : BlocksOfSize(s)' = BlocksOfSize(s))
    BY <2>1 DEF BlocksOf, BlocksOfSize
  <2>3. LogInv' /\ OptimizedInv'
    BY <2>1 DEF TesterInv, LogInv, OptimizedInv
  <2>4. ReplayInv'
    BY <2>1, <2>2 DEF TesterInv, ReplayInv
  <2>5. PlannedInv'
    BY <2>1, <2>2 DEF TesterInv, PlannedInv, Agreeing
  <2> QED
    BY <2>3, <2>4, <2>5 DEF TesterInv
<1> QED
  BY <1>1, <1>2, <1>3, <1>4, <1>5, <1>6, <1>7, <1>8, <1>9 DEF Next

--------------------------------------------------------------------------------
(* The theorems. *)

(* The two tools together, from the first line of the log to the end of the   *)
(* replay: the free blocks and those in use make up the distribution, and     *)
(* where the two fit tests agree, what is in use of each bucket and of each   *)
(* size is what set_distributions counted at the same line of the log.        *)
THEOREM TesterInvariant == Spec => []TesterInv
<1>1. Init => TesterInv
  BY TesterInit
<1>2. TesterInv /\ [Next]_vars => TesterInv'
  BY TesterStep
<1> QED
  BY <1>1, <1>2, PTL DEF Spec

(* The variables of the optimizer and of the tester keep their types: at most *)
(* MAX_UNIQUE_BUCKETS buckets, and no count of free blocks below zero.        *)
THEOREM TypeCorrect == Spec => []TypeOK
<1>1. TesterInv => TypeOK
  <2> SUFFICES ASSUME TesterInv PROVE TypeOK
    OBVIOUS
  <2>1. /\ log \in Seq(Lines) /\ Len(log) <= MaxEvents /\ Len(log) \in Nat
        /\ DOMAIN log = 1..Len(log) /\ MaxEvents \in Nat
        /\ stage \in {"logging", "optimized", "noFit", "notLoaded", "replaying", "passed", "failed"}
    BY OptimizerAssumption DEF TesterInv, LogInv, Replayed
  <2>2. buckets \in Seq(Nat) /\ Len(buckets) <= MaxUniqueBuckets /\ dist \in Seq(Nat)
    <3>1. CASE stage = "logging"
      <4>1. buckets = <<>> /\ dist = <<>> /\ MaxUniqueBuckets \in Nat
        BY <3>1, OptimizerAssumption DEF TesterInv, OptimizedInv
      <4> QED
        BY <4>1
    <3>2. CASE stage # "logging"
      <4>1. /\ buckets \in Seq(Nat) /\ Len(buckets) <= MaxUniqueBuckets
            /\ dist \in [DOMAIN buckets -> Nat]
        BY <3>2, HandedOver
      <4> QED
        BY <4>1
    <3> QED
      BY <3>1, <3>2
  <2>3. next \in 0..(MaxEvents + 1) /\ ava \in Seq(Nat) /\ ptr \in Seq(0..MaxUniqueBuckets)
    <3>1. CASE stage \notin Replayed
      <4>1. next = 0 /\ ava = <<>> /\ ptr = <<>>
        BY <3>1 DEF TesterInv, ReplayInv
      <4> QED
        BY <2>1, <4>1
    <3>2. CASE stage \in Replayed
      <4>1. /\ next \in 1..(Len(log) + 1) /\ ava \in [DOMAIN buckets -> Nat]
            /\ ptr \in [DOMAIN log -> 0..Len(buckets)]
        BY <3>2 DEF TesterInv, ReplayInv
      <4>2. Len(buckets) \in Nat /\ DOMAIN buckets = 1..Len(buckets) /\ MaxUniqueBuckets \in Nat
        BY <2>2, OptimizerAssumption
      <4>3. 0..Len(buckets) \subseteq 0..MaxUniqueBuckets
        BY <2>2, <4>2
      <4>4. next \in 0..(MaxEvents + 1)
        BY <2>1, <4>1
      <4>5. ptr \in [1..Len(log) -> 0..MaxUniqueBuckets]
        BY <2>1, <4>1, <4>3
      <4>6. ava \in Seq(Nat)
        BY <4>1, <4>2
      <4>7. \A S : \A n \in Nat : \A f \in [1..n -> S] : f \in Seq(S)
        OBVIOUS
      <4>8. ptr \in Seq(0..MaxUniqueBuckets)
        BY <2>1, <4>5, <4>7, Zenon
      <4> QED
        BY <4>4, <4>6, <4>8
    <3> QED
      BY <3>1, <3>2
  <2> QED
    BY <2>1, <2>2, <2>3 DEF TypeOK
<1> QED
  BY <1>1, TesterInvariant, PTL

(* find_max_concurent_allocations is exact: its list is sorted and has every  *)
(* size of the log once, with its allocations and the most at any time.       *)
THEOREM SizesAreExact == Spec => []SizesExact
<1>1. TesterInv => SizesExact
  BY SizesExactOfLog DEF TesterInv, LogInv
<1> QED
  BY <1>1, TesterInvariant, PTL

(* optimize_buckets leaves no size without a bucket, so set_distributions     *)
(* never ends in exit(1), and the bucket it counts a size in is the one that  *)
(* the efficiency report names.                                               *)
THEOREM EverySizeHasBucket == Spec => []EverySizeFits
<1>1. TesterInv => EverySizeFits
  <2> SUFFICES ASSUME TesterInv, stage # "logging" PROVE EverySizeFits
    BY DEF EverySizeFits
  <2>1. /\ buckets \in Seq(Nat) /\ Len(buckets) <= MaxUniqueBuckets
        /\ Ascending(buckets) /\ ~NoFit(buckets, log)
    BY HandedOver
  <2>2. \A i \in DOMAIN log : BestBucket(buckets, log[i].size) = FirstFit(buckets, log[i].size)
    <3> TAKE i \in DOMAIN log
    <3>1. FirstFit(buckets, log[i].size) # 0
      BY <2>1 DEF NoFit
    <3> QED
      BY <2>1, <3>1, FirstFitIsBest
  <2>3. stage # "noFit"
    BY DEF TesterInv, OptimizedInv
  <2> QED
    BY <2>1, <2>2, <2>3 DEF EverySizeFits, Ascending
<1> QED
  BY <1>1, TesterInvariant, PTL

(* When no size of a well-formed log lies in the padding of a bucket, the     *)
(* distribution of set_distributions is enough: the replay never runs out of  *)
(* blocks, and ends with a block in use for each allocation not freed.        *)
THEOREM AgreeingReplayNeverFails == Spec => []AgreeingReplayPasses
<1>1. TesterInv => AgreeingReplayPasses
  <2> SUFFICES ASSUME TesterInv, Agreeing PROVE AgreeingReplayPasses
    BY DEF AgreeingReplayPasses, Agreeing
  <2>1. stage # "failed"
    BY DEF TesterInv, PlannedInv, Replayed
  <2>2. ASSUME stage = "passed", NEW s \in Sizes
        PROVE  Cardinality({i \in DOMAIN log : log[i].size = s /\ ptr[i] # 0})
                 = NumAllocs(log, s) - NumFrees(log, s)
    <3>1. stage \in Replayed
      BY <2>2 DEF Replayed
    <3>2. log \in Seq(Lines) /\ Len(log) \in Nat /\ next = Len(log) + 1
      BY <2>2, <3>1 DEF TesterInv, LogInv, ReplayInv
    <3>3. Cardinality(BlocksOfSize(s)) = InUse(log, next - 1, s)
      BY <3>1 DEF TesterInv, PlannedInv
    <3>4. next - 1 = Len(log)
      BY <3>2
    <3>5. InUse(log, Len(log), s) = NumAllocs(log, s) - NumFrees(log, s)
      BY <3>2, NumIsCountAll DEF InUse
    <3> QED
      BY <3>3, <3>4, <3>5 DEF BlocksOfSize
  <2> QED
    BY <2>1, <2>2 DEF AgreeingReplayPasses
<1> QED
  BY <1>1, TesterInvariant, PTL

(* Blocks are neither lost nor made, whichever bucket the allocator takes     *)
(* them from, and those of a well-formed log on whose sizes the fit tests     *)
(* agree come from the buckets that set_distributions counted them in.        *)
THEOREM BlocksArePlanned == Spec => []BlocksAsPlanned
<1>1. TesterInv => BlocksAsPlanned
  <2> SUFFICES ASSUME TesterInv, stage \in {"replaying", "passed", "failed"} PROVE BlocksAsPlanned
    BY DEF BlocksAsPlanned
  <2>1. stage \in Replayed
    BY DEF Replayed
  <2>2. \A i \in DOMAIN buckets : ava[i] + Cardinality(BlocksOf(i)) = dist[i]
    BY <2>1 DEF TesterInv, ReplayInv
  <2>3. WellFormed(log) /\ FitsAgree(buckets, log) =>
          \A j \in DOMAIN ptr : ptr[j] \in {0, FirstFit(buckets, log[j].size)}
    BY <2>1 DEF TesterInv, PlannedInv, Agreeing
  <2> QED
    BY <2>2, <2>3 DEF BlocksAsPlanned, BlocksOf
<1> QED
  BY <1>1, TesterInvariant, PTL

================================================================================
