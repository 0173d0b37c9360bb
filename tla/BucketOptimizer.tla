---------------------------- MODULE BucketOptimizer ----------------------------
(******************************************************************************)
(* The optimizer of staticmemory/memory-bucket-optimizer: from the log of an  *)
(* application's allocations to the bucket sizes of wolfSSL's static memory   *)
(* and how many blocks of each (WOLFMEM_BUCKETS and WOLFMEM_DIST).            *)
(*                                                                            *)
(* The application writes the log, one line per allocation and per free; a    *)
(* line is [alloc, size].  The optimizer reads it once and for all: its       *)
(* functions are operators on the log.  Text, the summary it prints and the   *)
(* unused list sorted by frequency are left out.                              *)
(******************************************************************************)
EXTENDS Integers, Sequences, SequencesExt, FiniteSets, FiniteSetsExt

CONSTANTS
  Sizes,             \* sizes of allocations
  MaxUniqueBuckets,  \* MAX_UNIQUE_BUCKETS
  Align,             \* WOLFSSL_STATIC_ALIGN
  Padding,           \* wolfSSL_MemoryPaddingSz()
  MaxEvents,         \* bound: lines of a log
  MaxUnmatched       \* bound: frees in a log whose allocation is not in it

ASSUME OptimizerAssumption ==
  /\ Sizes \subseteq Nat \ {0} /\ Sizes # {}
  /\ MaxUniqueBuckets \in Nat /\ MaxUniqueBuckets >= 2
  /\ Align \in Nat \ {0} /\ Padding \in Nat
  /\ MaxEvents \in Nat /\ MaxUnmatched \in Nat

VARIABLES
  log,      \* the list of events
  stage,    \* "logging", then how far the tools are
  buckets, dist

Lines == [alloc : BOOLEAN, size : Sizes]

--------------------------------------------------------------------------------
(* What a log means. *)

NumAllocs(l, s) == Cardinality({i \in DOMAIN l : l[i] = [alloc |-> TRUE, size |-> s]})
NumFrees(l, s)  == Cardinality({i \in DOMAIN l : l[i] = [alloc |-> FALSE, size |-> s]})

Prefix(l, n) == SubSeq(l, 1, n)

(* Frees of the log, of one size, that come before their allocation or without. *)
Unmatched(l, s) == Max({NumFrees(Prefix(l, n), s) - NumAllocs(Prefix(l, n), s) : n \in 0..Len(l)})

WellFormed(l) == \A s \in Sizes : Unmatched(l, s) = 0

--------------------------------------------------------------------------------
(* find_max_concurent_allocations. *)

NewAllocSize(s) == [size |-> s, count |-> 0, concurrent |-> 0, maxConcurrent |-> 0]

(* Mutant of find_or_create_alloc_size: a new size goes to the end. *)
find_or_create_alloc_size_Appends(list, s) ==
  IF \E i \in DOMAIN list : list[i].size = s
    THEN list ELSE list \o <<NewAllocSize(s)>>

(* Before the first node of a smaller size, or at the end. *)
FirstSmaller(list, s) ==
  Min({i \in DOMAIN list : list[i].size < s} \cup {Len(list) + 1})

(* The list, largest size first, with a node for size s. *)
find_or_create_alloc_size(list, s) ==
  IF \E i \in DOMAIN list : list[i].size = s
    THEN list
    ELSE InsertAt(list, FirstSmaller(list, s), NewAllocSize(s))

(* What an event does to the node of its size. *)
CountEvent(n, alloc) ==
  [n EXCEPT !.concurrent = IF alloc THEN @ + 1 ELSE @ - 1,
            !.count = IF alloc THEN @ + 1 ELSE @,
            !.maxConcurrent = IF alloc THEN Max({@, n.concurrent + 1}) ELSE @]

CountInList(list, e) ==
  [i \in DOMAIN list |->
     IF list[i].size = e.size THEN CountEvent(list[i], e.alloc) ELSE list[i]]

(* The list after each event of the loop. *)
AllocSizeLists(l) ==
  LET lists[n \in 0..Len(l)] ==
        IF n = 0 THEN <<>>
                 ELSE CountInList(find_or_create_alloc_size(lists[n - 1], l[n].size), l[n])
  IN  lists

AllocSizes(l) == AllocSizeLists(l)[Len(l)]

--------------------------------------------------------------------------------
(* optimize_buckets. *)

(* The size rounded up to the alignment, and the padding. *)
get_bucket_size(s) == s + (IF s % Align > 0 THEN Align - (s % Align) ELSE 0) + Padding

(* Mutant of LargestHalf: the list is taken from its small end. *)
LargestHalf_Smallest(sizes) ==
  LET n == Min({MaxUniqueBuckets \div 2, Len(sizes)})
  IN  [i \in 1..n |-> get_bucket_size(sizes[Len(sizes) + 1 - i].size)]

(* The first half: the largest sizes. *)
LargestHalf(sizes) ==
  LET n == Min({MaxUniqueBuckets \div 2, Len(sizes)})
  IN  [i \in 1..n |-> get_bucket_size(sizes[i].size)]

(* The node for the next bucket of the other half: of those not included yet  *)
(* and with the most concurrent allocations (of which there must be some) the *)
(* first in the list.                                                         *)
IsNextMax(sizes, chosen, i) ==
  LET open == {j \in DOMAIN sizes : /\ sizes[j].maxConcurrent > 0
                                    /\ ~Contains(chosen, get_bucket_size(sizes[j].size))}
  IN  /\ i \in open
      /\ \A j \in open : \/ sizes[j].maxConcurrent < sizes[i].maxConcurrent
                         \/ sizes[j].maxConcurrent = sizes[i].maxConcurrent /\ i <= j

AddNextMax(sizes, chosen) ==
  IF \E i \in DOMAIN sizes : IsNextMax(sizes, chosen, i)
    THEN Append(chosen, get_bucket_size(sizes[CHOOSE i \in DOMAIN sizes :
                                                IsNextMax(sizes, chosen, i)].size))
    ELSE chosen

(* The other half, one bucket per round, as long as there is room. *)
Rounds(sizes) ==
  LET chosen[n \in 0..MaxUniqueBuckets] ==
        IF n = 0 THEN LargestHalf(sizes) ELSE AddNextMax(sizes, chosen[n - 1])
  IN  chosen

Chosen(sizes) == Rounds(sizes)[MaxUniqueBuckets - Len(LargestHalf(sizes))]

(* The buckets in ascending order.  The code swaps neighbours; the sizes are  *)
(* numbers and the dist values it swaps along are overwritten afterwards, so  *)
(* any sort gives its array: here each in turn goes before the first larger.  *)
FirstLarger(bs, b) == Min({i \in DOMAIN bs : bs[i] > b} \cup {Len(bs) + 1})

SortSteps(bs) ==
  LET sorted[n \in 0..Len(bs)] ==
        IF n = 0 THEN <<>>
                 ELSE InsertAt(sorted[n - 1], FirstLarger(sorted[n - 1], bs[n]), bs[n])
  IN  sorted

Sort(bs) == SortSteps(bs)[Len(bs)]

Buckets(l) == Sort(Chosen(AllocSizes(l)))

Fits(s, b) == s <= b - Padding

(* The bucket an event of size s goes in, 0 when there is none. *)
FirstFit(bs, s) ==
  IF \E i \in DOMAIN bs : Fits(s, bs[i])
    THEN Min({i \in DOMAIN bs : Fits(s, bs[i])})
    ELSE 0

(* Mutant of SetDistribution: the use after the last event is taken for the peak. *)
SetDistribution_MaxAtEnd(bs, d, e) ==
  LET i == FirstFit(bs, e.size)
      u == IF e.alloc THEN d.use[i] + 1 ELSE d.use[i] - 1
  IN  [use |-> [d.use EXCEPT ![i] = u], max |-> [d.max EXCEPT ![i] = u]]

(* One event of set_distributions. *)
SetDistribution(bs, d, e) ==
  LET i == FirstFit(bs, e.size)
      u == IF e.alloc THEN d.use[i] + 1 ELSE d.use[i] - 1
  IN  [use |-> [d.use EXCEPT ![i] = u],
       max |-> [d.max EXCEPT ![i] = IF e.alloc THEN Max({@, u}) ELSE @]]

(* current_use and max_concurrent_use after each event. *)
Uses(bs, l) ==
  LET zero == [i \in DOMAIN bs |-> 0]
      d[n \in 0..Len(l)] == IF n = 0 THEN [use |-> zero, max |-> zero]
                                     ELSE SetDistribution(bs, d[n - 1], l[n])
  IN  d

Distribution(bs, l) == Uses(bs, l)[Len(l)].max

(* "larger than all bucket sizes": exit(1). *)
NoFit(bs, l) == \E i \in DOMAIN l : FirstFit(bs, l[i].size) = 0

(* calculate_memory_efficiency: the bucket with the least waste, 0 for none. *)
BestBucket(bs, s) ==
  LET fit == {i \in DOMAIN bs : Fits(s, bs[i])}
      least == {i \in fit : \A j \in fit : bs[i] <= bs[j]}
  IN  IF fit = {} THEN 0 ELSE Min(least)

--------------------------------------------------------------------------------
(* The application's log, and a run of the optimizer. *)

optimizer == <<log, stage, buckets, dist>>

OptimizerInit ==
  /\ log = <<>>
  /\ stage = "logging"
  /\ buckets = <<>> /\ dist = <<>>

LogLine(e) ==
  /\ stage = "logging"
  /\ Len(log) < MaxEvents
  /\ log' = Append(log, e)
  /\ MapThenSumSet(LAMBDA s : Unmatched(log', s), Sizes) <= MaxUnmatched
  /\ UNCHANGED <<stage, buckets, dist>>

(* main; with a size that fits nowhere it ends in set_distributions. *)
Optimize ==
  /\ stage = "logging"
  /\ log # <<>>
  /\ buckets' = Buckets(log)
  /\ IF NoFit(buckets', log)
       THEN stage' = "noFit" /\ UNCHANGED dist
       ELSE stage' = "optimized" /\ dist' = Distribution(buckets', log)
  /\ UNCHANGED log

--------------------------------------------------------------------------------
(* Properties. *)

(* The list of sizes is sorted, has each size of the log once, and its counts *)
(* are what the log says: allocations in all, and the most at any time.       *)
SizesExact ==
  LET sizes == AllocSizes(log) IN
    /\ \A i, j \in DOMAIN sizes : i < j => sizes[i].size > sizes[j].size
    /\ {sizes[i].size : i \in DOMAIN sizes} = {log[i].size : i \in DOMAIN log}
    /\ \A i \in DOMAIN sizes :
         LET s == sizes[i].size
             inUse(n) == NumAllocs(Prefix(log, n), s) - NumFrees(Prefix(log, n), s)
         IN  /\ sizes[i].count = NumAllocs(log, s)
             /\ sizes[i].maxConcurrent = Max({inUse(n) : n \in 0..Len(log)})

(* "This indicates a bug in the bucket optimization algorithm" is never       *)
(* printed: whatever the log, every size in it fits in a bucket, also one     *)
(* that is only freed; there are at most MAX_UNIQUE_BUCKETS, sorted, and the  *)
(* bucket that set_distributions counts an allocation in is the one that the  *)
(* efficiency report gives it.                                                *)
EverySizeFits ==
  stage # "logging" =>
    /\ stage # "noFit"
    /\ Len(buckets) <= MaxUniqueBuckets
    /\ \A i, j \in DOMAIN buckets : i < j => buckets[i] <= buckets[j]
    /\ \A i \in DOMAIN log : BestBucket(buckets, log[i].size) = FirstFit(buckets, log[i].size)

================================================================================
