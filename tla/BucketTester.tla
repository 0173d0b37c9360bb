------------------------------ MODULE BucketTester -----------------------------
(******************************************************************************)
(* The tester of staticmemory/memory-bucket-optimizer, given what the         *)
(* optimizer printed: it loads static memory with these buckets and replays   *)
(* the log.  A log line without its allocation frees nothing.                 *)
(******************************************************************************)
EXTENDS BucketOptimizer

VARIABLES
  next,  \* the event to replay
  ava,   \* free blocks per bucket (WOLFSSL_HEAP.ava)
  ptr    \* events[i].ptr: the bucket its block came from, 0 for NULL

tester == <<next, ava, ptr>>
vars == <<optimizer, tester>>

TypeOK ==
  /\ log \in Seq(Lines) /\ Len(log) <= MaxEvents
  /\ stage \in {"logging", "optimized", "noFit", "notLoaded", "replaying", "passed", "failed"}
  /\ buckets \in Seq(Nat) /\ dist \in Seq(Nat)
  /\ next \in 0..(MaxEvents + 1)
  /\ ava \in Seq(Nat)
  /\ ptr \in Seq(0..MaxUniqueBuckets)

Init ==
  /\ OptimizerInit
  /\ next = 0 /\ ava = <<>> /\ ptr = <<>>

(* main: the buckets as they were printed, and wc_LoadStaticMemory_ex, which  *)
(* cuts the buffer into all the blocks that dist asks for.                    *)
LoadStaticMemory ==
  /\ stage = "optimized"
  /\ stage' = "replaying"
  /\ next' = 1
  /\ ava' = dist
  /\ ptr' = [i \in DOMAIN log |-> 0]
  /\ UNCHANGED <<log, buckets, dist>>

(* ... or main ends first: a log of MAX_ALLOCATIONS lines or more, no memory  *)
(* for the buffer, or a buffer that static memory cannot be loaded in.  What  *)
(* it is given beside the buckets is not modelled: any start may end so.      *)
LoadStaticMemoryFails ==
  /\ stage = "optimized"
  /\ stage' = "notLoaded"
  /\ UNCHANGED <<log, buckets, dist, tester>>

(* wolfSSL's allocator gives a block to a request as large as its bucket:     *)
(* staticmemory/size-calculation.c allocates just buck[k] bytes (66), and the *)
(* Makefile's check wants "size of 25...ok" of a largest bucket of 25 (44).   *)
(* The padding is on top of a bucket (39), not taken from it as in Fits.      *)
HasBlock(i, s) == s <= buckets[i] /\ ava[i] > 0

(* A block of the first bucket that is large enough and has one left. *)
XMALLOC(i, s) ==
  /\ HasBlock(i, s)
  /\ \A j \in DOMAIN buckets : HasBlock(j, s) => i <= j
  /\ ava' = [ava EXCEPT ![i] = @ - 1]

Replaying == stage = "replaying" /\ next <= Len(log)

ReplayAlloc ==
  /\ Replaying
  /\ log[next].alloc
  /\ \E i \in DOMAIN buckets : XMALLOC(i, log[next].size) /\ ptr' = [ptr EXCEPT ![next] = i]
  /\ next' = next + 1
  /\ UNCHANGED optimizer

(* The test fails at the first allocation without a block. *)
ReplayAllocFails ==
  /\ Replaying
  /\ log[next].alloc
  /\ \A i \in DOMAIN buckets : ~HasBlock(i, log[next].size)
  /\ stage' = "failed"
  /\ UNCHANGED <<log, buckets, dist, tester>>

(* The events a free can be of: allocations of its size not freed yet. *)
Candidates == {j \in 1..(next - 1) : log[j] = [log[next] EXCEPT !.alloc = TRUE] /\ ptr[j] # 0}

(* Mutant of ReplayFree: the block is not given back. *)
ReplayFree_Forgets ==
  /\ Replaying
  /\ ~log[next].alloc
  /\ IF Candidates = {} THEN UNCHANGED ptr
                        ELSE ptr' = [ptr EXCEPT ![Max(Candidates)] = 0]
  /\ next' = next + 1
  /\ UNCHANGED <<optimizer, ava>>

(* The latest allocation of the size is freed; without one it is a warning. *)
ReplayFree ==
  /\ Replaying
  /\ ~log[next].alloc
  /\ IF Candidates = {}
       THEN UNCHANGED <<ava, ptr>>
       ELSE LET j == Max(Candidates) IN
              ava' = [ava EXCEPT ![ptr[j]] = @ + 1] /\ ptr' = [ptr EXCEPT ![j] = 0]
  /\ next' = next + 1
  /\ UNCHANGED optimizer

ReplayEnds ==
  /\ stage = "replaying"
  /\ next > Len(log)
  /\ stage' = "passed"
  /\ UNCHANGED <<log, buckets, dist, tester>>

Next ==
  \/ (\E e \in Lines : LogLine(e)) /\ UNCHANGED tester
  \/ Optimize /\ UNCHANGED tester
  \/ LoadStaticMemory \/ LoadStaticMemoryFails
  \/ ReplayAlloc \/ ReplayAllocFails \/ ReplayFree \/ ReplayEnds

Spec == Init /\ [][Next]_vars

--------------------------------------------------------------------------------
(* Properties. *)

(* The comment of set_distributions, "This function makes sure that for every *)
(* alloc there is a bucket avilable": the replay of a log that has the        *)
(* allocations of all its frees never runs out of blocks.                     *)
ReplayPasses == WellFormed(log) => stage # "failed"

(* Where the optimizer's fit test and the allocator's agree: no size of the   *)
(* log is within the last Padding bytes of a bucket.                          *)
FitsAgree(bs, l) ==
  \A i \in DOMAIN l, b \in DOMAIN bs : l[i].size <= bs[b] => Fits(l[i].size, bs[b])

(* What set_distributions does make sure of: only a size that the allocator   *)
(* puts in a smaller bucket than the optimizer did can make the replay of a   *)
(* well-formed log fail.  Without one there is a block for every allocation,  *)
(* and at the end the blocks in use are the allocations that the log does not *)
(* free.                                                                      *)
AgreeingReplayPasses ==
  WellFormed(log) /\ FitsAgree(buckets, log) =>
    /\ stage # "failed"
    /\ stage = "passed" =>
         \A s \in Sizes :
           Cardinality({i \in DOMAIN log : log[i].size = s /\ ptr[i] # 0})
             = NumAllocs(log, s) - NumFrees(log, s)

(* The replay neither loses nor makes blocks, whatever the log and wherever   *)
(* the allocator took them from; where the two fit tests agree, an allocation *)
(* of a well-formed log has a block of the bucket that the optimizer counted  *)
(* it in, never of a larger one.                                              *)
BlocksAsPlanned ==
  stage \in {"replaying", "passed", "failed"} =>
    /\ \A i \in DOMAIN buckets :
         ava[i] + Cardinality({j \in DOMAIN ptr : ptr[j] = i}) = dist[i]
    /\ WellFormed(log) /\ FitsAgree(buckets, log) =>
         \A j \in DOMAIN ptr : ptr[j] \in {0, FirstFit(buckets, log[j].size)}

================================================================================
