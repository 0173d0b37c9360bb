\* Four aligned sizes for three buckets; 5 and 7 lie in the padding of the next
\* smaller bucket, where there is one.
CONSTANTS
  Sizes = {1, 4, 5, 7, 8}
  MaxUniqueBuckets = 3
  Align = 2
  Padding = 1
  MaxEvents = 5
  MaxUnmatched = 1
SPECIFICATION Spec
INVARIANTS
  TypeOK
  SizesExact
  EverySizeFits
  AgreeingReplayPasses
  BlocksAsPlanned
CHECK_DEADLOCK FALSE
