\* Size 7 lies in the padding of the bucket for 5.
CONSTANTS
  Sizes = {5, 7, 8}
  MaxUniqueBuckets = 3
  Align = 2
  Padding = 1
  MaxEvents = 4
  MaxUnmatched = 0
SPECIFICATION Spec
INVARIANT ReplayPasses
CHECK_DEADLOCK FALSE
