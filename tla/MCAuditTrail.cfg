CONSTANTS
  Rows = {r1, r2, r3, r4}
  Cap = 2
  BatchMax = 2
  MaxCrash = 1
SPECIFICATION FairSpec
INVARIANT RowsAreWrittenAtMostOnce
PROPERTY NoRowLingers
