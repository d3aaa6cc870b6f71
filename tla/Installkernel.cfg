\* Two runs, one of them cut short, over every pair of installed kernels.
CONSTANTS
  Kinds <- TwoKinds
  Ver = {"a", "b"}
  MaxRuns = 2
  MaxAborts = 1
  Overwrite = {FALSE,TRUE}
  Tidy = {FALSE,TRUE}
SPECIFICATION Spec
INVARIANTS NewAndOldOfOther Bootable
PROPERTY NothingLost
CHECK_DEADLOCK FALSE
