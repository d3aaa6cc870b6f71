\* Three instances, with and without --su.
CONSTANTS
  Inst = {i1, i2, i3}
  SuSwitch = {FALSE, TRUE}
SPECIFICATION FairSpec
INVARIANT OneInstance
PROPERTIES OwnLockOnly RefusedByRunning Released
CHECK_DEADLOCK FALSE
