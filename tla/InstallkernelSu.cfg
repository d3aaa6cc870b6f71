\* Three instances with --su.
CONSTANTS
  Inst = {i1, i2, i3}
  SuSwitch = {TRUE}
SPECIFICATION Spec
INVARIANT OneInstanceUnderSu
CHECK_DEADLOCK FALSE
