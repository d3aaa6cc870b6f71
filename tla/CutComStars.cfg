CONSTANTS
  MaxInput = 6
SPECIFICATION Spec
INVARIANT RemovesComments
CHECK_DEADLOCK FALSE
