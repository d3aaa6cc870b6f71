\* Commands that exit with 0, 1 or 5, or are killed.
CONSTANTS
  Codes = {1, 5}
SPECIFICATION Spec
INVARIANT PidPrinted
CHECK_DEADLOCK FALSE
