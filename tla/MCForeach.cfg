\* Four values, up to three jobs at a time; the other two worlds have three values and a child.
CONSTANTS
  NValues = 4
  MaxJobs = 3
  UIntSize = 8
  Inherited = 0
  SigchldIgnored = FALSE
SPECIFICATION WorldsSpec
INVARIANTS Count StopsSoon ExitCodeTellsAll
PROPERTIES ImplementsPool ReturnsAnywhere
CHECK_DEADLOCK FALSE
