CONSTANTS
  Songs = {1}
  MaxPlaylist = 1
  Outputs = {1}
  MaxChanges = 0
SPECIFICATION Spec
INVARIANT RestoresSaved
CHECK_DEADLOCK FALSE
