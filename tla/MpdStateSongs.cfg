CONSTANTS
  Songs = {1}
  MaxPlaylist = 1
  Outputs = {1}
  MaxChanges = 0
SPECIFICATION Spec
PROPERTY SongsAsSaved
CHECK_DEADLOCK FALSE
