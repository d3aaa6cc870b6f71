\* Two songs, and none.
CONSTANTS
  Songs = {1, 2}
SPECIFICATION FairSpec
INVARIANTS FreedOnce ShowsAsked Prompt BacksOff
PROPERTIES KeepsToSession Recovers
CHECK_DEADLOCK FALSE
