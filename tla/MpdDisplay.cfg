\* Lines of none, one, three and seven columns.
CONSTANTS
  Tag <- Tags
  Songs <- SomeSongs
  Lines <- SomeLines
  Widths = {2, 5, 9}
  Lengths = {2}
  Unsigned = 65536
SPECIFICATION Spec
INVARIANTS RowIsCurrent ReadsInside DefaultAsMpc
PROPERTIES MovesByOne
CHECK_DEADLOCK FALSE
