SPECIFICATION MCSpec
CONSTANTS
  Vals = {1, 2}
  Vars = {x, y}
  MaxNodes = 4
  Allow = {}
  Blank = 0
  MaxCap = 7
  Chars = {a, b}
  NUL = nul
  MaxLen = 4
  HALF = 4
  MaxCells = 5
INVARIANTS TypeOK ListsEnd ArrayTypeOK PairGivesBack
PROPERTIES QueueIsFifo OnlySettersChangeLists ArrayIsVector StringIsText StdQueueIsFifo
SYMMETRY Symmetry
