SPECIFICATION EditorsSpec
CONSTANTS
  Null = Null
  MaxEdits = 2
  MaxOthers = 1
  MaxLost = 1
INVARIANT RecordsInv
PROPERTY SavesAsShown
