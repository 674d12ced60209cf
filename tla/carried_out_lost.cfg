\* A new entry carried out of a folder that is then deleted.
SPECIFICATION Spec
CONSTANTS
  None = None
  Root = home
  home = home
  x = x
  s = s
  y = y
  e = e
  newFolder = newFolder
  newEntry = newEntry
  bin = bin
  bin2 = bin2
  v0 = v0
  v1 = v1
  plain = plain
  named = named
  binName = binName
  own = own
  Entries = {e, newEntry}
  Folders = {x, s, y, newFolder, bin, bin2}
  Bins = {bin, bin2}
  BinEnabled = TRUE
  HistoryMaxItems = 1
  BinName = binName
  Vals = {v0, v1}
  Names = {plain, named}
  NewName = plain
  Source = own
  InitFiles <- NestedFiles
  Keys = {"n", "m", "D"}
  MaxSeq = 3
INVARIANTS
  CarriedOutIsKept
\* A session ends when the reader has staged MaxSeq operations, or stops.
CHECK_DEADLOCK FALSE
