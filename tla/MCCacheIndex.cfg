SPECIFICATION Spec
CONSTANTS
  cc = cc
  ld = ld
  gen = gen
  l1 = l1
  l2 = l2
  l3 = l3
  l4 = l4
  l5 = l5
  Process = {p1}
  Key <- MCKey
  Line <- MCLine
  LinesOf <- MCLinesOf
  Missing = Missing
  NoCounter = NoCounter
  IndexFile = IndexFile
  MultiLine = FALSE
  Buffer = 20
  Base = 2
  MaxId = 4
  MaxCrashes = 2
INVARIANTS
    UniqueIds
    NothingForgotten
