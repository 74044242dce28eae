SPECIFICATION FairSpec
CONSTANTS
  gy = gy
  gc = gc
  gh = gh
  go = go
  fg = fg
  gen = gen
  sel = sel
  obj = obj
  UseIth = TRUE
  Source <- MCSource
  Product <- MCProduct
  Node <- MCNode
  Rule <- MCRule
  FileClause <- MCFileClause
  Children <- MCChildren
  Outputs <- MCOutputs
  Depends <- MCDepends
  Commands <- MCCommands
  Installer <- MCInstaller
  TargetLists <- MCTargetLists
  MaxClock = 3
  MaxVersion = 2
  MaxCrashes = 1
INVARIANTS
    IInv
PROPERTIES
    RunEnds
