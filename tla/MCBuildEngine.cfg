SPECIFICATION Spec
CONSTANTS
  ac = ac
  ah = ah
  ao = ao
  prog = prog
  tool = tool
  fa = fa
  oa = oa
  mkprog = mkprog
  mktool = mktool
  all = all
  Source <- MCSource
  Product <- MCProduct
  Node <- MCNode
  Rule <- MCRule
  FileClause <- MCFileClause
  Children <- MCChildren
  Outputs <- MCOutputs
  Depends <- MCDepends
  Commands <- MCCommands
  Installer <- MCInstaller
  TargetLists <- MCTargetLists
  MaxClock = 3
  MaxVersion = 2
  MaxCrashes = 1
INVARIANTS
    SuccessMeansUpToDate
    SuccessMeansInstalled
    
    InputsReady
    BuiltOnce
