SPECIFICATION FairSpec
CONSTANTS
  src = src
  inc = inc
  gen = gen
  m = m
  a = a
  b = b
  g = g
  r1 = r1
  r2 = r2
  Up = Up
  NoRule = NoRule
  Nowhere = Nowhere
  Name <- MCName
  File <- MCFile
  Directory <- MCDirectory
  Texts <- MCTexts
  Rule <- MCRule
  Input <- MCInput
  Includes <- MCIncludes
  Dynamic <- MCDynamic
  MaxOpen = 20
  InRoot = FALSE
  OtherFlags = FALSE
CHECK_DEADLOCK FALSE
INVARIANTS
    Complete
    Sound

    
