CONSTANTS
  s1 = s1
  s2 = s2
  Slots <- MCSlots
  NumNodes <- MCNumNodes
  MaxBlock <- MCMaxBlock
  MaxKeys <- MCMaxKeys
SPECIFICATION Spec
INVARIANTS
  TypeOK
  PendingMatchesCall
PROPERTIES
  UnbondClockKept
  LifecycleRefined
