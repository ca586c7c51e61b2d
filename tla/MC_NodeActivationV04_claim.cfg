CONSTANTS
  s1 = s1
  s2 = s2
  Slots <- MCSlots
  NumNodes <- MCNumNodes
  MaxBlock <- MCMaxBlock
  MaxKeys <- MCMaxKeys
  StakePerNode <- MCStakePerNode
  MaxStake <- MCMaxStake
  NBlocksBeforeUnbond <- MCNBlocksBeforeUnbond
SPECIFICATION Spec
INVARIANT
  PendingMatchesCall
