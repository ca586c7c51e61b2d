CONSTANTS
  s1 = s1
  s2 = s2
  Slots <- MCSlots
  NumNodes <- MCNumNodes
  MaxBlock <- MCMaxBlockLive
  MaxKeys <- MCMaxKeysLive
  StakePerNode <- MCStakePerNode
  MaxStake <- MCMaxStakeLive
  NBlocksBeforeUnbond <- MCNBlocksBeforeUnbondLive
SPECIFICATION Spec
PROPERTIES
  PendingResolves
