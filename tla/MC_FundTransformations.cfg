CONSTANTS
  u1 = u1
  u2 = u2
  Users <- MCUsers
  MaxBlock <- MCMaxBlock
  Width <- MCWidth
  MaxFunds <- MCMaxFunds
  NBlocksBeforeClaim <- MCClaimDelay
SPECIFICATION Spec
INVARIANTS
  TypeOK
  FundsConserved
