SPECIFICATION Spec
CONSTANTS
  Voter = {v1, v2}
  BP = {b1, b2}
  System = system
  PawnBox = pawnbox
  Fee = fee
  Fund = fund
  VidPool = vidpool
  Unit = 1
  Tiers <- OneTier
  FrozenDelay = 0
  Reward = 20
  VidRewards = {0, 30}
  MinClaim = 2
  VoteLimits <- Pawns
  StaticLimits <- Pawns
  Held = 20
  Amounts = {0, 10}
  MaxBlock = 5
  MaxStatic = 1
  MaxActions = 7
CHECK_DEADLOCK FALSE
SYMMETRY Symmetry
INVARIANTS PowersAdd AgesAccounted LockedOwned VoteallAdds RewardsFunded
