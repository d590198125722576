SPECIFICATION DeploymentSpec
CONSTANTS
  RustRunner = {r1}
  NextRunner = {}
  Seeder = {}
  Migration <- Files
  Broken = {18}
  BaseSchema = 1
  HashIndex = 7
  Merchant = {alice, bob}
  Demo <- Rows
  NoHash = NoHash
  Free = Free
INVARIANT
  EveryFileApplies
CHECK_DEADLOCK FALSE
