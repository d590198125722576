SPECIFICATION DeploymentSpec
CONSTANTS
  RustRunner = {r1}
  NextRunner = {}
  Seeder = {s1}
  Migration <- Files
  Broken = {18}
  BaseSchema = 1
  HashIndex = 7
  Merchant = {alice, bob}
  Demo <- Rows
  NoHash = NoHash
  Free = Free
INVARIANTS
  SeedFills
  RerunIsSafe
CHECK_DEADLOCK FALSE
