SPECIFICATION DeploymentSpec
CONSTANTS
  RustRunner = {r1, r2}
  NextRunner = {n1}
  Seeder = {s1}
  Migration <- Files
  Broken = {18}
  BaseSchema = 1
  HashIndex = 7
  Merchant = {alice, bob}
  Demo <- Rows
  NoHash = NoHash
  Free = Free
INVARIANTS
  DeploymentTypeOK
  AppliedOnceInOrder
  LockSparesRuns
  SchemaHolds
  RerunIsNoWorse
PROPERTY
  MigrationsComplete
CHECK_DEADLOCK FALSE
