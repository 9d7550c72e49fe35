SPECIFICATION Spec
CONSTANTS
  primary = primary
  r1 = r1
  r2 = r2
  w1 = w1
  w2 = w2
  g1 = g1
  NoTarget = NoTarget
  Configured = TRUE
  Primary = primary
  MaximumAttempts = 2
  RetryDelay = 1
  LeaseDuration = 2
  RepairBatchSize = 1
  RetentionBatchSize = 1
  MaxTime = 3
  Targets <- OneReplica
  Repairers <- TwoWorkers
  Retainers <- NoRetainer
  Disturbances <- OnlyLate
SYMMETRY Symmetric
PROPERTIES
  StaleSafe
