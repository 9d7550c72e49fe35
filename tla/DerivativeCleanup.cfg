SPECIFICATION Spec
CONSTANTS
  first = first
  second = second
  image = image
  other = other
  w1 = w1
  w2 = w2
  NoJob = NoJob
  Jobs <- TwoJobs
  Queue <- InOrder
  Sources <- TwoImages
  SourceOf <- OwnImage
  Workers <- TwoWorkers
  MaxAttempts = 2
  Disturbances <- OnlyLease
INVARIANTS
  CleanupSparesVerified
CHECK_DEADLOCK FALSE
