SPECIFICATION NarrowSpec
CONSTANTS
  first = first
  second = second
  image = image
  other = other
  w1 = w1
  w2 = w2
  NoJob = NoJob
  Jobs <- TwoJobs
  Queue <- InOrder
  Sources <- TwoImages
  SourceOf <- OwnImage
  Workers <- TwoWorkers
  MaxAttempts = 2
  Disturbances <- Everything
INVARIANTS
  TypeOK
  LineageIsBacked
  VerifiedIsStored
PROPERTIES
  ImplementsBoundedJobs
  EveryJobEnds
CHECK_DEADLOCK FALSE
