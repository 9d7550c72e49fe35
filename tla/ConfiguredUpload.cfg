SPECIFICATION Spec
CONSTANTS
  hot = hot
  canonical = canonical
  primary = primary
  replica = replica
  i1 = i1
  i2 = i2
  k1 = k1
  k2 = k2
  u1 = u1
  u2 = u2
  c1 = c1
  NoRequest = NoRequest
  NoIntent = NoIntent
  Faults <- AllFaults
  Targets <- Route
  Primary = primary
  Configured = TRUE
  Intents <- OneIntent
  Uploads <- TwoUploads
  Cancels <- OneCancel
  Keys <- TwoKeys
SYMMETRY Symmetric
INVARIANTS
  TypeOK
  AnswerIsDurable
  NoOrphans
  FailureIsRecorded
  OneWriter
PROPERTIES
  ImplementsStorageTruth
  NoWriteAfterClose
