SPECIFICATION Spec
CONSTANTS
  primary = primary
  first = first
  second = second
  r1 = r1
  r2 = r2
  r3 = r3
  NoTarget = NoTarget
  Retries <- ThreeRetries
  Disturbances <- Everything
  Targets <- ThreeTargets
  Primary = primary
  Hot = first
SYMMETRY Symmetric
INVARIANTS
  TypeOK
  OneRetryPerCopy
  AttemptsTellCopies
  RetriesSettle
  ClaimsAreBacked
PROPERTIES
  VerifiedIsUntouched
