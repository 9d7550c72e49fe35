SPECIFICATION Spec
CONSTANTS
  primary = primary
  r1 = r1
  g1 = g1
  k1 = k1
  get = get
  head = head
  NoGrant = NoGrant
  Targets <- TwoTargets
  Primary = primary
  Order <- PeerFirst
  Grants <- OneGrant
  Keys <- OneKey
  Reads <- GetAndHead
  Heads <- OnlyHead
  Ttl = 1
  MaxTime = 1
  Disturbances <- Everything
INVARIANTS
  TypeOK
  AuditTrail
  FallbackIsOrderly
PROPERTIES
  ImplementsReadAuthority
