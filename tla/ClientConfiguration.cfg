SPECIFICATION ApartSpec
CONSTANTS
  s1 = s1
  k1 = k1
  k2 = k2
  k3 = k3
  r1 = r1
  r2 = r2
  c1 = c1
  t1 = t1
  t2 = t2
  t3 = t3
  NoService = NoService
  NoSecret = NoSecret
  NoVersion = NoVersion
  NoDocument = NoDocument
  NoReference = NoReference
  NoToken = NoToken
  Managed = Managed
  Services <- OneService
  Secrets <- ThreeSecrets
  ServiceOf <- AllOfOne
  Requests <- TwoRequests
  Versions <- TwoVersions
  Documents <- SmallDocuments
  Connections <- OneConnection
  ConnectionOf <- ConnectionOfOne
  Tokens <- ThreeTokens
SYMMETRY Symmetric
INVARIANTS
  TypeOK
  BoundSecretIsUsable
  SuccessMeansSettled
  OneTokenPerLine
PROPERTIES
  ClosedStaysClosed
  ImplementsReleaseHistory
