SPECIFICATION Spec
CONSTANTS
  i1 = i1
  operator = operator
  agent = agent
  broker = broker
  c1 = c1
  c2 = c2
  None = None
  Incident <- MCIncident
  Did <- MCDid
  Tenant = operator
  Agent = agent
  Broker = broker
  Nonce <- MCNonce
  KeyId <- MCKeyId
  MaxU64 = 2
  MinTtl = 1
  MaxTtl = 1
SYMMETRY Symmetry
INVARIANTS
  TypeOK
  AtMostOneDelete
  WriteAuthorityIsStarted
  ClosedMeansAbsent
  ResultsAreTrue
PROPERTIES
  OneShot
