SPECIFICATION FairSpec
CONSTANTS
  i1 = i1
  operator = operator
  agent = agent
  broker = broker
  c1 = c1
  c2 = c2
  None = None
  Incident <- MCIncident
  Did <- MCDid
  Tenant = operator
  Agent = agent
  Broker = broker
  Nonce <- MCNonce
  KeyId <- MCKeyId
  MaxU64 = 1
  MinTtl = 1
  MaxTtl = 1
INVARIANTS
  TypeOK
  PassIsTrue
  AuthorisedDelete
  OneTrigger
PROPERTIES
  ReplayChangesNothing
  RunsEnd
