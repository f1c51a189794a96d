SPECIFICATION Spec
CONSTANTS
  i1 = i1
  operator = operator
  agent = agent
  broker = broker
  c1 = c1
  c2 = c2
  t1 = t1
  t2 = t2
  h1 = h1
  h2 = h2
  None = None
  Incident <- MCIncident
  Did <- MCDid
  Tenant = operator
  Agent = agent
  Broker = broker
  Nonce <- TwoChildren
  Thread <- OneThread
  HandoffId <- MCHandoffId
  KeyId <- MCKeyId
  MaxU64 = 2
  MinTtl = 2
  MaxTtl = 2
  Doubled = TRUE
PROPERTIES
  ClosedConflicts
