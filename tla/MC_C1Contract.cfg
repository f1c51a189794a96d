SPECIFICATION Spec
CONSTANTS
  i1 = i1
  operator = operator
  agent = agent
  broker = broker
  n1 = n1
  n2 = n2
  None = None
  Incident <- MCIncident
  Did <- MCDid
  Tenant = operator
  Nonce <- MCNonce
  KeyId <- MCKeyId
  MaxU64 = 3
  MinTtl = 1
  MaxTtl = 2
INVARIANTS
  TypeOK
  RowsStayValid
  SingleStart
  ClaimFence
PROPERTIES
  TerminalRowsFrozen
  AuthorityFixed
