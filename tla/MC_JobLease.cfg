SPECIFICATION FairSpec
CONSTANTS
  w1 = w1
  w2 = w2
  w3 = w3
  n1 = n1
  n2 = n2
  None = None
  Process <- MCProcess
  Nonce <- MCNonce
INVARIANTS
  TypeOK
  ExclusiveWhileAlive
PROPERTY DeadLeaseGoes
CHECK_DEADLOCK FALSE
