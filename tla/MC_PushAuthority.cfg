SPECIFICATION Spec
CONSTANTS
  h1 = h1
  h2 = h2
  repo = repo
  otherRepo = otherRepo
  ref = ref
  otherRef = otherRef
  zero = zero
  c1 = c1
  c2 = c2
  secret = secret
  other = other
  pA = pA
  pB = pB
  None = None
  Absent = Absent
  C2_PUSH_REPOSITORY = repo
  C2_PUSH_REF = ref
  Repository = {repo, otherRepo}
  Ref = {ref, otherRef}
  Sha = {zero, c1, c2}
  ZERO_SHA = zero
  Digest = {secret, other}
  PolicyId = {pA, pB}
  Version = {1, 2}
  Handler = {h1, h2}
  Patch = {"RECONCILE_REQUIRED", "CLOSED"}
  World <- MCWorld
SYMMETRY Symmetry
INVARIANTS
  TypeOK
  AcceptedIsCausal
  JobIsAuthorised
PROPERTY FilesAreAtomic
