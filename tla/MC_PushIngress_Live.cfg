SPECIFICATION FairSpec
CONSTANTS
  h1 = h1
  h2 = h2
  p1 = p1
  p2 = p2
  d1 = d1
  d2 = d2
  b1 = b1
  b2 = b2
  None = None
  Handler <- MCHandler
  Event <- MCEvent
  Policy <- MCOnePolicy
  Causal <- MCOneCausal
  MaxCrashes = 2
PROPERTIES
  AcceptedGetsJob
  ReservationIsDecided
