CONSTANTS
  Calls <- MCCalls
  FamilyOf <- MCFamilyOf
  Destinations = {"out"}
  Pids = {1}
  Parts = 1
  MaxSequence = 2
SPECIFICATION FairSpec
INVARIANTS
  DestinationIsWhole
  SuccessIsPublication
  ResidueIsExplained
PROPERTIES
  NeverReplaced
  ImplementsAtomicPublication
  EveryCallReturns
CHECK_DEADLOCK FALSE
