SPECIFICATION FairSpec
CONSTANTS
  Register <- MCRegister
  Functions <- MCFunctions
  Configs <- MCConfigs
INVARIANTS
  PairInv
  BundlesIndependent
  BundlesDisjoint
  PlaceIsLegalLane
  NoMissedPair
PROPERTIES
  ImplementsPlan
  PassReturns
