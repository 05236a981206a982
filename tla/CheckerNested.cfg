SPECIFICATION CheckerSpec
CONSTANTS
  Reg <- MCReg
  Listings <- MCListings
  LineBytes = 8
INVARIANT
  EveryBundleProved
