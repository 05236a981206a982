SPECIFICATION ProfileSpec
CONSTANTS
  Reg <- MCReg
  Listings <- MCListings
  LineBytes = 8
  Profiled <- MCProfiled
  Targets <- MCTargets
  MaxTaken = 2
INVARIANTS
  VerdictExact
  BundlesPartition
  FiguresAgree
  ProfileExact
  StraddleExact
  ProfileInv
