SPECIFICATION RunSpec
CONSTANTS
  Reg <- MCReg
  Env = "env"
  InitStates <- MCInitStates
  Op <- MCOp
  Listings <- MCListings
  Programs <- MCListings
  Targets <- MCTargets
  LineBytes = 64
INVARIANTS
  AcceptedRunsAsScalar
  PassedMeansSame
