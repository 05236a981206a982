SPECIFICATION CoreSpec
CONSTANTS
  Reg <- MCReg
  Env = "env"
  InitStates <- MCInitStates
  Op <- MCOp
  Programs <- SafePrograms
  Targets <- MCTargets
INVARIANTS
  SameAsScalar
  CoreInv
