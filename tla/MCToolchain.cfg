SPECIFICATION CompiledSpec
CONSTANTS
  Register <- MCRegister
  Reg <- MCReg
  Functions <- MCFunctions
  Configs <- MCConfigs
  Encode <- MCEncode
  LineBytes = 16
  Listings = {}
  Env = "env"
  InitStates <- MCInitStates
  Op <- MCOp
  Programs <- MCPrograms
  Targets <- MCTargets
INVARIANTS
  ToolInv
  CompiledIsSafe
  CompiledIsAccepted
  CheckerSeesPlan
  CompiledRunsAsScalar
