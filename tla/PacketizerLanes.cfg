SPECIFICATION Spec
CONSTANTS
  Register <- MCRegister
  Functions <- MCFunctions
  Configs <- SplitConfigs
INVARIANT
  NoPacketViolatesLanes
