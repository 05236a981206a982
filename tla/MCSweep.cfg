SPECIFICATION Spec
CONSTANTS
  Kernels <- MCKernels
  Sources = {"fir", "dot_product"}
  Values <- MCValues
  Cycles = {5, 7}
INVARIANTS
  SweepInv
  RowsAreOwn
  SpeedupsShareReference
  SweepIsComplete
