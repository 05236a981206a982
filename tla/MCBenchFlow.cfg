SPECIFICATION Spec
CONSTANTS
  Kernels <- OneKernel
  Jobs = 2
  Checksums = {"good", "bad"}
  OldReports = {"none", "clean", "unsafe"}
  Failures = {"noline", "timeout", "raise"}
INVARIANTS
  ExitReflectsChecker
  FlowInv
  NoOrphans
  MismatchIsReported
  ReportIsComplete
PROPERTY
  FlowEnds
