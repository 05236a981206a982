SPECIFICATION Spec
CONSTANTS
  Kernels <- OneKernel
  Jobs = 2
  Checksums = {"good", "bad"}
  OldReports = {"none", "clean"}
  Failures = {"timeout"}
INVARIANT
  TimedIsVerified
