SPECIFICATION FairSpec
CONSTANTS
  CommandLines <- MCCommandLines
  UIntMax = 7
INVARIANTS
  LanesCoverWidth
  LoadInv
  AcceptedMeaning
  RejectedIsContained
PROPERTY
  LoadReturns
