SPECIFICATION Spec
CONSTANTS
  Reg <- MCReg
  Texts <- MCTexts
INVARIANTS
  DecodedIsInsn
  CompressedAsExpanded
  OperandsExact
