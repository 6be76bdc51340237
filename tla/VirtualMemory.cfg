CONSTANTS
  PAGES = 5
  TLB_SIZE = 2
  ZEROS = ZEROS
SPECIFICATION Spec
INVARIANTS
  TypeOK
  TlbAgreesWithTable
  ReadsOtherPages
