\* Numbering as on x86_64: __NR_read is 0.
CONSTANTS
  SIZESCMAP = 3
  MAXSC = 4
  BASEUSC = 6
  MAXUSC = 2
  ScNos <- NosX86_64
SPECIFICATION Spec
INVARIANT DispatchIndexValid
CHECK_DEADLOCK FALSE
