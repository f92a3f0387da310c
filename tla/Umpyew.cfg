CONSTANTS
  Funcs = {"wrap1", "wrap2", "wrap3", "stat", "checkpath", "checkbinfmt", "checkbad"}
  PyFails = TRUE
  AttrKinds = {"missing", "callable", "none", "other"}
  MaxObj = 14
  NULL = NULL
SPECIFICATION Spec
INVARIANTS NoRefcountFault KeptObjectsLive NoLeakInWrappers
CHECK_DEADLOCK FALSE
