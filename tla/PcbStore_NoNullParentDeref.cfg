CONSTANTS
  Procs <- MCProcs
  PCBSIZE = 1
  MaxTab = 4
  MaxFs = 4
  CloneFlags <- MCCloneFlags
  Modules = {}
  NULL = NULL

SPECIFICATION Spec

INVARIANT NoNullParentDeref
