CONSTANTS
  Procs <- MCProcs
  PCBSIZE = 1
  MaxTab = 4
  MaxFs = 4
  CloneFlags <- MCCloneFlags
  Modules = {m1}
  NULL = NULL

SPECIFICATION Spec

INVARIANT TypeOK
INVARIANT OnePcbPerLiveThread
INVARIANT ParentRefValid
INVARIANT FsRefcountExact
INVARIANT KnownProcsExact
