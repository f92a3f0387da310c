CONSTANTS
  Ctx = {0, 1}
  Fds = {0, 1}
  Paths <- MCPaths
  Ancestors <- MCAncestors
  FsMains = {"fuse_main", "fail"}
  OpenFlags = {"plain"}
  EXPERIMENTAL = FALSE
  MaxMounts = 3
  NULL = NULL
  WORDLEN = 8
  Listing <- MCListing
  Counts = {}
SPECIFICATION Spec
INVARIANTS FsThreadLivesWhileMounted
CHECK_DEADLOCK FALSE
