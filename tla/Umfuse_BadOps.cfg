CONSTANTS
  Ctx = {0, 1}
  Fds = {0, 1}
  Paths <- MCPaths
  Ancestors <- MCAncestors
  FsMains = {"fuse_main", "badops"}
  OpenFlags = {"plain"}
  EXPERIMENTAL = TRUE
  MaxMounts = 3
  NULL = NULL
  WORDLEN = 8
  Listing <- MCListing
  Counts = {}
SPECIFICATION Spec
INVARIANT MountedFsInitialised
CHECK_DEADLOCK FALSE
