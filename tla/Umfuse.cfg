CONSTANTS
  Ctx = {0, 1}
  Fds = {0, 1}
  Paths <- MCPaths
  Ancestors <- MCAncestors
  FsMains = {"fuse_main", "fail"}
  OpenFlags = {"plain"}
  EXPERIMENTAL = TRUE
  MaxMounts = 3
  NULL = NULL
  WORDLEN = 8
  Listing <- MCListing
  Counts = {49, 100}
SPECIFICATION Spec
INVARIANTS TypeOK NoThreadOfUnmounted GetdentsListsOnce
CHECK_DEADLOCK FALSE
