CONSTANTS
  Procs = {p1, p2, p3}
  NSlots = 2
  Services = {"lwipv6"}
  Targets <- MCKillTargets
  Claims <- MCClaims
  ArgsOf <- MCArgsOf
  Syscalls = {"open", "recv"}
  SCMAP <- MCSCMAP
  WrapinResults = {"FAKE", "CALLONXIT", "MODICALL"}
  ExecResults = {"binfmt", "module", "copy_ok", "copy_fail"}
  MaxEpoch = 1
  MaxBuf = 3
  MaxTmp = 1
  KillAllowed = TRUE
  NULL = NULL
  PE = PE
  UM_NONE = UM_NONE
SPECIFICATION FairSpec
PROPERTIES StopsAreAnswered
