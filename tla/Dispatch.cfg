CONSTANTS
  Procs = {p1, p2}
  NSlots = 2
  Services = {"real", "lwipv6"}
  Targets <- MCTargets
  Claims <- MCClaims
  ArgsOf <- MCArgsOf
  Syscalls = {"open", "recv", "execve", "mount", "socket", "getcwd"}
  SCMAP <- MCSCMAP
  WrapinResults = {"FAKE", "CALLONXIT", "MODICALL"}
  ExecResults = {"binfmt", "module", "copy_ok", "copy_fail"}
  MaxEpoch = 2
  MaxBuf = 2
  MaxTmp = 2
  KillAllowed = FALSE
  NULL = NULL
  PE = PE
  UM_NONE = UM_NONE
SPECIFICATION Spec
INVARIANTS TypeOK PathOwnedExactly ResumeOnlyStopped TmpFileOnlyDuringExec
PROPERTIES AbstractLifecycle
