CONSTANTS
  W = 2
  POOL = 1
  Netifs = {"n1", "n2"}
  NONE = NONE
  Dsts <- MCDsts
  Gateways <- MCGateways
  DirectNetif <- MCDirectNetif
  USERFILTER = FALSE
  IPv4_FRAGMENTATION = FALSE
  IPv6_FRAGMENTATION = TRUE
  LocalAddrs <- MCLocalAddrs
  Mcast = {3}
  Versions = {4, 6, 5}
  Protos = {"UDP", "ICMP", "OTHER", "HOP", "FRAG"}
  Ttls = {1, 2}
  PktDests = {0, 1, 3}
  Bigs = {FALSE, TRUE}
  V4Flags = {"none", "DF", "MF"}
  ArgTokens <- MCArgTokens
  MaxArgs = 3
  LibOutcomes = {"ok", "nolib", "nosym"}
  SendSrcs = {1, NONE}
INIT StackInit
NEXT StackNext
INVARIANTS
  PbufReleasedOnce
  NoOversizeOutput
  InterfacesPerArgs
CHECK_DEADLOCK FALSE
