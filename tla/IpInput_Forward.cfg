CONSTANTS
  W = 3
  POOL = 2
  Netifs = {"n1", "n2"}
  NONE = NONE
  Dsts <- MCDsts3
  Gateways <- MCGateways3
  DirectNetif <- MCDirectNetif3
  USERFILTER = FALSE
  IPv4_FRAGMENTATION = FALSE
  IPv6_FRAGMENTATION = FALSE
  LocalAddrs <- MCLocalAddrs3
  Mcast = {7}
  Versions = {6}
  Protos = {"UDP"}
  Ttls = {2}
  PktDests = {0, 1, 5, 6}
  Bigs = {FALSE}
  V4Flags = {"none"}
  ArgTokens <- MCArgTokens
  MaxArgs = 3
  LibOutcomes = {"ok", "nolib", "nosym"}
  SendSrcs = {1}
INIT StackInit
NEXT StackNext
INVARIANTS
  TypeOK
  LongestPrefixMatch
  NoRouteViaRemovedNetif
  RouteDumpRestores
CHECK_DEADLOCK FALSE
