------------------------------ MODULE IpRoute ------------------------------
(***************************************************************************)
(* The lwIPv6 routing table (lwip-v6/src/core/ipv6/ip6_route.c):          *)
(* a fixed pool of IP_ROUTE_POOL_SIZE entries, a free list, and the route *)
(* list ip_route_head kept in "ordered insert" order so that the first    *)
(* entry whose prefix matches is the route ip_route_findpath returns.     *)
(*                                                                         *)
(* Routes are added and deleted by netlink RTM_NEWROUTE / RTM_DELROUTE    *)
(* messages (ip_route_netlink_adddelroute) and removed in bulk when an    *)
(* interface goes away (ip_route_list_delnetif).  Addresses are W-bit     *)
(* numbers; the four 32-bit words of struct ip_addr are one number here   *)
(* and the bit operations of the ip_addr macros act on it directly.       *)
(* Pool entries are interchangeable, so the free list is its length.      *)
(***************************************************************************)
EXTENDS Naturals, Sequences, SequencesExt, Bitwise

CONSTANTS
  W,             \* address width in bits
  POOL,          \* IP_ROUTE_POOL_SIZE
  Netifs,        \* interfaces, model values
  Dsts,          \* RTA_DST values a netlink request may carry
  Gateways,      \* RTA_GATEWAY values (ANY = 0 means no gateway attribute)
  DirectNetif,   \* netif_find_direct_destination: nexthop -> netif or NONE
  NONE

Addrs == 0 .. (2 ^ W) - 1
ANY == 0                                            \* IP_ADDR_ANY
prefix2mask(k) == (2 ^ W) - (2 ^ (W - k))           \* k leading one bits
Masks == {prefix2mask(k) : k \in 0 .. W}

ASSUME Dsts \subseteq Addrs /\ ANY \in Gateways /\ Gateways \subseteq Addrs
ASSUME DirectNetif \in [Gateways -> Netifs \cup {NONE}]

VARIABLES
  routes,   \* ip_route_head, as the sequence of its entries
  nfree,    \* length of ip_route_freelist
  removed   \* interfaces removed (netif_find_id no longer finds them)

vars == <<routes, nfree, removed>>

Route == [addr : Addrs, netmask : Masks, nexthop : Addrs, netif : Netifs]

TypeOK ==
  /\ routes \in Seq(Route) /\ Len(routes) <= POOL
  /\ nfree \in 0 .. POOL
  /\ removed \subseteq Netifs

(* ip_route_list_init: every pool entry on the free list, no route. *)
Init ==
  /\ routes = << >>
  /\ nfree = POOL
  /\ removed = {}

(* The ip_addr macros on W-bit numbers. *)
ip_addr_set_mask(a, m) == a & m
ip_addr_maskcmp(a1, a2, m) == (a1 & m) = (a2 & m)
(* mask_wider(x, y): y has a bit that x lacks (y & ~x is non-zero). *)
mask_wider(x, y) == y - (x & y) # 0

-----------------------------------------------------------------------------
(* ip_route_list_add: ERR_MEM when the pool is empty; ERR_CONN when an     *)
(* entry with the same addr and netmask and the same nexthop or netif is  *)
(* already there (the stored addr is compared with the argument as        *)
(* given); otherwise the masked entry is inserted before the first entry *)
(* whose netmask the new one is wider than.                               *)
is_dup(r, a, m, nh, nif) ==
  r.addr = a /\ r.netmask = m /\ (r.nexthop = nh \/ r.netif = nif)

insert_pos_narrow(rs, m) ==
  LET i == SelectInSeq(rs, LAMBDA r : mask_wider(m, r.netmask)) IN
  IF i = 0 THEN Len(rs) + 1 ELSE i
insert_pos(rs, m) ==
  LET i == SelectInSeq(rs, LAMBDA r : mask_wider(r.netmask, m)) IN
  IF i = 0 THEN Len(rs) + 1 ELSE i

(* The list after a successful add to rs. *)
list_add(rs, a, m, nh, nif) ==
  InsertAt(rs, insert_pos(rs, m),
           [addr |-> ip_addr_set_mask(a, m), netmask |-> m, nexthop |-> nh, netif |-> nif])

ip_route_list_add_nomem(a, m, nh, nif) ==
  /\ SelectInSeq(routes, LAMBDA r : is_dup(r, a, m, nh, nif)) = 0
  /\ routes' = list_add(routes, a, m, nh, nif)
  /\ nfree' = nfree - 1
ip_route_list_add(a, m, nh, nif) ==
  /\ nfree > 0
  /\ SelectInSeq(routes, LAMBDA r : is_dup(r, a, m, nh, nif)) = 0
  /\ routes' = list_add(routes, a, m, nh, nif)
  /\ nfree' = nfree - 1

(* ip_route_list_del: unlink the first entry with the same addr and       *)
(* netmask and the same nexthop or netif; ERR_CONN (no change) if none.   *)
ip_route_list_del(a, m, nh, nif) ==
  LET i == SelectInSeq(routes, LAMBDA r : is_dup(r, a, m, nh, nif)) IN
  /\ i # 0
  /\ routes' = RemoveAt(routes, i)
  /\ nfree' = nfree + 1

(* ip_route_list_delnetif: unlink every entry through netif; dp only      *)
(* advances past entries it keeps.                                        *)
delnetif_skipnext(nif) ==
  LET RECURSIVE Walk(_, _)
      Walk(s, skip) ==
        IF s = << >> THEN << >>
        ELSE IF skip THEN <<Head(s)>> \o Walk(Tail(s), FALSE)
        ELSE IF Head(s).netif = nif THEN Walk(Tail(s), TRUE)
        ELSE <<Head(s)>> \o Walk(Tail(s), FALSE)
  IN Walk(routes, FALSE)
delnetif(nif) == SelectSeq(routes, LAMBDA r : r.netif # nif)

ip_route_list_delnetif(nif) ==
  /\ routes' = delnetif(nif)
  /\ nfree' = nfree + (Len(routes) - Len(delnetif(nif)))

(* ip_route_findpath: the first entry whose prefix matches, its netif,    *)
(* and the nexthop (the destination itself for a directly connected       *)
(* route); NONE for ERR_RTE.                                              *)
route_lookup(rs, d) ==
  LET i == SelectInSeq(rs, LAMBDA r : ip_addr_maskcmp(d, r.addr, r.netmask)) IN
  IF i = 0 THEN NONE
  ELSE [netif |-> rs[i].netif,
        nexthop |-> IF rs[i].nexthop = ANY THEN d ELSE rs[i].nexthop]
ip_route_findpath(d) == route_lookup(routes, d)

-----------------------------------------------------------------------------
(***************************************************************************)
(* ip_route_netlink_adddelroute: the destination is RTA_DST as sent (not  *)
(* masked), the netmask comes from rtm_dst_len, the nexthop from          *)
(* RTA_GATEWAY (IP_ADDR_ANY when absent), the interface from RTA_OIF      *)
(* (-ENODEV when netif_find_id fails) or, when absent, from                *)
(* netif_find_direct_destination(nexthop) (-ENETUNREACH when none).       *)
(* Requests rejected before the table call change nothing.                *)
(***************************************************************************)
(* netif_find_direct_destination: the live interface whose network holds *)
(* the nexthop (netif.c is not part of the sources; a fixed assignment).  *)
netif_find_direct_destination(nh) ==
  IF DirectNetif[nh] \in removed THEN NONE ELSE DirectNetif[nh]

NetlinkRoute(type, a, k, nh, oif) ==
  LET nip == IF oif = NONE THEN netif_find_direct_destination(nh) ELSE oif IN
  /\ oif \notin removed
  /\ nip # NONE
  /\ IF type = "RTM_NEWROUTE"
       THEN ip_route_list_add(a, prefix2mask(k), nh, nip)
       ELSE ip_route_list_del(a, prefix2mask(k), nh, nip)
  /\ UNCHANGED removed

-----------------------------------------------------------------------------
(***************************************************************************)
(* RTM_GETROUTE (ip_route_netlink_getroute): with NLM_F_DUMP, one         *)
(* RTM_NEWROUTE message per entry of ip_route_head, in list order, for    *)
(* the requested family (rtm_family when the request carries a rtmsg,   *)
(* AF_UNSPEC = 0 otherwise: all), then NLMSG_DONE; a request shorter     *)
(* than a header gets no answer.                                          *)
(* answer.  The model's addresses are IPv6 (none is v4-compatible), so    *)
(* every entry is PF_INET6 and rtm_dst_len is the prefix of its netmask.  *)
(* A message is its type, family, dst_len and attributes; an attribute is *)
(* its RTA_ type and value (the netif id for RTA_OIF).                    *)
(***************************************************************************)
isdefault(a) == a = ANY
mask2prefix(m) == CHOOSE k \in 0 .. W : prefix2mask(k) = m

NlMsg(type, fam, k, attrs) == [type |-> type, family |-> fam, dst_len |-> k, attrs |-> attrs]
Rta(type, v) == [rta |-> type, val |-> v]

(* ip_route_out_route_dst, _oif and _gateway: a default destination or    *)
(* nexthop is left out.                                                    *)
(* Variant: the gateway test looks at the destination, as the dst one does. *)
out_route_dst(r) == IF isdefault(r.addr) THEN << >> ELSE <<Rta("RTA_DST", r.addr)>>
out_route_oif(r) == <<Rta("RTA_OIF", r.netif)>>
out_route_gateway_dsttest(r) ==
  IF isdefault(r.addr) THEN << >> ELSE <<Rta("RTA_GATEWAY", r.nexthop)>>
out_route_gateway(r) ==
  IF isdefault(r.nexthop) THEN << >> ELSE <<Rta("RTA_GATEWAY", r.nexthop)>>

(* ip_route_netlink_out_route: the attributes in the order of             *)
(* ip_route_route_out_table (RTA_DST, RTA_OIF, RTA_GATEWAY).              *)
ip_route_netlink_out_route(r, family) ==
  IF family \in {"AF_UNSPEC", "PF_INET6"}
    THEN <<NlMsg("RTM_NEWROUTE", "PF_INET6", mask2prefix(r.netmask),
                 out_route_dst(r) \o out_route_oif(r) \o out_route_gateway(r))>>
    ELSE << >>

ip_route_netlink_getroute(short, family, dump) ==
  IF short THEN << >>
  ELSE (IF dump
          THEN FlattenSeq([i \in 1 .. Len(routes) |->
                             ip_route_netlink_out_route(routes[i], family)])
          ELSE << >>)
       \o <<NlMsg("NLMSG_DONE", "AF_UNSPEC", 0, << >>)>>

(* The attribute loop of ip_route_netlink_adddelroute: a later attribute *)
(* of a type overrides an earlier one; an absent address stays            *)
(* IP_ADDR_ANY and an absent RTA_OIF leaves nip NULL.                      *)
rta_get(attrs, type, dflt) ==
  LET i == SelectLastInSeq(attrs, LAMBDA x : x.rta = type) IN
  IF i = 0 THEN dflt ELSE attrs[i].val

(* An interface is removed: its routes go with it (netif_remove). *)
NetifRemove(nif) ==
  /\ nif \notin removed
  /\ removed' = removed \cup {nif}
  /\ ip_route_list_delnetif(nif)

Next ==
  \/ \E type \in {"RTM_NEWROUTE", "RTM_DELROUTE"}, a \in Dsts, k \in 0 .. W,
        nh \in Gateways, oif \in Netifs \cup {NONE} :
       NetlinkRoute(type, a, k, nh, oif)
  \/ \E nif \in Netifs : NetifRemove(nif)

Spec == Init /\ [][Next]_vars

-----------------------------------------------------------------------------
(***************************************************************************)
(* Properties.                                                             *)
(***************************************************************************)

(* Longest-prefix match: for every destination, the route that             *)
(* ip_route_findpath returns has the longest netmask among all routes     *)
(* that match it.  This rests on the ordered insert of                    *)
(* ip_route_list_add keeping wider netmasks first through every sequence  *)
(* of additions, deletions and interface removals.                        *)
LongestPrefixMatch ==
  \A d \in Addrs :
    LET i == SelectInSeq(routes, LAMBDA r : ip_addr_maskcmp(d, r.addr, r.netmask)) IN
    \A j \in 1 .. Len(routes) :
      ip_addr_maskcmp(d, routes[j].addr, routes[j].netmask) =>
        routes[j].netmask <= routes[i].netmask

(* No route goes through an interface that has been removed:              *)
(* ip_route_list_delnetif unlinks every entry of the interface, and no    *)
(* later request can name it.                                             *)
NoRouteViaRemovedNetif ==
  \A j \in 1 .. Len(routes) : routes[j].netif \notin removed

(* The duplicate check of ip_route_list_add ("Find duplicate") keeps the  *)
(* table free of two entries it would call duplicates of each other.      *)
NoDuplicateRoutes ==
  \A i, j \in 1 .. Len(routes) :
    i < j => ~is_dup(routes[j], routes[i].addr, routes[i].netmask,
                     routes[i].nexthop, routes[i].netif)


(* One RTM_NEWROUTE message replayed into table rs the way                *)
(* ip_route_netlink_adddelroute and ip_route_list_add take it, with a     *)
(* pool of POOL entries; a rejected request leaves rs as it is.           *)
restore_one(rs, msg) ==
  LET a   == rta_get(msg.attrs, "RTA_DST", ANY)
      m   == prefix2mask(msg.dst_len)
      nh  == rta_get(msg.attrs, "RTA_GATEWAY", ANY)
      oif == rta_get(msg.attrs, "RTA_OIF", NONE)
      nip == IF oif = NONE THEN netif_find_direct_destination(nh) ELSE oif
  IN IF /\ msg.type = "RTM_NEWROUTE" /\ oif \notin removed /\ nip # NONE
        /\ Len(rs) < POOL
        /\ SelectInSeq(rs, LAMBDA r : is_dup(r, a, m, nh, nip)) = 0
     THEN list_add(rs, a, m, nh, nip) ELSE rs

(* Saving the table with an RTM_GETROUTE dump (of all families or of     *)
(* PF_INET6) and replaying the dumped RTM_NEWROUTE messages, in order,    *)
(* into an empty table gives a table that routes every destination as    *)
(* the live one does: ip_route_findpath picks the same interface and      *)
(* nexthop.  It rests on the dump leaving out exactly the attributes      *)
(* whose absence adddelroute reads back as the same value, on             *)
(* rtm_dst_len being the inverse of prefix2mask, and on the ordered       *)
(* insert rebuilding the list order from the dump order.                  *)
RouteDumpRestores ==
  \A fam \in {"AF_UNSPEC", "PF_INET6"} :
    LET saved == FoldLeft(restore_one, << >>, ip_route_netlink_getroute(FALSE, fam, TRUE))
    IN \A d \in Addrs : route_lookup(saved, d) = ip_route_findpath(d)

=============================================================================
