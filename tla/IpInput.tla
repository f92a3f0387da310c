------------------------------ MODULE IpInput ------------------------------
(***************************************************************************)
(* The lwIPv6 input path (lwip-v6/src/core/ipv6/ip6.c): ip_input,         *)
(* ip_inpacket, ip_process_exthdr and ip_forward, composed with the       *)
(* routing table of IpRoute that ip_input consults through                *)
(* ip_route_findpath.  The stack runs every netlink request and every     *)
(* received packet to completion on one thread, so a route change and a   *)
(* packet are separate atomic steps.                                      *)
(*                                                                         *)
(* A packet is its header fields that decide the path: version,           *)
(* destination, next protocol, TTL / hop limit (an 8-bit field), whether  *)
(* it is longer than the MTU of the outgoing interface, and for IPv4 the  *)
(* fragment flags.  An ip_input call is one step; "last" records what it  *)
(* did: how many times the pbuf was released (pbuf_free, or handed to a   *)
(* layer that owns it from then on), what netif->output was given, and   *)
(* which ICMP errors were generated.  Build options are constants.        *)
(***************************************************************************)
EXTENDS IpRoute, FiniteSets

CONSTANTS
  USERFILTER,          \* LWIP_USERFILTER: the UF_HOOK calls are compiled in
  IPv4_FRAGMENTATION,  \* ip4_frag / ip4_reass compiled in
  IPv6_FRAGMENTATION,  \* ip6_reass compiled in
  LocalAddrs,          \* ip_addr_list_deliveryfind: addresses of each netif
  Mcast,               \* destinations ip_addr_ismulticast accepts
  Versions,            \* IP version nibbles that arrive
  Protos,              \* next protocols that arrive
  Ttls,                \* TTL / hop limit values that arrive
  PktDests,            \* destinations that arrive
  Bigs,                \* whether an arriving packet exceeds the MTU
  V4Flags,             \* IPv4 fragment flags that arrive
  SendSrcs             \* source addresses the transport layers pass to ip_output

ASSUME LocalAddrs \in [Netifs -> SUBSET Addrs] /\ Mcast \subseteq Addrs
ASSUME Protos \subseteq {"UDP", "ICMP", "OTHER", "HOP", "FRAG"}
ASSUME Ttls \subseteq 0 .. 255

ASSUME PktDests \subseteq Addrs /\ Bigs \subseteq BOOLEAN
ASSUME V4Flags \subseteq {"none", "DF", "MF"}
ASSUME SendSrcs \subseteq Addrs \cup {NONE}

(* The fragment flags exist only in the IPv4 header. *)
Headers ==
  {h \in [ver : Versions, dest : PktDests, proto : Protos, ttl : Ttls,
          big : Bigs, v4flags : V4Flags \cup {"none"}] :
     h.ver = 4 \/ h.v4flags = "none"}

VARIABLE last   \* the last ip_input or ip_output call: its packet, interface and effect

ivars == <<routes, nfree, removed, last>>

(* The effect of handling one pbuf. *)
Out(rel, sent, icmp) == [rel |-> rel, sent |-> sent, icmp |-> icmp]
Freed == Out(1, {}, {})          \* pbuf_free(p), or p handed over
Kept == Out(0, {}, {})           \* return without freeing p

(* UF_HOOK(..) <= 0 drops the packet; with UF_FREE_BUF the hook frees it, *)
(* with UF_DONTFREE_BUF it is left to the caller.                         *)
uf_drop(freebuf) ==
  IF USERFILTER THEN {IF freebuf THEN Freed ELSE Kept} ELSE {}

-----------------------------------------------------------------------------
(* ip_process_exthdr followed by the protocol switch of ip_inpacket.      *)
upper_dispatch(h) ==
  IF h.proto \in {"UDP", "ICMP"}
    THEN Freed                                     \* udp_input / icmp_input
    ELSE Out(1, {}, {"proto_unreach"})             \* icmp_dest_unreach + free

ip_process_exthdr(h) ==
  CASE h.proto = "HOP" -> {Freed}                  \* not supported: dropped
    [] h.proto = "FRAG" /\ IPv6_FRAGMENTATION ->
         {Freed,                                   \* cached by ip6_reass
          upper_dispatch([h EXCEPT !.proto = "UDP"])}  \* reassembled
    [] h.proto = "FRAG" -> {Freed}                 \* falls into the ESP case
    [] OTHER -> {upper_dispatch(h)}

ip_inpacket(h) ==
  uf_drop(TRUE)
  \cup
  CASE h.ver = 4 /\ h.v4flags = "MF" /\ IPv4_FRAGMENTATION ->
         {Freed, upper_dispatch(h)}                \* cached, or reassembled
    [] h.ver = 4 /\ h.v4flags = "MF" -> {Freed}    \* fragments dropped
    [] h.ver = 6 /\ h.proto \in {"HOP", "FRAG"} -> ip_process_exthdr(h)
    [] OTHER -> {upper_dispatch(h)}

-----------------------------------------------------------------------------
(* ip_forward: decrement the 8-bit TTL / hop limit, drop at 0 with ICMP   *)
(* time exceeded (not for ICMPv6), check the MTU, then netif->output and  *)
(* pbuf_free.                                                             *)
forward_output_nofree(pkt) == Out(0, {pkt}, {})
forward_output(pkt) == Out(1, {pkt}, {})
(* IPH4_TTL_SET / IPH_HOPLIMIT_SET of the field minus one, in 8 bits. *)
dec_ttl(t) == (t - 1) % 256
(* p->tot_len > netif->mtu *)
exceeds_mtu_never(h) == FALSE
exceeds_mtu(h) == h.big

ip_forward(h, nif) ==
  LET ttl == dec_ttl(h.ttl)
      pkt == [netif |-> nif, ttl |-> ttl, big |-> h.big, frag |-> FALSE]
      frags == [pkt EXCEPT !.big = FALSE, !.frag = TRUE]
  IN
  uf_drop(FALSE)                                   \* UF_IP_FORWARD
  \cup
  IF ttl = 0
    THEN {Out(1, {}, IF h.ver = 6 /\ h.proto = "ICMP" THEN {} ELSE {"time_exceeded"})}
    ELSE uf_drop(FALSE)                            \* UF_IP_POST_ROUTING
         \cup
         { CASE ~exceeds_mtu(h) -> forward_output(pkt)
             [] h.ver = 6 -> Out(1, {}, {"too_big"})
             [] ~IPv4_FRAGMENTATION -> Freed
             [] h.v4flags = "MF" -> Out(1, {}, {"frag_needed"})
             [] OTHER -> Out(1, {frags, pkt}, {}) }    \* ip4_frag, then on

(* ip_build_piphdr: the pseudo header of an IPv6 or IPv4 packet (the     *)
(* IPv4 addresses mapped into IPv6 by IP64_CONV, which the model's       *)
(* addresses already are); NONE for any other version.                   *)
ip_build_piphdr(h) ==
  IF h.ver \in {4, 6} THEN [version |-> h.ver, proto |-> h.proto, dest |-> h.dest]
                      ELSE NONE

(* ip_input: bad version, local delivery, multicast, forwarding, drop.    *)
ip_input(h, inp) ==
  LET ph == ip_build_piphdr(h)
      fp == ip_route_findpath(ph.dest) IN
  IF ph = NONE THEN {Freed}
  ELSE uf_drop(TRUE)                               \* UF_IP_PRE_ROUTING
       \cup
       CASE ph.dest \in LocalAddrs[inp] -> ip_inpacket(h)
         [] ph.dest \in Mcast -> ip_inpacket(h)
         [] fp # NONE /\ fp.netif # inp -> ip_forward(h, fp.netif)
         [] OTHER -> {Freed}

(* A packet arrives on a live interface and is handled to completion. *)
Receive(h, inp) ==
  /\ inp \notin removed
  /\ \E o \in ip_input(h, inp) :
       last' = [hdr |-> h, inp |-> inp, out |-> o, loop |-> NONE]
  /\ UNCHANGED <<routes, nfree, removed>>

-----------------------------------------------------------------------------
(***************************************************************************)
(* The output path: ip_output finds the route and calls ip_output_if,     *)
(* which builds the header and either loops a packet addressed to its own *)
(* source back (a copy r handed to netif->input, that is ip_input) or     *)
(* sends it.  The caller keeps its pbuf p and frees it itself; "loop" is  *)
(* what ip_input did with the copy.                                       *)
(***************************************************************************)
Sent(o, loop) == [out |-> o, loop |-> loop]

ip_output_if(h, src, nif) ==
  LET pkt == [netif |-> nif, ttl |-> h.ttl, big |-> h.big, frag |-> FALSE]
      frags == [pkt EXCEPT !.big = FALSE, !.frag = TRUE]
  IN
  IF src = NONE THEN {Sent(Kept, NONE)}            \* ERR_BUF
  ELSE {Sent(o, NONE) : o \in uf_drop(FALSE)}      \* UF_IP_LOCAL_OUT
       \cup
       IF src = h.dest                             \* the packet is for us
         THEN IF nif \in removed THEN {Sent(Kept, NONE)}  \* netif not up
              ELSE {Sent(Kept, Kept) : o \in uf_drop(FALSE)}  \* UF_IP_POST_ROUTING on r
                   \cup {Sent(Kept, o) : o \in ip_input(h, nif)}
         ELSE {Sent(o, NONE) : o \in uf_drop(FALSE)}  \* UF_IP_POST_ROUTING
              \cup
              { CASE ~exceeds_mtu(h) -> Sent(Out(0, {pkt}, {}), NONE)
                  [] h.ver = 4 /\ IPv4_FRAGMENTATION -> Sent(Out(0, {frags}, {}), NONE)
                  [] h.ver = 6 /\ IPv6_FRAGMENTATION -> Sent(Out(0, {frags}, {}), NONE)
                  [] OTHER -> Sent(Kept, NONE) }   \* dropped, ERR_OK

ip_output(h, src) ==
  LET fp == ip_route_findpath(h.dest) IN
  IF fp = NONE THEN {Sent(Kept, NONE)}             \* ERR_RTE
  ELSE ip_output_if(h, src, fp.netif)

(* A transport layer sends a packet; ip_output builds an IPv4 header for *)
(* an IPv4 source and an IPv6 header otherwise, with DF always set.      *)
Send(h, src) ==
  /\ h.ver \in {4, 6} /\ h.v4flags = "none"
  /\ \E r \in ip_output(h, src) :
       last' = [hdr |-> h, inp |-> NONE, out |-> r.out, loop |-> r.loop]
  /\ UNCHANGED <<routes, nfree, removed>>

(* A route change or interface removal; "last" describes only packets     *)
(* handled on the table as it now is.                                     *)
RouteChange == Next /\ last' = NONE

InputInit == Init /\ last = NONE

InputNext ==
  \/ RouteChange
  \/ \E h \in Headers, inp \in Netifs : Receive(h, inp)
  \/ \E h \in Headers, src \in SendSrcs : Send(h, src)

InputSpec == InputInit /\ [][InputNext]_ivars

-----------------------------------------------------------------------------
(***************************************************************************)
(* Properties.                                                             *)
(***************************************************************************)

(* Every pbuf ip_input is given is released exactly once, on every path   *)
(* through ip_input, ip_inpacket, ip_process_exthdr and ip_forward: no    *)
(* leak and no double free.  ip_output never releases the caller's pbuf, *)
(* and the copy ip_output_if loops back is released once by ip_input.    *)
PbufReleasedOnce ==
  last # NONE =>
    IF last.inp = NONE
      THEN last.out.rel = 0 /\ (last.loop # NONE => last.loop.rel = 1)
      ELSE last.out.rel = 1

(* A forwarded packet leaves with a hop limit one below the one it came   *)
(* with: ip_forward never sends a packet whose TTL it did not decrement   *)
(* from a positive value.                                                 *)
HopLimitDecrements ==
  last # NONE /\ last.inp # NONE =>
    \A s \in last.out.sent : s.ttl + 1 = last.hdr.ttl

(* netif->output is never handed a packet longer than the interface MTU, *)
(* by ip_forward, by ip_output_if, or by ip_input on a looped-back copy.  *)
NoOversizeOutput ==
  last # NONE =>
    \A s \in last.out.sent \cup (IF last.loop = NONE THEN {} ELSE last.loop.sent) :
      ~s.big

(* A packet with the IPv4 DF flag is never fragmented on forwarding. *)
DontFragmentRespected ==
  last # NONE /\ last.hdr.v4flags = "DF" => \A s \in last.out.sent : ~s.frag

=============================================================================
