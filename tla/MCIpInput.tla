----------------------------- MODULE MCIpInput -----------------------------
EXTENDS LwipStack

(* 2-bit addresses.  n1 owns address 1; 3 is multicast; 0 and 2 are       *)
(* reachable only through routes.  Gateway 2 is on n2's network.          *)
MCDsts == {0, 2}
MCGateways == {0, 2}
MCDirectNetif == (0 :> "n1") @@ (2 :> "n2")
MCLocalAddrs == ("n1" :> {1}) @@ ("n2" :> {})

(* 3-bit addresses for the forwarding run: n1 owns 1, 7 is multicast;     *)
(* destinations 1, 5 and 6 fall under prefixes of every length.           *)
MCDsts3 == {1, 5, 6}
MCGateways3 == {0, 2, 5}
MCDirectNetif3 == (0 :> "n1") @@ (2 :> "n2") @@ (5 :> "n1")
MCLocalAddrs3 == ("n1" :> {1}) @@ ("n2" :> {})

(* Pieces of the lwipv6 module's argument string: two names for the same *)
(* interface, a count, a tun name, a quoted piece, a quoted name holding *)
(* a comma, the parameter, an empty piece and a tap count.               *)
MCArgTokens ==
  { <<"v", "d", "0", "=", "x">>, <<"v", "d", "0", "=", "y">>, <<"v", "d", "2">>,
    <<"t", "n", "1", "=", "x">>, <<"'", "t", "p", "1", "'">>,
    <<"v", "d", "0", "=", "'", "a", ",", "b", "'">>, <<"r", "a", "=", "x">>,
    << >>, <<"t", "p", "1">> }
=============================================================================
