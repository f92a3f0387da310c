----------------------------- MODULE MCIpRoute -----------------------------
EXTENDS IpRoute

(* 3-bit addresses: prefixes /0../3.  Destinations 1, 5 and 6 fall under  *)
(* prefixes of every length; gateway 5 is reached directly through n1,    *)
(* gateway 2 through no interface.                                        *)
MCDsts == {1, 5, 6}
MCGateways == {0, 2, 5}
MCDirectNetif == (0 :> "n1") @@ (2 :> NONE) @@ (5 :> "n1")
=============================================================================
