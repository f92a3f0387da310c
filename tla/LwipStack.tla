----------------------------- MODULE LwipStack -----------------------------
(***************************************************************************)
(* The lwipv6 service module composed with the stack it loads             *)
(* (xmview-os/um_lwip/lwipv6.c, _um_mod_init): the library is loaded      *)
(* (LwipModule), the module's argument string parsed and the interfaces   *)
(* started (LwipArgs), and the service added; only then, and only with a  *)
(* stack of its own, does the stack receive a packet or a netlink request *)
(* (IpInput), until the destructor runs.                                  *)
(***************************************************************************)
EXTENDS IpInput, LwipArgs, LwipModule

StackInit == ArgsInit /\ InputInit /\ ModuleInit

(* _um_mod_init is one call: lwipargtoenv runs between openlwiplib and    *)
(* add_service, and the destructor never runs inside it.                  *)
StackNext ==
  \/ OpenLib /\ UNCHANGED <<ivars, argvars>>
  \/ tables = "alloc" /\ ParsePiece /\ UNCHANGED <<ivars, modvars>>
  \/ tables = "alloc" /\ LoadInterfaces /\ AddService /\ UNCHANGED ivars
  \/ StackRunning /\ InputNext /\ UNCHANGED <<argvars, modvars>>
  \/ (tables = "alloc" => argphase = "done") /\ Fini /\ UNCHANGED <<ivars, argvars>>

StackSpec == StackInit /\ [][StackNext]_<<ivars, argvars, modvars>>

=============================================================================
