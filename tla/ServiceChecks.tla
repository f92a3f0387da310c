---------------------------- MODULE ServiceChecks ----------------------------
(***************************************************************************)
(* The check functions of the service modules in the sources: what        *)
(* service_check asks a service when it looks for the one a call belongs   *)
(* to.  An argument is the check type with the value checked: a path is    *)
(* abstracted to the prefix the checks compare with strncmp ("/lib",       *)
(* "/proc/net"), or "/" for any other path; protocol families keep their   *)
(* names; a filesystem type is a model value.  A check answers an epoch,   *)
(* zero for "not mine"; only whether it is zero is kept, the visibility    *)
(* of the service at the caller's epoch being Dispatch's service_check.    *)
(***************************************************************************)

Arg(type, a) == [type |-> type, arg |-> a]

(* real.c real_path: CHECKPATH for every path that does not begin with    *)
(* "/lib"; it returns 1, not an epoch of its own.  Any other check type    *)
(* answers 0.                                                             *)
real_path(t) == t.type = "CHECKPATH" /\ t.arg # "/lib"

(* lwipv6.c checksock: its tst_matchingepoch(&ts) test is the visibility  *)
(* at the caller's epoch of service_check; then CHECKSOCKET for AF_INET, PF_INET6, PF_NETLINK and PF_PACKET; CHECKPATH  *)
(* for the paths under /proc/net; FALSE for any other type.               *)
(* CHECKIOCTLPARMS, answered by ioctlparms, is the ioctl wrapper's size    *)
(* query and never reaches service_check.                                 *)
checksock(t) ==
  CASE t.type = "CHECKSOCKET" -> t.arg \in {"AF_INET", "PF_INET6", "PF_NETLINK", "PF_PACKET"}
    [] t.type = "CHECKPATH"   -> t.arg = "/proc/net"
    [] OTHER                  -> FALSE

=============================================================================
