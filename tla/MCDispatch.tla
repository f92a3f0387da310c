----------------------------- MODULE MCDispatch -----------------------------
(* Model values and the small syscall table used to check Dispatch.  The   *)
(* services are two modules of the sources: the identity module real.c    *)
(* and the lwipv6 stack.                                                   *)
EXTENDS Dispatch, ServiceChecks

(* Call arguments: two paths, a protocol family, a filesystem type, and    *)
(* the argument of a call whose choice function looks at none.            *)
NoArg == Arg("none", "none")
MCTargets ==
  {Arg("CHECKPATH", "/lib"), Arg("CHECKPATH", "/proc/net"),
   Arg("CHECKSOCKET", "AF_INET"), Arg("CHECKFSTYPE", "fstype"), NoArg}
MCKillTargets == {Arg("CHECKPATH", "/proc/net"), NoArg}

MCClaims ==
  [v \in Services |->
     {t \in Targets : IF v = "real" THEN real_path(t) ELSE checksock(t)}]

(* What the choice function of a call asks about: choice_path a path,     *)
(* choice_mount the filesystem type, choice_socket the family; choice_fd   *)
(* and always_umnone look at no check argument.                           *)
MCArgsOf ==
  [sc \in Syscalls |->
     {t \in Targets : CASE SCMAP[sc].choice = "path"   -> t.type = "CHECKPATH"
                        [] SCMAP[sc].choice = "mount"  -> t.type = "CHECKFSTYPE"
                        [] SCMAP[sc].choice = "socket" -> t.type = "CHECKSOCKET"
                        [] OTHER                       -> t = NoArg}]

(* open: choice_path, ALWAYS; recv: choice_fd, CB_R; execve: choice_path, *)
(* wrap_in_execve, flags 0; mount: choice_mount, flags 0; socket:        *)
(* choice_socket, flags 0; getcwd: always_umnone, ALWAYS (scmap.c).       *)
MCSCMAP ==
  [sc \in Syscalls |->
     CASE sc = "open"   -> [choice |-> "path", always |-> TRUE,  susp |-> FALSE, exec |-> FALSE]
       [] sc = "recv"   -> [choice |-> "fd",   always |-> FALSE, susp |-> TRUE,  exec |-> FALSE]
       [] sc = "execve" -> [choice |-> "path", always |-> FALSE, susp |-> FALSE, exec |-> TRUE]
       [] sc = "mount"  -> [choice |-> "mount", always |-> FALSE, susp |-> FALSE, exec |-> FALSE]
       [] sc = "socket" -> [choice |-> "socket", always |-> FALSE, susp |-> FALSE, exec |-> FALSE]
       [] sc = "getcwd" -> [choice |-> "none", always |-> TRUE,  susp |-> FALSE, exec |-> FALSE]]
=============================================================================
