----------------------------- MODULE LwipModule -----------------------------
(***************************************************************************)
(* The life of the lwipv6 service module (xmview-os/um_lwip/lwipv6.c):     *)
(* the constructor sets initflag; _um_mod_init allocates the service's    *)
(* tables, loads liblwipv6 (openlwiplib), parses its arguments            *)
(* (lwipargtoenv, the LwipArgs module) and registers the service; the     *)
(* destructor frees the tables.  The stack and the functions are model   *)
(* values: only whether each exists is kept.                              *)
(***************************************************************************)
EXTENDS Naturals

CONSTANTS
  LibOutcomes  \* what dlopen/dlsym of liblwipv6 may give

ASSUME LibOutcomes \subseteq {"ok", "nolib", "nosym"}

VARIABLES
  initflag,    \* set by the constructor, cleared once the service is added
  lwiphandle,  \* dlopen("liblwipv6.so") returned a handle
  lwipstack,   \* "none" (NULL) or "stack" (lwip_stack_new's)
  libfuns,     \* the lwiplibtab functions are in s.socket / s.syscall
  tables,      \* s.syscall and s.socket: "none", "alloc" or "freed"
  services,    \* add_service calls made
  modfault     \* an interface add was called with a NULL stack

modvars == <<initflag, lwiphandle, lwipstack, libfuns, tables, services, modfault>>

(* The constructor init runs when umview loads the module. *)
ModuleInit ==
  /\ initflag = TRUE /\ lwiphandle = FALSE /\ lwipstack = "none"
  /\ libfuns = FALSE /\ tables = "none" /\ services = 0 /\ modfault = FALSE

(* openlwiplib: "nolib", dlopen fails; "nosym", lwip_stack_new or        *)
(* lwip_stack_set is missing: an error is printed and nothing is set     *)
(* up, the handle being kept; "ok", the stack is made current and every  *)
(* function of lwiplibtab found is installed.                           *)
openlwiplib(o) ==
  [handle |-> o # "nolib",
   stack  |-> IF o = "ok" THEN "stack" ELSE "none",
   funs   |-> o = "ok"]

(* _um_mod_init up to lwipargtoenv: with initflag set, the tables are    *)
(* calloc'ed and openlwiplib runs.  A call without initflag does nothing *)
(* and is a stuttering step.                                             *)
OpenLib ==
  /\ initflag /\ tables = "none"
  /\ \E o \in LibOutcomes :
       LET r == openlwiplib(o) IN
       /\ lwiphandle' = r.handle /\ lwipstack' = r.stack /\ libfuns' = r.funs
  /\ tables' = "alloc"
  /\ UNCHANGED <<initflag, services, modfault>>

(* The end of lwipargtoenv and of _um_mod_init: the interface adds found *)
(* by dlsym(lwiphandle, ...) are called with lwipstack (at least one vde *)
(* interface is always asked for), select and poll are set, the service  *)
(* is added and initflag cleared.                                       *)
AddService ==
  /\ modfault' = (modfault \/ (lwiphandle /\ lwipstack = "none"))
  /\ services' = services + 1 /\ initflag' = FALSE
  /\ UNCHANGED <<lwiphandle, lwipstack, libfuns, tables>>

(* The destructor fini, when umview unloads the module (never inside a  *)
(* call of it): s.syscall and s.socket are freed.  Its first statement,  *)
(* "closelwiplib;", names the function without calling it, so the stack  *)
(* and the library stay.                                                *)
Fini ==
  /\ tables # "freed"
  /\ tables' = "freed"
  /\ UNCHANGED <<initflag, lwiphandle, lwipstack, libfuns, services, modfault>>

(* The stack can receive a packet once the service is registered with a *)
(* stack of its own and until the module is unloaded.                   *)
StackRunning == services > 0 /\ lwipstack = "stack" /\ tables = "alloc"

====
