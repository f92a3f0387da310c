------------------------------ MODULE PcbStore ------------------------------
(***************************************************************************)
(* The process control block table of the kmview tracer                   *)
(* (src/xmview-os/xmview/capture_km.c) together with the per-process      *)
(* extension that sctab.c hangs on every pcb (pcb_plus / pcb_minus).       *)
(*                                                                         *)
(* A slot is named by its umpid (pcbtab[umpid-1]).  The tracer handles     *)
(* one kernel event at a time, so every NEWTHREAD and TERMTHREAD event is  *)
(* one atomic step.  The kernel side is kept only as far as the            *)
(* properties need it: the set of live threads, the parent the kernel      *)
(* gives each of them, and the thread whose filesystem information a      *)
(* CLONE_FS child shares.                                                  *)
(***************************************************************************)
EXTENDS Naturals, FiniteSets, FiniteSetsExt

CONSTANTS
  Procs,       \* kernel threads (pids), model values
  PCBSIZE,     \* initial number of pcbs (PCBSIZE in capture_km.c)
  MaxTab,      \* bound: pcbtab never grows beyond this many slots
  MaxFs,       \* number of struct pcb_fs records the model can allocate
  CloneFlags,  \* the clone flag sets a NEWTHREAD event may carry
  Modules,     \* service modules that ask for the process history (MC_PROC)
  NULL

ASSUME PCBSIZE \in Nat \ {0} /\ MaxTab \in Nat /\ MaxTab >= PCBSIZE
ASSUME CloneFlags \subseteq SUBSET {"FS", "PARENT"}
ASSUME NULL \notin Nat

VARIABLES
  pcbtabsize,  \* pcbtabsize
  inuse,       \* slot -> flags & PCB_INUSE
  pid,         \* slot -> pcb->pid
  pp,          \* slot -> pcb->pp (a slot or NULL)
  fdfs,        \* slot -> pcb->fdfs (a pcb_fs id or NULL)
  fscount,     \* pcb_fs id -> fdfs->count (0: the record is free)
  nprocs,      \* nprocs
  rootinits,   \* calls of first_child_init (saturates at 2)
  crashed,     \* the tracer dereferenced a NULL parent in pcb_plus
  started,     \* the root process has been attached
  alive,       \* kernel: threads that exist
  kparent,     \* kernel: thread -> its parent thread (NULL once orphaned)
  fscreator,   \* kernel: thread -> the thread it shares fs info with (CLONE_FS)
  registered,  \* modules whose MC_PROC registration function has run
  known,      \* module -> umpid -> the parent umpid it was told by MC_ADD
               \*   (NOPARENT for -1), NULL when not known / after MC_REM
  boot,        \* capture_main: "start", "nokm" (no /dev/kmview), "forkfail", "traced"
  rootproc,    \* the first child, forked by capture_main (NULL before)
  rootpc,      \* where the first child is: "attach", "rc1", "rc2", "exec", "user"
  rcwait       \* the rc child capture_execrc waits for (NULL when none)

vars == <<pcbtabsize, inuse, pid, pp, fdfs, fscount, nprocs, rootinits,
          crashed, started, alive, kparent, fscreator, registered, known,
          boot, rootproc, rootpc, rcwait>>
bootvars == <<boot, rootproc, rootpc, rcwait>>

Slots == 1 .. MaxTab
NOPARENT == 0
FsIds == 1 .. MaxFs

TypeOK ==
  /\ pcbtabsize \in {PCBSIZE * (2 ^ k) : k \in 0 .. MaxTab} /\ pcbtabsize <= MaxTab
  /\ inuse \in [Slots -> BOOLEAN]
  /\ pid \in [Slots -> Procs \cup {NULL}]
  /\ pp \in [Slots -> Slots \cup {NULL}]
  /\ fdfs \in [Slots -> FsIds \cup {NULL}]
  /\ fscount \in [FsIds -> Nat]
  /\ nprocs \in Nat /\ rootinits \in 0 .. 2
  /\ crashed \in BOOLEAN /\ started \in BOOLEAN
  /\ alive \subseteq Procs
  /\ kparent \in [Procs -> Procs \cup {NULL}]
  /\ fscreator \in [Procs -> Procs \cup {NULL}]
  /\ registered \subseteq Modules
  /\ known \in [Modules -> [Slots -> Slots \cup {NOPARENT, NULL}]]
  /\ boot \in {"start", "nokm", "forkfail", "traced"}
  /\ rootproc \in Procs \cup {NULL}
  /\ rootpc \in {"attach", "rc1", "rc2", "exec", "user"}
  /\ rcwait \in Procs \cup {NULL}

Init ==
  /\ pcbtabsize = PCBSIZE
  /\ inuse = [s \in Slots |-> FALSE]
  /\ pid = [s \in Slots |-> NULL]
  /\ pp = [s \in Slots |-> NULL]
  /\ fdfs = [s \in Slots |-> NULL]
  /\ fscount = [f \in FsIds |-> 0]
  /\ nprocs = 0 /\ rootinits = 0
  /\ crashed = FALSE /\ started = FALSE
  /\ alive = {}
  /\ kparent = [p \in Procs |-> NULL]
  /\ fscreator = [p \in Procs |-> NULL]
  /\ registered = {}
  /\ known = [v \in Modules |-> [s \in Slots |-> NULL]]
  /\ boot = "start" /\ rootproc = NULL /\ rootpc = "attach" /\ rcwait = NULL

(* The slot holding a live thread (pid2pcb). *)
pid2pcb(p) == {s \in Slots : inuse[s] /\ pid[s] = p}

(* newpcb: the table size after the scan (doubled when no slot is free)   *)
(* and the first free slot in it.                                          *)
(* Variant: the table grows by one slot instead of doubling. *)
NewTabSize_plus1 ==
  IF \E s \in 1 .. pcbtabsize : ~inuse[s] THEN pcbtabsize ELSE pcbtabsize + 1
NewTabSize ==
  IF \E s \in 1 .. pcbtabsize : ~inuse[s] THEN pcbtabsize ELSE 2 * pcbtabsize
FirstFree(size) == Min({s \in 1 .. size : ~inuse[s]})

(* An unused struct pcb_fs (malloc). *)
FreeFs == Min({f \in FsIds : fscount[f] = 0})

(* service_ctl(MC_PROC | MC_ADD or MC_REM, UM_NONE, ...): the message     *)
(* reaches every module registered for the process history (um_services.c *)
(* is not in the sources); MC_ADD carries the parent's umpid, or -1.      *)
service_ctl_proc(kn, s, told) ==
  [v \in Modules |-> IF v \in registered THEN [kn[v] EXCEPT ![s] = told] ELSE kn[v]]
ParentArg(p) == IF p = NULL THEN NOPARENT ELSE p

(* um_proc_add (end of pcb_plus) and um_proc_del (start of pcb_minus). *)
(* Variant: pcb_minus does not notify the modules. *)
um_proc_add(s, ppslot) == service_ctl_proc(known, s, ParentArg(ppslot))
um_proc_del_skipped(s) == known
um_proc_del(s) == service_ctl_proc(known, s, NULL)

(***************************************************************************)
(* KMVIEW_EVENT_NEWTHREAD: newpcb, the root check (umpid == 1 calls       *)
(* first_child_init), then pcb_constructor = pcb_plus: CLONE_PARENT        *)
(* re-targets pp to the grandparent, CLONE_FS shares the parent's pcb_fs  *)
(* (count++), otherwise a fresh pcb_fs is copied from the parent.  A       *)
(* NULL pp at that point is dereferenced: the tracer crashes.              *)
(* umppid < 0 (root) is modelled by creator = NULL.                        *)
(***************************************************************************)
NewThread(c, creator, flags) ==
  LET size  == NewTabSize
      s     == FirstFree(size)
      pp0   == IF creator = NULL THEN s ELSE CHOOSE x \in Slots : x \in pid2pcb(creator)
      pp1   == IF "PARENT" \in flags THEN (IF pp0 = s THEN s ELSE pp[pp0]) ELSE pp0
      share == "FS" \in flags
      f     == IF share THEN fdfs[pp1] ELSE FreeFs
  IN
  /\ ~crashed
  /\ c \notin alive /\ c # rcwait
  /\ size <= MaxTab
  /\ share \/ \E g \in FsIds : fscount[g] = 0
  /\ IF pp1 = NULL
       THEN /\ crashed' = TRUE
            /\ UNCHANGED <<pcbtabsize, inuse, pid, pp, fdfs, fscount, nprocs,
                           rootinits, alive, kparent, fscreator, known>>
       ELSE /\ crashed' = FALSE
            /\ known' = um_proc_add(s, pp1)
            /\ alive' = alive \cup {c}
            /\ kparent' = [kparent EXCEPT ![c] =
                             IF creator = NULL THEN c
                             ELSE IF "PARENT" \in flags THEN kparent[creator] ELSE creator]
            /\ fscreator' = [fscreator EXCEPT ![c] = IF share THEN creator ELSE NULL]
            /\ pcbtabsize' = size
            /\ nprocs' = nprocs + 1
            /\ rootinits' = IF s = 1 THEN (IF rootinits < 2 THEN rootinits + 1 ELSE 2)
                             ELSE rootinits
            /\ inuse' = [inuse EXCEPT ![s] = TRUE]
            /\ pid' = [pid EXCEPT ![s] = c]
            /\ pp' = [pp EXCEPT ![s] = pp1]
            /\ fdfs' = [fdfs EXCEPT ![s] = f]
            /\ fscount' = [fscount EXCEPT ![f] = IF share THEN @ + 1 ELSE 1]
  /\ UNCHANGED registered

(***************************************************************************)
(* capture_main: /dev/kmview cannot be opened (return -1), r_fork fails   *)
(* (exit(1)), or the first child is forked.  The tracer side then creates *)
(* the pcb key, sets first_child_init and the signal actions; its events  *)
(* are handled only after capture_main returns.                           *)
(***************************************************************************)
(* The pid r_fork gives the first child: no thread exists yet, and every  *)
(* thread id plays the same part, so one stands for all.                 *)
FirstChild == CHOOSE c \in Procs : TRUE

CaptureMain ==
  /\ boot = "start"
  /\ \/ boot' = "nokm" /\ UNCHANGED rootproc
     \/ boot' = "forkfail" /\ UNCHANGED rootproc
     \/ boot' = "traced" /\ rootproc' = FirstChild
  /\ UNCHANGED <<pcbtabsize, inuse, pid, pp, fdfs, fscount, nprocs, rootinits,
                 crashed, started, alive, kparent, fscreator, registered, known,
                 rootpc, rcwait>>

(* The first child's KMVIEW_ATTACH: the kernel reports it as a new thread *)
(* with umppid < 0, so pp = pcb itself; the child goes on to the rc files. *)
NewRoot ==
  /\ boot = "traced" /\ ~started
  /\ started' = TRUE /\ rootpc' = "rc1"
  /\ NewThread(rootproc, NULL, {})
  /\ UNCHANGED <<boot, rootproc, rcwait>>

(* A traced thread clones: the kernel reports the new thread with its      *)
(* creator as umppid.  The first child forks on its own only once it runs *)
(* the user's program.                                                    *)
Fork(c, creator, flags) ==
  /\ creator \in alive
  /\ creator = rootproc => rootpc = "user"
  /\ NewThread(c, creator, flags)
  /\ UNCHANGED <<started, boot, rootproc, rootpc, rcwait>>

(* _cut_pp applied by forallpcbdo to every pcb in use: a child of the    *)
(* dying pcb loses its parent reference.                                   *)
(* Variant: forallpcbdo(_cut_pp) left out. *)
cut_pp_skipped(s) == pp
cut_pp(s) == [x \in Slots |-> IF inuse[x] /\ pp[x] = s THEN NULL ELSE pp[x]]

(* pcb_minus: drop one reference to the pcb_fs (freed at 0). *)
(* Variant: count-- left out. *)
pcb_minus_nodec(f) == fscount
pcb_minus(f) == [fscount EXCEPT ![f] = @ - 1]

(* droppcb's final pcb->flags = 0. *)
(* Variant: flags = 0 left out (as under the disabled nprocs > 0 test). *)
release_skipped(s) == inuse
release(s) == [inuse EXCEPT ![s] = FALSE]

(***************************************************************************)
(* KMVIEW_EVENT_TERMTHREAD: droppcb: nprocs--, _cut_pp on every pcb in use *)
(* (the dying one included), pcb_destructor = pcb_minus (count--, the     *)
(* pcb_fs is freed at 0), then flags = 0.  The kernel re-parents the      *)
(* orphans outside the traced tree.                                       *)
(***************************************************************************)
Exit(p) ==
  LET s == CHOOSE x \in Slots : x \in pid2pcb(p)
      f == fdfs[s]
  IN
  /\ ~crashed
  /\ p \in alive
  /\ alive' = alive \ {p}
  /\ kparent' = [q \in Procs |-> IF q = p \/ kparent[q] = p THEN NULL ELSE kparent[q]]
  /\ fscreator' = [q \in Procs |-> IF q = p \/ fscreator[q] = p THEN NULL ELSE fscreator[q]]
  /\ nprocs' = nprocs - 1
  /\ pp' = cut_pp(s)
  /\ fscount' = pcb_minus(f)
  /\ known' = um_proc_del(s)
  /\ inuse' = release(s)
  /\ UNCHANGED <<pcbtabsize, pid, fdfs, rootinits, crashed, started, registered>>

(* The rc file capture_execrc runs next, and what follows it.             *)
NextRc == IF rootpc = "rc1" THEN "rc2" ELSE "exec"

(***************************************************************************)
(* capture_execrc, for /etc/viewosrc and then for the rc argument: when    *)
(* access(path, X_OK) fails (or no rc is given) nothing runs; a failing    *)
(* fork ends the first child with exit(2); otherwise the rc child is a     *)
(* traced clone of the first child, which blocks in waitpid for it.       *)
(***************************************************************************)
ExecRc ==
  /\ rootpc \in {"rc1", "rc2"} /\ rcwait = NULL /\ rootproc \in alive /\ ~crashed
  /\ \/ rootpc' = NextRc
        /\ UNCHANGED <<pcbtabsize, inuse, pid, pp, fdfs, fscount, nprocs, rootinits,
                       crashed, started, alive, kparent, fscreator, registered, known,
                       boot, rootproc, rcwait>>
     \/ Exit(rootproc) /\ UNCHANGED bootvars
     \/ \E c \in Procs :
          /\ NewThread(c, rootproc, {}) /\ rcwait' = c
          /\ UNCHANGED <<started, boot, rootproc, rootpc>>

(* waitpid returns once the rc child has terminated: a child that did not *)
(* exit normally ends the first child with exit(2).                       *)
RcReaped ==
  /\ rcwait # NULL /\ rcwait \notin alive /\ rootproc \in alive /\ ~crashed
  /\ rcwait' = NULL
  /\ \/ rootpc' = NextRc
        /\ UNCHANGED <<pcbtabsize, inuse, pid, pp, fdfs, fscount, nprocs, rootinits,
                       crashed, started, alive, kparent, fscreator, registered, known,
                       boot, rootproc>>
     \/ Exit(rootproc) /\ UNCHANGED <<boot, rootproc, rootpc>>

(* r_execvp of the user's program: a name with a '/' is exec'ed as it is, *)
(* otherwise each PATH element (or /bin:/usr/bin) in turn, stopping at an  *)
(* error other than ENOENT, ENOTDIR or EACCES.  Success runs the program; *)
(* failure ends the first child with _exit(1).                            *)
Execvp ==
  /\ rootpc = "exec" /\ rootproc \in alive /\ ~crashed
  /\ \/ rootpc' = "user"
        /\ UNCHANGED <<pcbtabsize, inuse, pid, pp, fdfs, fscount, nprocs, rootinits,
                       crashed, started, alive, kparent, fscreator, registered, known,
                       boot, rootproc, rcwait>>
     \/ Exit(rootproc) /\ UNCHANGED bootvars

(* A module that asked for the process history is registered            *)
(* (service_addregfun(MC_PROC, reg_processes, dereg_processes) runs the  *)
(* registration function): reg_processes sends MC_ADD for every pcb in   *)
(* use (forallpcbdo), with the parent pcb_plus gave it.  Modules are      *)
(* loaded by a traced process, so one is alive.                           *)
reg_processes(v) ==
  [s \in Slots |-> IF inuse[s] THEN ParentArg(pp[s]) ELSE known[v][s]]

RegModule(v) ==
  /\ ~crashed /\ alive # {}
  /\ v \notin registered
  /\ registered' = registered \cup {v}
  /\ known' = [known EXCEPT ![v] = reg_processes(v)]
  /\ UNCHANGED <<pcbtabsize, inuse, pid, pp, fdfs, fscount, nprocs, rootinits,
                 crashed, started, alive, kparent, fscreator>>

(* The module is removed: dereg_processes sends MC_REM for every pcb in   *)
(* use.                                                                   *)
dereg_processes(v) ==
  [s \in Slots |-> IF inuse[s] THEN NULL ELSE known[v][s]]

DeregModule(v) ==
  /\ ~crashed /\ alive # {}
  /\ v \in registered
  /\ registered' = registered \ {v}
  /\ known' = [known EXCEPT ![v] = dereg_processes(v)]
  /\ UNCHANGED <<pcbtabsize, inuse, pid, pp, fdfs, fscount, nprocs, rootinits,
                 crashed, started, alive, kparent, fscreator>>

(* Every traced thread has exited (or the tracer died), or capture_main   *)
(* failed: umview stops.                                                  *)
Finished ==
  /\ \/ started /\ (alive = {} \/ crashed)
     \/ boot \in {"nokm", "forkfail"}
  /\ UNCHANGED vars

Next ==
  \/ CaptureMain \/ NewRoot \/ ExecRc \/ RcReaped \/ Execvp
  \/ \E c, cr \in Procs, fl \in CloneFlags : Fork(c, cr, fl)
  \/ \E p \in Procs : Exit(p) /\ UNCHANGED bootvars
  \/ \E v \in Modules : (RegModule(v) \/ DeregModule(v)) /\ UNCHANGED bootvars
  \/ Finished

Spec == Init /\ [][Next]_vars

-----------------------------------------------------------------------------
(***************************************************************************)
(* Properties.                                                             *)
(***************************************************************************)

(* pid2pcb after release: a live thread has exactly one pcb in use and a  *)
(* thread that has exited has none (droppcb must clear PCB_INUSE, also    *)
(* for the last process, and newpcb must never hand out a used slot).     *)
OnePcbPerLiveThread ==
  \A p \in Procs : Cardinality(pid2pcb(p)) = IF p \in alive THEN 1 ELSE 0

(* Parent back references (pcb->pp) stay valid across exits and slot      *)
(* reuse: a non-NULL pp names a pcb in use that belongs to the thread's   *)
(* kernel parent.  _cut_pp in droppcb is what keeps a child from pointing *)
(* at a slot that a later thread reuses.                                  *)
ParentRefValid ==
  \A s \in Slots : inuse[s] /\ pp[s] # NULL =>
      /\ inuse[pp[s]]
      /\ pid[pp[s]] = kparent[pid[s]]

(* The pcb_fs reference count of pcb_plus/pcb_minus equals the number of  *)
(* pcbs in use that point at the record, and no pcb in use points at a    *)
(* freed record.                                                          *)
FsRefcountExact ==
  \A f \in FsIds : fscount[f] = Cardinality({s \in Slots : inuse[s] /\ fdfs[s] = f})

(* A module registered for the process history knows exactly the pcbs in *)
(* use: reg_processes back-fills the processes that exist when it         *)
(* registers, um_proc_add / um_proc_del follow every later birth and      *)
(* death through slot reuse and table growth, and dereg_processes         *)
(* withdraws them all, so a module registered again starts clean.         *)
KnownProcsExact ==
  \A v \in Modules, s \in Slots :
    known[v][s] # NULL <=> (v \in registered /\ inuse[s])

(* pcb_plus never dereferences a NULL parent pointer. *)
NoNullParentDeref == ~crashed

(* first_child_init (root process initialisation) runs once per session. *)
RootInitOnce == rootinits <= 1

=============================================================================
