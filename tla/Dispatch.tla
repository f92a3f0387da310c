------------------------------ MODULE Dispatch ------------------------------
(***************************************************************************)
(* The two-phase syscall dispatch of the kmview tracer:                   *)
(*   tracehand (capture_km.c): one kernel event at a time, the decision    *)
(*     returned by the upcall is turned into a resume ioctl;               *)
(*   sc_resume (capture_km.c): a wakeup re-enters the upcall;              *)
(*   dsys_commonwrap (sctab.c): tmp-file cleanup, epoch stamp, choice     *)
(*     function, path-error short cut, ALWAYS flag, suspend check,         *)
(*     wrap-in / wrap-out, and the ownership of pc->path;                  *)
(*   wrap_in_execve / wrap_out_execve (um_exec.c) for the exec class.      *)
(*                                                                         *)
(* The kernel side keeps, per thread, where it is stopped.  A resume       *)
(* ioctl for a thread that is not stopped where the ioctl expects it is    *)
(* recorded in misresumed.  Path buffers are ids from Bufs (strdup in      *)
(* um_abspath); heap is the set allocated.  Tmp files (um_proc_tmpname)    *)
(* are ids from TmpIds; disk is the set present in the tmp directory.      *)
(***************************************************************************)
EXTENDS Naturals, Sequences, FiniteSets, FiniteSetsExt

CONSTANTS
  Procs,          \* kernel threads, model values
  NSlots,         \* pcbs in the table
  Services,       \* service modules that may be registered
  Targets,        \* what a choice function looks at (path / fd), model values
  Claims,         \* service -> the targets its check function accepts
  ArgsOf,         \* syscall -> the targets its argument may be
  Syscalls,       \* syscall names of the model's scmap
  SCMAP,          \* name -> [choice, always, susp, exec] (struct sc_map)
  WrapinResults,  \* decisions a generic wrap-in may return
  ExecResults,    \* branches of wrap_in_execve that may happen
  MaxEpoch,       \* bound on registrations (each takes a new epoch)
  MaxBuf,         \* path buffers the model can allocate
  MaxTmp,         \* tmp files the model can create
  KillAllowed,    \* may a traced thread terminate at any point
  NULL, PE, UM_NONE

Slots == 1 .. NSlots
Bufs == 1 .. MaxBuf
TmpIds == 1 .. MaxTmp

ASSUME SCMAP \in [Syscalls -> [choice : {"path", "mount", "sockpath", "fd", "socket", "none"}, always : BOOLEAN,
                                susp : BOOLEAN, exec : BOOLEAN]]
ASSUME Claims \in [Services -> SUBSET Targets]
ASSUME ArgsOf \in [Syscalls -> SUBSET Targets]
ASSUME WrapinResults \subseteq {"FAKE", "CALLONXIT", "MODICALL", "STD"}
ASSUME ExecResults \subseteq {"binfmt", "binfmt_norv", "module", "copy_ok", "copy_fail"}
ASSUME {NULL, PE, UM_NONE} \cap (Services \cup Nat) = {}

VARIABLES
  inuse, pid,     \* pcb flags & PCB_INUSE, pcb->kmpid
  scno, arg,      \* pc->event: syscall number and its path/fd argument
  behavior,       \* pc->behavior
  path,           \* pc->path: NULL, PE (um_patherror) or a buffer id
  epoch,          \* pc->tst.epoch
  tmpfile,        \* pc->tmpfile2unlink_n_free
  heap,           \* path buffers allocated
  disk,           \* tmp files present
  wakeups,        \* slots with a registered wakeup callback
  registry,       \* registered services in priority order, with their epoch
  now,            \* get_epoch()
  kst, req,       \* kernel: thread state and the syscall it is stopped in
  misresumed      \* threads that got a resume ioctl while not stopped for it

tracer == <<inuse, pid, scno, arg, behavior, path, epoch, tmpfile, wakeups>>
vars == <<tracer, heap, disk, registry, now, kst, req, misresumed>>

KStates == {"unborn", "user", "entry", "stoppedIn", "insys", "exit", "dead"}
Behaviors == {"STD", "FAKE", "CALLONXIT", "MODICALL", "SUSPIN"}

TypeOK ==
  /\ inuse \in [Slots -> BOOLEAN] /\ pid \in [Slots -> Procs \cup {NULL}]
  /\ scno \in [Slots -> Syscalls \cup {NULL}] /\ arg \in [Slots -> Targets \cup {NULL}]
  /\ behavior \in [Slots -> Behaviors]
  /\ path \in [Slots -> Bufs \cup {NULL, PE}]
  /\ epoch \in [Slots -> 0 .. MaxEpoch]
  /\ tmpfile \in [Slots -> TmpIds \cup {NULL}]
  /\ heap \subseteq Bufs /\ disk \subseteq TmpIds /\ wakeups \subseteq Slots
  /\ registry \in Seq([svc : Services, epoch : 1 .. MaxEpoch]) /\ now \in 0 .. MaxEpoch
  /\ kst \in [Procs -> KStates]
  /\ req \in [Procs -> (Syscalls \X Targets) \cup {NULL}]
  /\ misresumed \subseteq Procs

Root == CHOOSE p \in Procs : TRUE

Init ==
  /\ inuse = [s \in Slots |-> s = 1] /\ pid = [s \in Slots |-> IF s = 1 THEN Root ELSE NULL]
  /\ scno = [s \in Slots |-> NULL] /\ arg = [s \in Slots |-> NULL]
  /\ behavior = [s \in Slots |-> "STD"] /\ path = [s \in Slots |-> NULL]
  /\ epoch = [s \in Slots |-> 0] /\ tmpfile = [s \in Slots |-> NULL]
  /\ heap = {} /\ disk = {} /\ wakeups = {}
  /\ registry = << >> /\ now = 0
  /\ kst = [p \in Procs |-> IF p = Root THEN "user" ELSE "unborn"]
  /\ req = [p \in Procs |-> NULL]
  /\ misresumed = {}

(* get_epoch(): the current epoch of the caller's treepoch branch. *)
get_epoch == now

(* The IN phase stamps the call: pc->tst.epoch = pc->nestepoch =         *)
(* get_epoch().  The variant stamps one epoch ahead, as the binfmt and    *)
(* mount paths do on purpose with um_setepoch(nestepoch + 1).             *)
stamp_ahead(s) == [epoch EXCEPT ![s] = get_epoch + 1]
stamp(s) == [epoch EXCEPT ![s] = get_epoch]

SlotOf(p) == CHOOSE s \in Slots : inuse[s] /\ pid[s] = p

(* service_check: the first registered service, in priority order, whose *)
(* check function accepts the target and whose epoch is visible.          *)
service_check(t, e) ==
  LET I == {i \in 1 .. Len(registry) :
              registry[i].epoch <= e /\ t \in Claims[registry[i].svc]}
  IN IF I = {} THEN UM_NONE ELSE registry[Min(I)].svc

(* The choice functions: what they leave in pc->path and the service.    *)
(* choice_path, and the pathat, link, linkat, unlinkat, pl4at, pl5at,      *)
(* link2, link2at and link3at variants that differ only in the argument   *)
(* holding the path and in following links, resolve the path with         *)
(* um_abspath into a fresh buffer b (or um_patherror) and ask             *)
(* service_check at the call's epoch; choice_mount asks about the         *)
(* filesystem type, and returns UM_NONE with the path kept when the type  *)
(* cannot be read from the caller; choice_sockpath with a NULL path asks  *)
(* about the socket family and leaves pc->path alone; choice_fd asks      *)
(* service_fd, the owner of the descriptor in the process fd table (not   *)
(* modelled: any registered service or none); choice_socket asks about   *)
(* the protocol family; always_umnone returns UM_NONE.  The last three    *)
(* leave pc->path as the wrapper's argument parsing set it.               *)
(* dsys_megawrap and, for the socket calls where one socketcall carries   *)
(* them all, dsys_socketwrap: each parses the arguments by setting         *)
(* pc->path to NULL, then enters dsys_commonwrap with its index function   *)
(* and its table (scmap, sockmap).                                         *)
megawrap_path == NULL
socketwrap_path == NULL

choice_fd == {<<megawrap_path, v>> : v \in {UM_NONE} \cup {registry[i].svc : i \in 1 .. Len(registry)}}
choice_socket(t) == {<<socketwrap_path, service_check(t, get_epoch)>>}
always_umnone == {<<megawrap_path, UM_NONE>>}

scchoice(cls, t, b) ==
  CASE cls.choice = "path"     -> {<<PE, UM_NONE>>, <<b, service_check(t, get_epoch)>>}
    [] cls.choice = "mount"    -> {<<PE, UM_NONE>>, <<b, service_check(t, get_epoch)>>,
                                   <<b, UM_NONE>>}
    [] cls.choice = "sockpath" -> {<<PE, UM_NONE>>, <<b, service_check(t, get_epoch)>>,
                                   <<NULL, service_check(t, get_epoch)>>}
    [] cls.choice = "fd"       -> choice_fd
    [] cls.choice = "socket"   -> choice_socket(t)
    [] OTHER                   -> always_umnone

-----------------------------------------------------------------------------
(***************************************************************************)
(* Decisions.  A decision is what dsys_commonwrap(IN) returns, with what   *)
(* it did to pc->path: keep (the buffer stays allocated), pe (path set to *)
(* um_patherror), tmp (a tmp file to unlink next time), wake (a wakeup    *)
(* callback was registered).                                               *)
(***************************************************************************)
D(b, k, e, t, w) == [beh |-> b, keep |-> k, pe |-> e, tmp |-> t, wake |-> w]

(* A FAKE decision makes tracehand run the OUT phase at once: wrap-out,   *)
(* then free(pc->path).  STD_BEHAVIOR has no exit event.                  *)
Decided(w) == D(w, w \in {"CALLONXIT", "MODICALL", "STD"}, FALSE, FALSE, FALSE)

(* filecopy: the service's open of the executable, the creation of the   *)
(* tmp copy (which leaves the service's descriptor open) or nothing        *)
(* fails; only success makes the copy, the error is returned otherwise.   *)
filecopy(r) == r = "copy_ok"

(* wrap_in_execve: a binfmt service rewrites argv (or gives up when the   *)
(* user stack cannot be read); a module may implement execve; otherwise   *)
(* the executable is copied to a tmp file that is unlinked at the next    *)
(* dsys_commonwrap call.                                                  *)
wrap_in_execve(sv) ==
  {CASE r = "binfmt"      -> Decided("CALLONXIT")
     [] r = "binfmt_norv" -> Decided("STD")
     [] r = "module"      -> Decided("FAKE")
     [] r \in {"copy_ok", "copy_fail"} ->
          IF filecopy(r) THEN D("CALLONXIT", TRUE, FALSE, TRUE, FALSE) ELSE Decided("FAKE")
   : r \in {x \in ExecResults : sv = UM_NONE => x \in {"binfmt", "binfmt_norv"}}}
  \cup (IF sv = UM_NONE THEN {Decided("STD")} ELSE {})

wrapin(cls, sv) ==
  IF cls.exec THEN wrap_in_execve(sv) ELSE {Decided(w) : w \in WrapinResults}

(* check_suspend_on: ready (call the wrap-in), not ready (park, register  *)
(* a wakeup), or SC_CALLONXIT (free the path, mark it um_patherror).      *)
(* Variants: the not-ready case forgets to register the wakeup; the      *)
(* wakeup is registered before the readiness answer and never withdrawn. *)
check_suspend_on_nowake(cls, sv) ==
  {D("SUSPIN", TRUE, FALSE, FALSE, FALSE), D("CALLONXIT", FALSE, TRUE, FALSE, FALSE)}
  \cup wrapin(cls, sv)
check_suspend_on_eager(cls, sv) ==
  {D("SUSPIN", TRUE, FALSE, FALSE, TRUE), D("CALLONXIT", FALSE, TRUE, FALSE, FALSE)}
  \cup {[d EXCEPT !.wake = TRUE] : d \in wrapin(cls, sv)}
check_suspend_on(cls, sv) ==
  {D("SUSPIN", TRUE, FALSE, FALSE, TRUE), D("CALLONXIT", FALSE, TRUE, FALSE, FALSE)}
  \cup wrapin(cls, sv)

(* dsys_commonwrap, IN phase, after the choice function returned sv with  *)
(* pc->path = np.                                                          *)
(* Variant: the UM_NONE branch returns STD_BEHAVIOR without free(path). *)
commonwrap_in_nofree(cls, np, sv) ==
  IF np = PE THEN {D("FAKE", FALSE, TRUE, FALSE, FALSE)}
  ELSE IF sv = UM_NONE /\ ~cls.always THEN {D("STD", TRUE, FALSE, FALSE, FALSE)}
  ELSE IF cls.susp THEN check_suspend_on(cls, sv)
  ELSE wrapin(cls, sv)
commonwrap_in(cls, np, sv) ==
  IF np = PE THEN {D("FAKE", FALSE, TRUE, FALSE, FALSE)}
  ELSE IF sv = UM_NONE /\ ~cls.always THEN {D("STD", FALSE, FALSE, FALSE, FALSE)}
  ELSE IF cls.susp THEN check_suspend_on(cls, sv)
  ELSE wrapin(cls, sv)

(* The unlink of the previous call's tmp file at the top of             *)
(* dsys_commonwrap, in both phases.                                       *)
(* Variant: the unlink is skipped. *)
tmp_cleanup_skipped(s) == disk
tmp_cleanup(s) == disk \ {tmpfile[s]}

(* Variant: a FAKE call is resumed with SYSMODIFIED, as a modified one. *)
AfterIn_fake_modified(b) ==
  CASE b = "STD"                                -> "user"
    [] b \in {"FAKE", "CALLONXIT", "MODICALL"} -> "insys"
    [] b = "SUSPIN"                             -> "stoppedIn"

(* Kernel state a resume ioctl after an IN decision moves the thread to. *)
AfterIn(b) ==
  CASE b \in {"STD", "FAKE"}           -> "user"      \* SYSRESUME / SYSVIRTUALIZED
    [] b \in {"CALLONXIT", "MODICALL"} -> "insys"     \* SYSMODIFIED / SYSARGMOD
    [] b = "SUSPIN"                    -> "stoppedIn" \* no ioctl

(* The ioctl issued for thread p: valid only where p is stopped for it.   *)
Ioctl(p, validFrom, to) ==
  IF kst[p] \in validFrom
    THEN kst' = [kst EXCEPT ![p] = to] /\ misresumed' = misresumed
    ELSE kst' = kst /\ misresumed' = misresumed \cup {p}

(***************************************************************************)
(* dsys_commonwrap(IN) on slot s for syscall sc with argument t, then the  *)
(* switch of tracehand / sc_resume on the decision.  The tmp file of the   *)
(* previous call is unlinked first; the call is stamped with get_epoch();  *)
(* the choice function resolves the path (um_abspath may fail: PE) and    *)
(* asks service_check.                                                    *)
(***************************************************************************)
EntryPhase(s, sc, t, W, from) ==
  LET cls == SCMAP[sc]
      p   == pid[s]
      b   == Min(Bufs \ heap)
      nt  == Min(TmpIds \ (disk \ {tmpfile[s]}))
  IN
  /\ cls.choice \in {"path", "mount", "sockpath"} => heap # Bufs
  /\ TmpIds \ (disk \ {tmpfile[s]}) # {}
  /\ \E c \in scchoice(cls, t, b) :
     LET np == c[1]
         sv == c[2]
     IN \E d \in commonwrap_in(cls, np, sv) :
        /\ behavior' = [behavior EXCEPT ![s] = d.beh]
        /\ path' = [path EXCEPT ![s] = IF d.pe THEN PE ELSE np]
        /\ heap' = IF np \in Bufs /\ d.keep THEN heap \cup {np} ELSE heap
        /\ tmpfile' = [tmpfile EXCEPT ![s] = IF d.tmp THEN nt ELSE NULL]
        /\ disk' = tmp_cleanup(s) \cup (IF d.tmp THEN {nt} ELSE {})
        /\ wakeups' = IF d.wake THEN W \cup {s} ELSE W
        /\ epoch' = stamp(s)
        /\ IF d.beh = "SUSPIN"
             THEN /\ kst' = [kst EXCEPT ![p] = IF @ = from THEN "stoppedIn" ELSE @]
                  /\ misresumed' = misresumed
             ELSE Ioctl(p, {from}, AfterIn(d.beh))

(* dsys_commonwrap(OUT) on slot s, then KMVIEW_SYSRETURN: unlink the tmp  *)
(* file; after a path error only copy retval/errno (SC_MODICALL);          *)
(* otherwise the wrap-out (every wrap-out of the model returns            *)
(* STD_BEHAVIOR) and free(pc->path).                                      *)
ExitPhase(s) ==
  /\ behavior' = [behavior EXCEPT ![s] = IF path[s] = PE THEN "MODICALL" ELSE "STD"]
  /\ heap' = IF path[s] \in Bufs THEN heap \ {path[s]} ELSE heap
  /\ tmpfile' = [tmpfile EXCEPT ![s] = NULL]
  /\ disk' = tmp_cleanup(s)
  /\ Ioctl(pid[s], {"exit"}, "user")
  /\ UNCHANGED <<path, epoch>>

-----------------------------------------------------------------------------
(* The kernel: a traced thread enters a syscall and stops. *)
Syscall(p, sc, t) ==
  /\ kst[p] = "user" /\ t \in ArgsOf[sc]
  /\ kst' = [kst EXCEPT ![p] = "entry"]
  /\ req' = [req EXCEPT ![p] = <<sc, t>>]
  /\ UNCHANGED <<tracer, heap, disk, registry, now, misresumed>>

(* The kernel: a syscall let through to the kernel completes. *)
KernelDone(p) ==
  /\ kst[p] = "insys"
  /\ kst' = [kst EXCEPT ![p] = "exit"]
  /\ UNCHANGED <<tracer, heap, disk, registry, now, req, misresumed>>

(* tracehand, KMVIEW_EVENT_SYSCALL_ENTRY: copy the event into pc->event   *)
(* and run the upcall's IN phase.                                         *)
TraceEntry(p) ==
  LET s == SlotOf(p) IN
  /\ kst[p] = "entry"
  /\ scno' = [scno EXCEPT ![s] = req[p][1]]
  /\ arg' = [arg EXCEPT ![s] = req[p][2]]
  /\ EntryPhase(s, req[p][1], req[p][2], wakeups, "entry")
  /\ UNCHANGED <<inuse, pid, registry, now, req>>

(* tracehand, KMVIEW_EVENT_SYSCALL_EXIT. *)
TraceExit(p) ==
  /\ kst[p] = "exit"
  /\ ExitPhase(SlotOf(p))
  /\ UNCHANGED <<wakeups, inuse, pid, scno, arg, registry, now, req>>

(* A registered wakeup fires: sc_resume(pc) with the phase taken from     *)
(* pc->behavior - SC_SUSPENDED; the upcall runs again on the event that  *)
(* tracehand stored in this pcb (pc->event).                              *)
Wakeup(s) ==
  /\ s \in wakeups
  /\ IF behavior[s] = "SUSPIN"
       THEN EntryPhase(s, scno[s], arg[s], wakeups \ {s}, "stoppedIn")
       ELSE ExitPhase(s) /\ wakeups' = wakeups \ {s}
  /\ UNCHANGED <<inuse, pid, scno, arg, registry, now, req>>

(* A service registers (mount / module load) in a new epoch, appended at *)
(* the lowest priority.                                                   *)
AddService(v) ==
  /\ now < MaxEpoch
  /\ \A i \in 1 .. Len(registry) : registry[i].svc # v
  /\ now' = now + 1
  /\ registry' = Append(registry, [svc |-> v, epoch |-> now + 1])
  /\ UNCHANGED <<tracer, heap, disk, kst, req, misresumed>>

(* KMVIEW_EVENT_NEWTHREAD: newpcb takes the first free slot; pcb_plus     *)
(* clears pc->path and pc->tmpfile2unlink_n_free (the rest of the slot    *)
(* keeps what its previous owner left).                                   *)
Fork(c) ==
  LET s == Min({x \in Slots : ~inuse[x]}) IN
  /\ \E p \in Procs : kst[p] \notin {"unborn", "dead"}
  /\ kst[c] = "unborn"
  /\ \E x \in Slots : ~inuse[x]
  /\ inuse' = [inuse EXCEPT ![s] = TRUE]
  /\ pid' = [pid EXCEPT ![s] = c]
  /\ path' = [path EXCEPT ![s] = NULL]
  /\ tmpfile' = [tmpfile EXCEPT ![s] = NULL]
  /\ kst' = [kst EXCEPT ![c] = "user"]
  /\ UNCHANGED <<scno, arg, behavior, epoch, wakeups, heap, disk, registry, now,
                 req, misresumed>>

(* KMVIEW_EVENT_TERMTHREAD at any point of a thread's life: droppcb only *)
(* clears PCB_INUSE (pcb_minus touches neither pc->path, nor the tmp     *)
(* file, nor a registered wakeup).                                       *)
Kill(p) ==
  /\ KillAllowed
  /\ kst[p] \notin {"unborn", "dead"}
  /\ inuse' = [inuse EXCEPT ![SlotOf(p)] = FALSE]
  /\ kst' = [kst EXCEPT ![p] = "dead"]
  /\ UNCHANGED <<pid, scno, arg, behavior, path, epoch, tmpfile, wakeups, heap,
                 disk, registry, now, req, misresumed>>

(* Every traced thread is gone: umview stops. *)
Finished ==
  /\ \A p \in Procs : kst[p] \in {"unborn", "dead"}
  /\ UNCHANGED vars

Next ==
  \/ \E p \in Procs, sc \in Syscalls, t \in Targets : Syscall(p, sc, t)
  \/ \E p \in Procs : KernelDone(p) \/ TraceEntry(p) \/ TraceExit(p) \/ Kill(p) \/ Fork(p)
  \/ \E s \in Slots : Wakeup(s)
  \/ \E v \in Services : AddService(v)
  \/ Finished

(* The tracer drains every event, the kernel completes every syscall it   *)
(* runs, and a parked call's descriptor eventually becomes ready.         *)
Fairness ==
  /\ \A p \in Procs : WF_vars(TraceEntry(p)) /\ WF_vars(TraceExit(p)) /\ WF_vars(KernelDone(p))
  /\ \A s \in Slots : WF_vars(Wakeup(s))

Spec == Init /\ [][Next]_vars
FairSpec == Spec /\ Fairness

-----------------------------------------------------------------------------
(***************************************************************************)
(* Properties.                                                             *)
(***************************************************************************)

(* A call is between its IN and its OUT phase on slot s. *)
InCall(s) == inuse[s] /\ kst[pid[s]] \in {"stoppedIn", "insys", "exit"}

(* pc->path ownership across the IN/OUT phases, the FAKE shortcut, the    *)
(* path-error shortcut, the check_suspend_on SC_CALLONXIT case and a      *)
(* suspension: the allocated path buffers are exactly the buffers of the  *)
(* calls in flight, so no buffer is leaked and none is freed while its    *)
(* call still uses it (spec 3: freed exactly once per syscall exit).      *)
PathOwnedExactly ==
  heap = {path[s] : s \in {x \in Slots : InCall(x)}} \cap Bufs

(* Every resume ioctl of tracehand / sc_resume (SYSRESUME, SYSVIRTUALIZED,*)
(* SYSMODIFIED, SYSARGMOD, SYSRETURN) is for a thread stopped in the      *)
(* phase the ioctl answers: a wakeup never resumes a thread that did not *)
(* park, or that parked in the other phase (spec 4.5).                   *)
ResumeOnlyStopped == misresumed = {}

(* The copy of a virtual executable made by wrap_in_execve exists only   *)
(* while its execve is in flight: it is recorded in the pcb and unlinked  *)
(* by the next dsys_commonwrap call of that process.                      *)
TmpFileOnlyDuringExec ==
  disk = {tmpfile[s] : s \in {x \in Slots : InCall(x) /\ tmpfile[x] # NULL}}

(* A thread stopped by the tracer (at entry, parked, or at exit) is       *)
(* eventually let go, or dies: no call is parked for ever.                *)
StopsAreAnswered ==
  \A p \in Procs :
    kst[p] \in {"entry", "stoppedIn", "exit"} ~> kst[p] \in {"user", "insys", "dead"}

-----------------------------------------------------------------------------
(***************************************************************************)
(* Refinement: the thread's state as the kernel sees it, and the dispatch *)
(* outcome held in pc->behavior while the call is in progress, are the     *)
(* lifecycle of SyscallAbstract.                                           *)
(***************************************************************************)
abs_outcome(b) ==
  CASE b = "STD"                      -> "REAL"
    [] b = "FAKE"                     -> "FAKE"
    [] b \in {"CALLONXIT", "MODICALL"} -> "MODIFIED"
    [] b = "SUSPIN"                   -> "SUSPENDED"

abs_st ==
  [p \in Procs |->
     CASE kst[p] = "user"      -> "idle"
       [] kst[p] = "entry"     -> "entry_pending"
       [] kst[p] = "stoppedIn" -> "suspended"
       [] kst[p] = "insys"     -> "in_kernel"
       [] kst[p] = "exit"      -> "exit_pending"
       [] OTHER                -> kst[p]]

abs_how ==
  [p \in Procs |->
     IF kst[p] \in {"stoppedIn", "insys", "exit"}
       THEN abs_outcome(behavior[SlotOf(p)]) ELSE "none"]

Abs == INSTANCE SyscallAbstract WITH st <- abs_st, how <- abs_how

(* Every behaviour of tracehand, dsys_commonwrap and sc_resume is one of  *)
(* the abstract lifecycle: a call is decided only at its entry or on its  *)
(* wakeup, a FAKE or STD decision lets the thread go at once, a modified *)
(* call keeps its outcome until its exit phase, and no resume moves a     *)
(* thread out of order.                                                   *)
AbstractLifecycle == Abs!Spec

=============================================================================
