# TLA+ models of view-os: the capture and dispatch core, two service modules and the lwIPv6 router

This directory holds TLA+ models of two parts of view-os. The first is the
part of umview/kmview that captures the system calls of a traced process tree
and hands each one to a service module. The second is the routing table and
IP input path of lwIPv6, the stack behind the um_lwip service, composed with
that service module's start-up. The third is two service modules: umfuse, whose mount, umount and file calls hand off to
one filesystem thread per mount, and umpyew, which forwards calls to Python
and must keep Python's reference counts right. Each module is written from
the C sources under `src/`.
`PROJECT.json` maps every modelling definition to the lines it translates.
It also lists the runs, the fault variants used to show that each checked
property can fail, the findings, and the hazards.

## 1. The system

| Part | Source | State | Operations |
|---|---|---|---|
| PCB store | `xmview/capture_km.c` (newpcb, pid2pcb, droppcb, _cut_pp, capture_main, capture_execrc, r_execvp); `xmview/sctab.c` (pcb_plus, pcb_minus) | pcbtab and its size, per pcb: flags, pid, pp, fdfs, path, tmpfile, behavior, event, epoch; nprocs; the start-up stage of the root process | start-up (first fork, rc files, exec of the command), NEWTHREAD, TERMTHREAD; the table doubles when full |
| Dispatch core | `capture_km.c` tracehand, sc_resume; `sctab.c` dsys_commonwrap, choice_*; `um-viewos/um_exec.c` wrap_in/out_execve | per pcb: behavior, path, tmpfile, epoch | SYSCALL_ENTRY → IN phase → one resume ioctl; SYSCALL_EXIT → OUT phase → SYSRETURN |
| Suspend/resume | `sctab.c` (howsusp test), `capture_km.c` sc_resume; `um_select.c` is not in the snapshot | registered wakeups | parking in check_suspend_on; the wakeup re-enters the upcall in the phase `behavior - SC_SUSPENDED` |
| Service registry | `um_services.c` is not in the snapshot; the check functions in `real.c` and `lwipv6.c` | services in priority order | add_service; service_check returns the first match whose check function claims the argument |
| Epoch tracker | `treepoch.c` is not in the snapshot; `sctab.c` um_setepoch and the um_x_* calls | current epoch, per-call stamp | get_epoch; save/restore around nested calls |
| Syscall map | `trunk/um-viewos/scmap.c`; scdtab_init in `trunk/um-viewos/sctab.c` | scmap[] and its inverse tables scremap/scuremap | init_scmap, scdtab_init, uscno |
| lwIPv6 routing table | `trunk/lwipv6/.../ipv6/ip6_route.c` | the route pool, its free list, the ordered route list | ip_route_list_add/del/delnetif, ip_route_findpath, the netlink RTM_NEWROUTE/RTM_DELROUTE handler, the RTM_GETROUTE dump |
| lwIPv6 IP input | `lwipv6/.../ipv6/ip6.c` | one pbuf at a time | ip_input, ip_inpacket, ip_process_exthdr, ip_forward |
| umfuse | `branches/UMVIEWOS/xmview-os/umfuse/umfuse.c` | fusetab, filetab, per mount: struct fuse (inuse, fops), the filesystem thread; umfuse_current_context | umfuse_mount, umfuse_umount2, umfuse_open/close, the path and fd calls, fini; startmain, fuse_loop, umfuse_abort |
| um_lwip | `xmview-os/um_lwip/lwipv6.c` | initflag, the library handle and the stack, the service tables; the argument buffer being cut, intnum[], ifh, paramval[] | the constructor, _um_mod_init (openlwiplib, lwipargtoenv, myputenv, lwip_load, add_service), the destructor |
| umpyew | `xmview-os/umpyew/umpyew.c` | the Python objects the module creates, their reference counts and what holds them; ps.ctl, ps.checkfun, ps.syscall | _um_mod_init, the PYIN/PYOUT wrappers, UMPYEW_STATFUNC, checkfun, ctl |

### How the parts interact

One tracer thread handles the kernel events one at a time (spec §7).

- **Entry.** On a syscall entry, tracehand copies the event into the pcb and calls dsys_commonwrap(IN):
  1. It unlinks the previous tmp file.
  2. It stamps the call with get_epoch().
  3. The choice function resolves the path into a fresh buffer, or into um_patherror, and asks the registry.
  4. The decision comes from one of these: the ALWAYS flag, the CB_R suspend check, or the service's wrap-in.
- **The ioctl tracehand then issues** depends on that decision:
  - STD → SYSRESUME (the syscall never stops again).
  - FAKE → the OUT phase runs at once, then SYSVIRTUALIZED.
  - CALLONXIT/MODICALL → the syscall runs and its exit event comes back.
  - SUSPIN → no ioctl. The thread stays stopped until its wakeup calls sc_resume.
- **Termination.** Thread termination (droppcb) releases the pcb at any point in this sequence.

Parts absent from `src/` are modelled from `spec.md` and marked `spec_modelled` in the map:
- service_check and add_service (um_services.c),
- get_epoch (treepoch.c),
- the outcome set of check_suspend_on (um_select.c),
- the kernel side: syscall entry, and completion after SYSMODIFIED.

The lwIPv6 stack runs every netlink request and every received packet to
completion on its own thread. ip_input looks up the route table that netlink
requests change, so a route change and a packet are separate atomic steps that
interleave in any order.

The lwipv6 service module builds that stack. Its _um_mod_init loads
liblwipv6, cuts the module's argument string at the unquoted commas, starts
the interfaces the pieces ask for and only then adds the service, so no packet
reaches the stack before the parsing is over. LwipStack composes the two in
that order.

umfuse runs two kinds of thread. The umview thread runs the service's
calls one at a time. Each mount starts a filesystem thread, which calls the
filesystem's main. That main reaches fuse_loop, which signals the mount
through the condition startloop and then waits on endloop until umount sets
inuse to EXITING. The `inuse` field is shared between the two threads and is
also the open-file counter. umpyew has no thread of its own: the core calls
its functions on the umview thread, and each one runs to completion.

### Hard behaviours (see `hazards` in PROJECT.json)

- A wakeup that fires after its thread died, or after the slot was reused.
- Path buffer ownership across the FAKE shortcut, path errors, suspension and termination.
- Tmp copies of executables that must be unlinked by the *next* call.
- The epoch of a parked call.
- CLONE_PARENT through an orphaned creator.
- Slot reuse of umpid 1.
- Table growth.
- A syscall number 0 in the dispatch index (x86_64 `__NR_read`).
- Route order across additions, deletions and interface removal.
- The duplicate test on masked versus unmasked addresses.
- pbuf ownership on every input path, 8-bit TTL wrap, and the fragment flags.
- The startloop signal that comes before umfuse_mount waits (a lost wakeup).
- umfuse's inuse, which is both a counter and a thread state.
- filetab slots taken before the checks that can fail.
- The quoting of lwipv6's argument string, and a library loaded without its stack constructor.
- Python references stolen by PyTuple_SET_ITEM, borrowed by PyTuple_GetItem, and released on error paths.

## 2. Modules

### PcbStore (MCPcbStore, PcbStore.cfg)

The pcb table and the per-process extension.

- **State:**
  - `pcbtabsize`
  - per slot (slot = umpid): `inuse`, `pid`, `pp`, `fdfs`
  - `fscount` per pcb_fs record
  - `nprocs`
  - `rootinits`: first_child_init calls
  - `crashed`: a NULL pp was dereferenced
  - the kernel's view: `alive`, `kparent`, `fscreator`
  - `registered`: modules registered for the process history (MC_PROC)
  - `known`: for each module, the umpids it was told by MC_ADD, each with the parent umpid it was told
- **Actions:**
  - `NewRoot` and `Fork` are tracehand's NEWTHREAD branch. Each is one `NewThread` step: newpcb (`NewTabSize`, `FirstFree`), then pcb_plus. pcb_plus covers CLONE_PARENT re-targeting, sharing the pcb_fs under CLONE_FS with count++, or a new pcb_fs otherwise.
  - `Exit` is droppcb: `cut_pp` over every pcb in use, `pcb_minus`, then `release`.
  - `NewThread` and `Exit` also notify the modules: um_proc_add at the end of pcb_plus and um_proc_del in pcb_minus. Both send a `service_ctl` MC_PROC message to every registered module; um_services.c is not in the sources, so this part is modelled from the spec.
  - `RegModule` and `DeregModule` are a module's MC_PROC registration and its removal. `reg_processes` and `dereg_processes` send MC_ADD and MC_REM for every pcb in use.
- **Freed slots** keep the pid/pp/fdfs their last owner left, as in the C table.
- **Start-up** (capture_km.c, `boot`, `rootproc`, `rootpc`, `rcwait`):
  - `CaptureMain` is capture_main: the kmview module is missing (`nokm`), the first fork fails (`forkfail`), or the first child is traced. The child id is `FirstChild`, one fixed thread id: every id plays the same part, so choosing one loses no behaviour.
  - `NewRoot` is the first NEWTHREAD, of that child; it starts the rc-file loop.
  - `ExecRc` is one rc file of capture_execrc: absent (skip), fork -1 (the root exits with status 2), or a child the root waits for (`rcwait`). `RcReaped` is its waitpid, after which the child's status decides whether the root goes on.
  - `Execvp` is r_execvp of the user command: it either succeeds (`rootpc = "user"`) or the root exits.
  - Until the root has exec'ed the user command it forks only rc children, so `Fork` of the root requires `rootpc = "user"`.

### Dispatch (MCDispatch, Dispatch.cfg and others)

The two-phase dispatch with suspend/resume.

- **State:**
  - per slot: `inuse`, `pid`, `scno`/`arg` (pc->event), `behavior`, `path` (NULL, PE or a buffer id), `epoch`, `tmpfile`
  - global:
    - `heap`: allocated path buffers
    - `disk`: tmp files present
    - `wakeups`
    - `registry`
    - `now`: the current epoch
  - kernel:
    - `kst`: where each thread is stopped
    - `req`
  - `misresumed`: threads that got a resume ioctl while they were not stopped for it
- **Actions:**
  - `TraceEntry` = tracehand SYSCALL_ENTRY + `EntryPhase`.
  - `EntryPhase` = dsys_commonwrap(IN), built from `tmp_cleanup`, `scchoice`, `commonwrap_in`, `check_suspend_on`, `wrapin` and `wrap_in_execve`, followed by the switch on the decision (`AfterIn`, `Ioctl`). The FAKE case includes the inline OUT phase: the buffer is freed.
  - `TraceExit` = SYSCALL_EXIT + `ExitPhase`, which is dsys_commonwrap(OUT) and SYSRETURN.
  - `Wakeup` = sc_resume.
  - `AddService`.
  - `Fork` = NEWTHREAD with pcb_plus clearing path/tmpfile.
  - `Kill` = droppcb.
  - The kernel's `Syscall` and `KernelDone`.
- **Choice functions:** `scchoice` maps each call's choice type onto sctab.c's choice functions. `choice_fd` is any registered service or none. `choice_socket` is service_check on the socket family. `always_umnone` declines every call it is asked about. The socketcall and mega wrappers (`socketwrap_path`, `megawrap_path`) pass no path to the choice. Each system call takes its argument from the constant `ArgsOf[sc]`, a set of service_check arguments.
- **Abstractions:**
  - A generic wrap-in is abstracted to the set of decisions it may return. Every wrap-out in the model returns STD_BEHAVIOR, as wrap_out_std and wrap_out_execve do.
  - choice_fd (service_fd) may return any registered service or none, since the fd table is not modelled.
  - choice_path stands for its pathat/link/unlinkat/pl4at/pl5at/link2 variants, which differ only in which argument holds the path and whether a last symlink is followed. choice_mount may also return UM_NONE with the path kept, when the filesystem type cannot be read. choice_sockpath with a NULL path asks about the socket family.
  - `filecopy` is the outcome of the copy (made, or the error returned).
  - The wakeup set is a set of slots.

### ServiceChecks (in MCDispatch)

The claim functions that make service_check choose a service: `real_path` of the real test module (every path except `/lib`), and `checksock` of lwipv6 (the socket families AF_INET, PF_INET6, PF_NETLINK, PF_PACKET, and the path /proc/net). `Arg` is the checked argument, a type tag and a value. MCDispatch turns them into the `Claims` constant of Dispatch, so the services of Dispatch.cfg (`real`, `lwipv6`) claim exactly what their modules' check functions claim.

### SyscallAbstract and the refinement (in Dispatch)

SyscallAbstract is what the dispatch core promises each thread (spec §4.4, §4.5):
- **States:** `idle → entry_pending → (idle | in_kernel | suspended)`; `suspended → decided again`; `in_kernel → exit_pending → idle`.
- **how:** the outcome (REAL, FAKE, MODIFIED, SUSPENDED) of the call in progress, fixed until it completes.

Dispatch maps onto it:
- `abs_st` renames `kst`.
- `abs_how` is `abs_outcome(behavior)` of the thread's slot while it is in a call.
- `Abs == INSTANCE SyscallAbstract WITH st <- abs_st, how <- abs_how`, and `AbstractLifecycle == Abs!Spec` is checked as a PROPERTY. The dispatch run checks it.

### Scmap (MCScmap)

The trunk syscall map: init_scmap, the rest of scdtab_init and uscno.
- **State:**
  - `scmap`: the syscall-number column, any assignment of numbers from `ScNos`;
  - the loop index `i`;
  - the inverse tables `scremap`/`scuremap`, static and so zero at start;
  - `registered`: the numbers given dsys_megawrap;
  - `done`.
- **Actions:**
  - `InitScmap` is one loop iteration;
  - `ScdtabInit` is the setcdtab loop, taking every number `>= 0`.

### IpRoute (MCIpRoute)

The lwIPv6 route table of ip6_route.c.
- **State:**
  - `routes`: the list ip_route_head, as a sequence;
  - `nfree`: the length of the free list;
  - `removed`: interfaces netif_find_id no longer finds.
- **Addresses:** W-bit numbers. The ip_addr mask macros become Bitwise `&`.
- **Helpers:**
  - `ip_route_list_add` has the pool test, the duplicate test `is_dup` and the ordered insert `insert_pos`/`mask_wider`, and stores the masked address;
  - `ip_route_list_del`;
  - `ip_route_list_delnetif`;
  - `ip_route_findpath`: the first match (`route_lookup` on any list).
- **Route dump:** `ip_route_netlink_getroute` is the RTM_GETROUTE handler as an operator, since it changes no table state. With NLM_F_DUMP it gives one RTM_NEWROUTE message per entry for the requested family, then NLMSG_DONE.
  - `out_route_dst`, `out_route_oif` and `out_route_gateway` write the attributes in the order of ip_route_route_out_table. A default destination or nexthop is left out.
  - `rta_get` is the attribute loop of the adddelroute handler, used to read a dump back.
- **Actions:**
  - `NetlinkRoute` is ip_route_netlink_adddelroute. Its inputs are RTA_DST (unmasked), the prefix length, RTA_GATEWAY and RTA_OIF. When RTA_OIF is absent, the interface comes from netif_find_direct_destination.
  - `NetifRemove` removes an interface and its routes.

### IpInput (MCIpInput)

ip6.c's input and output paths, composed with IpRoute.
- **Packets:** a packet is the header fields that choose its path: version, destination, next protocol, the 8-bit TTL/hop limit, whether it exceeds the MTU, and the IPv4 fragment flags.
- **Build options:** LWIP_USERFILTER, IPv4/IPv6 fragmentation. They are constants.
- **Actions:**
  - `Receive(h, inp)` is one ip_input call. The operators `ip_input`, `ip_inpacket`, `ip_process_exthdr`, `upper_dispatch` and `ip_forward` return the set of possible effects.
  - `Send(h, src)` is one ip_output call by a transport layer. The operators `ip_output` and `ip_output_if` return the possible effects. A packet whose destination equals its source is copied and handed to `ip_input` on the route's interface (the loopback). Otherwise the packet is sent, fragmented, or dropped when it is too big and fragmentation is not built in. A NULL source returns ERR_BUF, although the comment above ip_output_if says the interface address is filled in.
  - `RouteChange` is any IpRoute step.
- **Headers:** `ip_build_piphdr` gives the pseudo header of an IPv4 or IPv6 packet, and NONE for any other version, which ip_input frees.
- **`last`:** records the effect of the last call:
  - how often the pbuf was released;
  - which packets netif->output got;
  - which ICMP errors were generated;
  - for a send, what ip_input did with the looped-back copy (`loop`).

### LwipArgs, LwipModule and LwipStack (in MCIpInput)

lwipv6.c, the service module that loads the stack.
- **LwipArgs** is lwipargtoenv.
  - State: `argin` (the argument string, a sequence of one-character strings), `argbuf` (the buffer being cut, with NUL terminators), `argpos` (initargs), `argq` (quoted), `argst` (intnum[], ifh and paramval[]), `pieces` (what myputenv was given) and `argphase`.
  - `ParsePiece` is one pass of the outer loop: `Scan` (the inner loop, recursive), then the terminators and myputenv. `LoadInterfaces` is the interface loading (`lwip_load`, with `ifname` and the vd1 default) and the end of parsing. It resets the parse state to fixed values, which the stack never reads, so that states after parsing merge.
  - `Requested(pieces)` is a declarative reading of what the pieces ask for. `Fields` is the split the quoting is meant to produce.
- **LwipModule** is the module's life.
  - `ModuleInit` is the constructor. `OpenLib` is _um_mod_init up to lwipargtoenv, with `openlwiplib`'s three outcomes: no library, a library without lwip_stack_new/lwip_stack_set (an error is printed and nothing is set up), or a working one.
  - `AddService` is the end of _um_mod_init. `modfault` records that the interface adds were called with a NULL stack. `Fini` is the destructor: its `closelwiplib;` names the function without calling it, so the stack is never freed.
- **LwipStack** composes them with IpInput. The parse runs only inside _um_mod_init (`tables = "alloc"`). `LoadInterfaces` and `AddService` are one step. The stack handles packets and netlink requests only while `StackRunning`. The destructor never runs inside _um_mod_init.

### Umfuse (MCUmfuse)

umfuse.c of the UMVIEWOS branch.
- **State:**
  - `fusetab`, `filetab`: the two tables, slot by slot (the sets Ctx and Fds);
  - `fuse[c]`: the struct fuse of slot c (inuse, whether fuse_new set its fops, a generation), or NULL;
  - `fs[c]`: where the filesystem thread of slot c is;
  - `um`: where the umview thread is inside a mount, umount or fini;
  - `cur`: umfuse_current_context;
  - `held`: the descriptors the traced processes hold;
  - `fault`: the crash a call hit (a NULL fops or context, a bad index).
- **Condition variables:** a wait is the waiter's pc. A signal moves a waiter on, and is lost when no thread waits. A lock/test/wait or lock/signal/unlock is one step, because the code never blocks while it holds the mutex.
- **umview thread actions:**
  - `Mount`, `MountWait`, `MountCheck`, `MountJoin`: umfuse_mount up to and after the wait on startloop;
  - `UmountStart`, `Umount`, `UmountSignal`, `UmountJoin`: umfuse_umount2;
  - `FiniStart`, `FiniStep`: the destructor, which closes each context with `contextclose`, the umount path of `UmountStart`; `delmnttab` empties a fusetab slot for a failed mount and for an umount;
  - `Open`, `Close` (with `delfiletab`), `PathOp`, `FdOp` (read, and write in the experimental build), `FdStat` (fstat, fstat64): the file calls;
  - `syscall`: the calls the constructor init installs in s.syscall. write, lseek, _llseek and the calls that change the filesystem are installed only under __UMFUSE_EXPERIMENTAL__ (the constant `EXPERIMENTAL`). fuse_rename, mknod, ftruncate, pread and pwrite are never installed, so umview never routes them to umfuse. Each action below that models an experimental call is guarded by membership in `syscall`;
  - `PathModOp` (mkdir, rmdir, chmod, chown, unlink), `Truncate`, `Link` and `Symlink`: the calls that change the filesystem. Link and symlink are chosen by the new path. Link unwraps both paths with the new path's mount, and symlink passes the old path as is. What they change in the filesystem is not modelled;
  - `um_getdents`: um_getdents and um_getdents64 (a buffer size from `Counts`, either record layout). The first call fills `dirinfo` through getdir, which may fail;
  - `Fsync`, `LseekEnd`, `umfuse__llseek`, `Utime`: `umfuse_lseek` is the body lseek and _llseek share, each installed under its own syscall; umfuse_fsync (no fops call); lseek with SEEK_END, which asks the slot `fusetab[fd]` for the size; utime, which reads `cur` instead of searching the path; the checkpath fuse_path has just set it to the path's own mount, so the call is as PathOp's. SEEK_SET and SEEK_CUR only move the file offset, which is not modelled.
- **Directory listing (UmfuseDir):** the circular list of records that umfusefilldir builds is a sequence (`FillFrom`), the tail being its last element and a NULL dirpos being 0. Each record keeps its two record lengths, computed with `WORDALIGN`. `CopyLoop` is the copy loop of the two getdents calls, and `Getdents` one whole call. Each filetab entry carries `dirinfo` and `dirpos`, and two fields the code does not have: `got`, the records returned so far, and `eof`, whether the last call returned 0.
- **Filesystem thread actions:** `FsStart` (startmain; a failing main and umfuse_abort, or `fuse_main_real`, which calls `fuse_new` with the context `fuse_mount` returns; with `badops` fuse_new refuses the operations table and fuse_loop gets NULL), `FsSignal`, `FsLoopReset` (the unlocked `inuse = 0`), `FsLoopWait`, `FsExit`.
- **Fairness:** `FairSpec` makes each thread weakly fair (see Fairness).

### Umpyew

umpyew.c as the Python C-API calls of each C function, in their order.
- **Function bodies:** each body is a sequence of instructions: `new`, `newinto` (PyTuple_SET_ITEM of a new object), `steal` (PyTuple_SET_ITEM of an owned one), `dictset` (PyDict_SetItemString), `incref`, `decref`, `xdecref`, `call`, `getattr`, `use` (a read through the pointer), `assign`, jumps and `ret`.
  - `PYIN`, `PYARGS`, `PYOUT` and `Wrap(n)` are the macros and the eleven wrappers.
  - `Stat` is UMPYEW_STATFUNC.
  - `CheckPath`, `CheckBinfmt`, `CheckBad` and `CheckTail` are checkfun.
  - `CtlBody(n)` and `CtlBad` are ctl.
  - `ModInit` and `PYTHON_SYSCALL` are _um_mod_init. One PYTHON_SYSCALL stands for the fourteen, since they differ only in names.
- **State:** the pointer variables `loc`, the heap `h` (live and freed objects, reference counts, what each object holds, kinds), the running function and its `pc`, and `added`.
  - A decref to zero frees the object and releases what it holds (`DecrefObj`, recursive).
  - At `ret`, the locals die. What the globals no longer reach is recorded in `leak` and forgotten, so the state space stays finite.
- **Python side:** a call raises (NULL) or returns a new object; an attribute is missing, callable, None or something else. The values passed (paths, modes, stat fields) are not modelled: they do not change ownership.
- **Actions:** one per instruction kind (`DoNew` ... `DoRet`), and `Invoke(f)`: the core calls a function the service registered.
- `fini` is the destructor: once no function runs, Py_Finalize drops every object and the globals become NULL, and the service is no longer added.

## 3. Runs

| Run | Expect | What it shows |
|---|---|---|
| pcbstore | pass | A live thread has exactly one pcb. A non-NULL pp is a pcb in use that belongs to the kernel parent. pcb_fs counts are exact. This holds over every order of clones (all four CLONE_FS/CLONE_PARENT combinations) and exits of 3 threads, with table growth 1→2→4. A module registered for the process history knows exactly the pcbs in use (`KnownProcsExact`). |
| pcbstore_null_parent | violation | The root forks A and then exits, so `_cut_pp` NULLs A's pp. A then clones with CLONE_PARENT: pcb_plus copies the NULL into the new pcb's pp (sctab.c:526) and dereferences it (sctab.c:529, or 546 without CLONE_FS). |
| dispatch | pass | Without termination: path buffers are owned exactly by the calls in flight (`PathOwnedExactly`), every resume ioctl answers a stopped thread (`ResumeOnlyStopped`), a tmp copy exists only while its execve is in flight (`TmpFileOnlyDuringExec`), and tracehand, dsys_commonwrap and sc_resume implement SyscallAbstract (`AbstractLifecycle`). |
| dispatch_kill_liveness | pass | Threads may die at any point. With fair event handling and wakeup delivery, every stopped thread is eventually let go or dead (`StopsAreAnswered`). |
| ipinput | pass | Every path of ip_input releases the pbuf exactly once, and ip_output leaves the caller's pbuf to it while ip_input releases the looped-back copy once (`PbufReleasedOnce`). Nothing is output above the MTU, whether forwarded, sent or looped back (`NoOversizeOutput`). Before any packet, under every outcome of openlwiplib, lwipargtoenv hands lwip_load, for every argument string of up to three pieces, the interfaces the pieces ask for, with the names the last naming piece gives (`InterfacesPerArgs`). This covers IPv4, IPv6 and a bad version, every next protocol, local, multicast, forwarded and unroutable destinations, and route changes in between. The build has no userfilter and no IPv4 fragmentation, the default lwipopts. |
| ipinput_forward | pass | Over every sequence of route additions, deletions and interface removals (3-bit addresses, 2 pool entries), the route list stays longest-prefix-first (`LongestPrefixMatch`). It holds no route of a removed interface (`NoRouteViaRemovedNetif`). An RTM_GETROUTE dump replayed as RTM_NEWROUTE requests into an empty table routes every destination as the live table does (`RouteDumpRestores`): the left-out attributes read back as the same values, rtm_dst_len inverts prefix2mask, and the ordered insert rebuilds the order. |
| scmap_read_is_zero | violation | With x86_64 numbering, read (0) is dispatched but uscno(0) = -1. |
| umfuse | pass | Over every interleaving of mounts (successful mains and mains that fail before fuse_main), umounts, opens, closes, path and fd calls with the filesystem threads, in the __UMFUSE_EXPERIMENTAL__ build (every call installed), between calls an unmounted slot has no thread and no struct fuse (`NoThreadOfUnmounted`). getdents and getdents64 calls, in any mix and with buffers longer than every record, return each record of a directory once and return 0 only after the last one (`GetdentsListsOnce`). Opens use plain flags only, since every other flag reaches a return that leaks its filetab slot (see Further counterexamples). |
| umfuse_mount_hang | violation | fuse_loop signals startloop before umfuse_mount waits on it. The signal is lost and the mount never returns (`UmCallsReturn`, umfuse.c:492). |
| umfuse_inuse_exiting | violation | Two files are opened before fuse_loop's `inuse = 0` and then closed. inuse reaches -2 = EXITING, and the filesystem thread leaves fuse_loop while the filesystem is still mounted (`FsThreadLivesWhileMounted`, umfuse.c:495). |
| umfuse_badops_mount | violation | The filesystem's main calls fuse_main_real with a fuse_operations of another size. fuse_new returns NULL (umfuse.c:466) and fuse_loop(NULL) signals startloop, so inuse is still WAITING_FOR_LOOP and umfuse_mount returns 0 (umfuse.c:644) with the operations table zeroed (`MountedFsInitialised`). Every later call on the mount goes through a NULL function pointer. |
| umpyew | pass | After any outcome of _um_mod_init, and any sequence of system-call wrappers, stat and checkfun calls, with Python raising or not: no object is released twice, read after free or through NULL (`NoRefcountFault`). What the service keeps stays allocated (`KeptObjectsLive`), and the PYIN/PYOUT wrappers leak nothing (`NoLeakInWrappers`). |

**The refinement.** The dispatch run checks `AbstractLifecycle`: every behaviour of two threads without termination is one of SyscallAbstract's, so a call is decided only at its entry or on its wakeup, and its outcome stays fixed until it completes. No run checks it with thread termination. A kill with a wakeup pending makes a difference only if the wakeup outlives its pcb, and that depends on um_select.c, which is not in the sources. (The wakeup re-runs the upcall on the event stored in the pcb it was registered for, capture_km.c:309; after slot reuse that is the new thread's event.)

Each property of a passing run has a fault variant in the module, named in `mutants`, that the run catches:
- a dropped free in the STD branch;
- a wakeup registered even when the descriptor is ready;
- a skipped tmp unlink;
- a missing `_cut_pp`, `count--` or `flags = 0`;
- growth by one slot;
- an epoch stamped one ahead;
- a missing wakeup registration;
- a FAKE call resumed with SYSMODIFIED instead of SYSVIRTUALIZED;
- an insert before the first *narrower* route;
- a delnetif walk that skips the entry after an unlinked one;
- a pcb_minus that does not notify the modules (um_proc_del left out);
- an add without the pool test;
- a forward that does not free;
- a missing MTU test;
- an umount that does not join the thread;
- a filetab entry counted twice;
- PYOUT without `Py_DECREF(pArg)`;
- stat without its `Py_INCREF(pStatDict)`;
- a PYTHON_SYSCALL that releases the pair it stored;
- a getdents that does not treat a dirpos at the tail as the end;
- a route dump whose gateway test looks at the destination;
- an ifaddname that appends to ifh instead of pushing at its head.

### Further counterexamples

The following configuration changes make a checked property fail. Each is recorded as a hazard note in PROJECT.json:
- `KillAllowed = TRUE` in Dispatch.cfg: `PathOwnedExactly` fails (pcb_minus does not free pc->path), and so does `TmpFileOnlyDuringExec`.
- `ExecResults` with `"binfmt_norv"`: `PathOwnedExactly` fails (um_exec.c:161).
- `USERFILTER = TRUE` in IpInput.cfg: `PbufReleasedOnce` fails (ip6.c:155). With only `Send` steps it fails on the loopback: the UF_IP_POST_ROUTING hook drops the copy and nobody frees it (ip6.c:581).
- `IPv4_FRAGMENTATION = TRUE`: `NoOversizeOutput` fails (ip6.c:226 falls through to the whole-packet output).
- `Ttls` with 0 and `INVARIANT HopLimitDecrements` in IpInput.cfg: it fails. A packet with TTL 0 is forwarded with hop limit 255 (ip6.c:165 decrements the 8-bit field before the test).
- `IPv4_FRAGMENTATION = TRUE` and `INVARIANT DontFragmentRespected` in IpInput.cfg: a DF packet larger than the MTU is fragmented (ip6.c:211 tests IP_MF).
- `NoDuplicateRoutes` under MCIpRoute (W = 3, POOL = 3, the MC sets, `Spec`): two RTM_NEWROUTE requests for the same unmasked prefix store two routes (ip6_route.c:155). `RouteDumpRestores` still holds there: a replayed dump rebuilds one of the two, and the routing is the same.
- `INVARIANT RootInitOnce` in PcbStore.cfg: the root exits, umpid 1 is reused, and first_child_init runs a second time (capture_km.c:267).
- `"ctl1"` or `"ctl3"` in the Funcs of Umpyew.cfg: `NoRefcountFault` fails with a double free. ctl releases pCmdArgs after PyTuple_SET_ITEM stole it, and then releases pArg (umpyew.c:604). Once that is fixed, a raising modCtl makes ctl pass NULL to Py_DECREF (umpyew.c:608).
- `OpenFlags` with `"creat"`, `EXPERIMENTAL = FALSE` and `INVARIANT FiletabOnlyHeld` (filetab holds exactly the open files) in Umfuse.cfg: it fails. With EXPERIMENTAL TRUE the EEXIST, truncate and mknod returns (umfuse.c:916-936) leak the same way. The EROFS return of umfuse_open keeps its filetab slot (umfuse.c:939).
- `Counts = {45, 100}` in Umfuse.cfg: `GetdentsListsOnce` fails. A buffer that holds the next record only exactly, or not at all, makes getdents return 0, which ends the listing early (umfuse.c:800).
- `INVARIANT ArgsSplitAtCommas` in place of the invariants of IpInput.cfg: the argument string `'tp1'` reaches myputenv as `tp1''`, so no tap interface is started. lwipargtoenv writes the terminator at `unquoted` only when a piece ends at a comma (lwipv6.c:361).
- `INVARIANT FiniUnmountsAll` in Umfuse.cfg: fini stops at the first free slot of fusetab (umfuse.c:212).

sc_resume also re-stamps a resumed call with the current epoch (EntryPhase runs again). Spec §4.5 says the epoch is kept across the suspension.

### Bounds

| Module | Bound | Why it is enough |
|---|---|---|
| PcbStore | 3 threads, PCBSIZE 1, MaxTab 4, 4 pcb_fs records, one module | The table doubles twice. Every clone flag combination meets orphaned, sharing and reused slots. One module can register before, between and after births and deaths, and register again. |
| Dispatch | 2 threads and 2 slots | Two threads interleave on their own slots; a slot is reused only after a kill, which the kill run has. |
| Dispatch | open (path, ALWAYS), recv (fd, CB_R), execve (path, flags 0), mount (choice_mount, flags 0), socket (choice_socket, flags 0), getcwd (always_umnone, ALWAYS); the last four in the dispatch run only, as in scmap.c | One syscall of each dispatch class and of each choice function. |
| Dispatch | the services real and lwipv6 with their own check functions; arguments /lib, /proc/net, AF_INET, a filesystem type and none (kill run: lwipv6, /proc/net and none) | /proc/net is claimed by both services, so registration order and epoch visibility change the choice; /lib and AF_INET are claimed by one each, and the filesystem type by none. |
| Dispatch | MaxEpoch 2 | At most 2 registrations. |
| Dispatch | MaxBuf/MaxTmp at least the number of calls that can hold one | The allocation guards never block a call in the passing runs. |
| Dispatch, kill runs | 3 threads, each born once | A dead thread's slot can be taken by a third thread. Kills are bounded by the thread count, so leaked buffers never exhaust the pool. |
| IpRoute (forward run) | W = 3, 2 pool entries, destinations 1, 5, 6, gateways 0 (none), 2, 5 | Prefix lengths 0..3 give nested and disjoint prefixes of each destination. Two entries are enough to misorder, to hit a full pool, and to put two routes of one interface next to each other. |
| IpInput | W = 2, 1 pool entry; versions 4, 6, 5; every protocol; TTL 1, 2; both sizes; all v4 flags | Every branch of ip_input, ip_forward and ip_output_if; sources 1 (the loopback to 1 and sends to the other addresses) and NULL. The route table only chooses forward or drop there; order is the forward run's concern. |
| LwipArgs | 9 tokens (counts, names, the parameter, quotes, a quoted comma, the empty token), up to 3 per string: 819 strings | Each type is asked for by count and by name, twice and in either order. Empty pieces, quotes of both kinds and a comma inside quotes all appear. |
| Scmap | 3 entries, MAXSC 4, BASEUSC 6, MAXUSC 2 | Every number class: none (-1), 0, kernel, um-specific. |
| Umfuse | 2 fusetab slots, 2 filetab slots, paths /a, /a/b, /c, 3 mounts in total; a directory of two names (records of 40 and 48 bytes), buffers of 49 and 100 bytes | Two filesystem threads run at once. A path lies under another mount. Two opens on one mount take inuse to -2. A slot is reused after umount. A 49-byte buffer takes one record per call, so a listing spans calls, and a 100-byte buffer takes both. The buffers are larger than any record, as glibc's are. The violation runs give no buffer sizes, so they leave getdents out. The umfuse run's mains are `fuse_main` and `fail`; the third, `badops`, leaves a mounted slot without operations, which is the umfuse_badops_mount run. |
| Umpyew | 14 object ids; every function except ctl | _um_mod_init keeps 8 objects alive, and the largest call (checkbinfmt) needs 6 more. Running out of ids would show as fault "bound", which `NoRefcountFault` reports. |

### Fairness

The tracer handles every event it is given: a single loop drains the events. So `TraceEntry`, `TraceExit` and `KernelDone` are weakly fair.

`Wakeup` is also weakly fair. This is an environment assumption: a descriptor a thread waits on eventually becomes ready. The model does not contain data sources.

In Umfuse, `FairSpec` makes the umview thread and each filesystem thread weakly fair: the scheduler runs every runnable thread, and a started system call runs to its end. New system calls are not forced.

The safety runs use `Spec` without fairness. IpRoute and IpInput have no liveness property: nothing in them must eventually happen, since each request or packet is one step.

The IpRoute and IpInput runs set `CHECK_DEADLOCK FALSE`. Once every interface is removed, every request is refused and no packet can arrive, so the system really stops. Scmap stops after initialisation. Umfuse stops after fini and after a crash. LwipStack also stops after the destructor, and when openlwiplib leaves no stack. Umpyew stops when its init fails, when a call faults, and when no function is installed.

## 4. Plan

1. **PcbStore, Dispatch, SyscallAbstract, Scmap, IpRoute, IpInput, Umfuse, Umpyew** (done).
2. **Treepoch / Registry:** tst_newfork, tst_newproc, matching_epoch and um_setepoch save/restore. This comes with an abstract "registration visible as of epoch" specification refined by the detailed one. treepoch.c is not in the snapshot, so it would be modelled from spec.md.
3. **ip6_addr.c** (address lists, deliveryfind). ip_output / ip_output_if are done.
4. **ip6_frag.c reassembly:** the fragment cache and its timer.

## 5. Not modelled

- The header bytes and checksum that ip_output_if writes, and pbuf_header/pbuf_alloc failures. The path-MTU code of ip6_route.c is `#if 0`.
- ip6_reass, beyond "cached or reassembled".
- The packet memory behind the next header after a fragment header. After ip6_reass replaces `*p`, ip6.c:803 reads `fhdr`, which may point into a freed fragment.
- umfuse: the fuse_* library callbacks (getattr, readdir and the rest) and the data they return. The file offset that read, write, SEEK_SET and SEEK_CUR move. ftruncate (never installed), which would hand truncate the path already unwrapped by open (umfuse.c:1522), because a file's path is not kept. A getdir that fails looks like an empty directory to the caller. getdir also runs with whatever umfuse_current_context the last call left (umfuse.c:716), which matters only to a filesystem that calls fuse_get_context. Paths are model values; the SUBSTR test is the relation `Ancestors`.
- umpyew: the values passed to Python, the Python module's own behaviour, and the `#if 0` unreal_* functions.
- lwipv6.c's sockioctl and ioctlparms, which copy ioctl arguments; CHECKIOCTLPARMS never reaches service_check. The quoting bug, the NULL stack and checksock claiming sockets for a service without a library are hazards.
- testmodul2, whose check function claims nothing: it would only add states to Dispatch. choice_sc and the mmap choice, which no entry of the modelled syscall table uses.
- do_wait's reaping of the root's children (capture_km.c): children cloned with CLONE_PARENT are not told apart from the root's own in `kparent`, so the first child's exit status is not modelled.
- umfuse_link and fuse_rename (which is never installed) unwrap the old path with the new path's mount (umfuse.c:1422), which is wrong when the two lie under different mounts. The model does not follow path strings.
- encfs FileUtils, umnetcurrent, the tap/vde/mintap drivers and the test modules' forwarding wrappers. These are I/O and data translation.
- The umview command line.
- Memory allocation failure (newpcb returning -1).
- retval/errno values.
- The logical `&&` flags test, which agrees with `&` while flags only hold PCB_INUSE.
- treepoch.c, which is absent from the snapshot. The um_setepoch(0) restore at um_exec.c:142 depends on it.
