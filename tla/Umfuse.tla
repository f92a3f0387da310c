------------------------------- MODULE Umfuse -------------------------------
(***************************************************************************)
(* The umfuse service module (branches/UMVIEWOS/xmview-os/umfuse/umfuse.c):*)
(* the mount table fusetab, the open file table filetab, and the          *)
(* handshake between the umview thread that runs the service's system     *)
(* calls and one filesystem thread per mount.                             *)
(*                                                                         *)
(* umfuse_mount starts the filesystem's main in a new thread (startmain)  *)
(* and waits on the condition startloop until fuse_loop signals it;       *)
(* fuse_loop then sets inuse to 0 and waits on endloop until              *)
(* umfuse_umount2 sets inuse to EXITING and signals.  A condition         *)
(* variable is modelled by the waiting thread's pc: a signal moves a      *)
(* waiter on, and is lost when no thread waits.  Each step holds a mutex  *)
(* for its whole duration and the code never blocks while holding one,   *)
(* so lock/test/wait and lock/signal/unlock are single steps.  A wait     *)
(* returns only on a signal (no spurious wakeups).                        *)
(*                                                                         *)
(* Slots of fusetab and filetab are the fixed sets Ctx and Fds (the       *)
(* tables grow by realloc; a bound on both is a bound on the run).  Paths *)
(* are model values; Ancestors[p] is the set of paths that p is equal to  *)
(* or lies under, which is what the SUBSTR comparison of searchcontext   *)
(* accepts.                                                               *)
(***************************************************************************)
EXTENDS Integers, FiniteSets, FiniteSetsExt, UmfuseDir

CONSTANTS
  Ctx,           \* slots of fusetab: 0 .. n-1
  Fds,           \* slots of filetab
  Paths,         \* paths the traced processes name
  Ancestors,     \* p -> the paths p equals or lies under
  FsMains,       \* what the filesystem's main does (see FsStart)
  OpenFlags,     \* open flags: "plain", or with O_CREAT / O_EXCL / O_TRUNC
  EXPERIMENTAL,  \* __UMFUSE_EXPERIMENTAL__ is defined
  MaxMounts,     \* bound on the number of mounts in a run
  NULL

ASSUME Ancestors \in [Paths -> SUBSET Paths]
ASSUME FsMains \subseteq {"fuse_main", "fail", "badops"}
ASSUME OpenFlags \subseteq {"plain", "creat", "excl", "trunc"}

WAITING_FOR_LOOP == -1
EXITING == -2
FUSE_ABORT == -3

VARIABLES
  fusetab,   \* fusetab[c]->fuse->path, or NULL for a free slot
  fuse,      \* the struct fuse of slot c (inuse, fops set by fuse_new, mount number)
  fs,        \* pc of the filesystem thread of slot c
  um,        \* pc of the umview thread
  cur,       \* umfuse_current_context
  fini,      \* loop index of forallfusetabdo in fini, -1 outside it
  filetab,   \* filetab[fd]: context, mount number, count; or NULL
  held,      \* fds the traced processes hold (returned by open, not closed)
  mounts,    \* mounts done so far
  fault      \* NULL, or the invalid access that stopped umview

vars == <<fusetab, fuse, fs, um, cur, fini, filetab, held, mounts, fault>>

FsPcs == {"none", "start", "abort_signal", "loop_signal", "loop_set0",
          "loop_lock", "loop_wait", "loop_ret", "done"}
UmPcs == {"idle", "m_lock", "m_wait", "m_check", "m_join", "u_lock", "u_join",
          "fini", "finished"}
Fuse == [inuse : (-3 - Cardinality(Fds)) .. Cardinality(Fds), fops : BOOLEAN, gen : 1 .. MaxMounts]
(* dirinfo is the record list getdir filled (<<>> while NULL), dirpos its *)
(* position; got (records returned) and eof (the last getdents returned  *)
(* 0) record what the caller has seen.                                    *)
FileInfo == [context : Ctx, gen : 1 .. MaxMounts, count : 0 .. 1,
             dirinfo : {<<>>, umfilldirinfo(Listing, TRUE)},
             dirpos : 0 .. Len(Listing), got : Nat, eof : BOOLEAN]

TypeOK ==
  /\ fusetab \in [Ctx -> Paths \cup {NULL}]
  /\ fuse \in [Ctx -> Fuse \cup {NULL}]
  /\ fs \in [Ctx -> FsPcs] /\ um \in UmPcs
  /\ cur \in Ctx \cup {-1} /\ fini \in -1 .. Cardinality(Ctx)
  /\ filetab \in [Fds -> FileInfo \cup {NULL}] /\ held \subseteq Fds
  /\ mounts \in 0 .. MaxMounts
  /\ fault \in {NULL, "null_fops", "null_ctx", "bad_index"}

Init ==
  /\ fusetab = [c \in Ctx |-> NULL]
  /\ fuse = [c \in Ctx |-> NULL]
  /\ fs = [c \in Ctx |-> "none"]
  /\ um = "idle" /\ cur = -1 /\ fini = -1
  /\ filetab = [fd \in Fds |-> NULL] /\ held = {}
  /\ mounts = 0 /\ fault = NULL

-----------------------------------------------------------------------------
(* searchcontext: the first slot whose path is p (EXACT) or an ancestor   *)
(* of p (SUBSTR); -1 if none.                                             *)
searchcontext(p, exact) ==
  LET M == {c \in Ctx : fusetab[c] # NULL /\
                        IF exact THEN fusetab[c] = p ELSE fusetab[c] \in Ancestors[p]}
  IN IF M = {} THEN -1 ELSE Min(M)

(* fuse_path: the service's checkpath; umfuse handles p when it lies      *)
(* under a mounted path.  Its first test, a name starting with "umfuse",  *)
(* is the filesystem type of a mount, never one of the absolute Paths the *)
(* file calls pass.  The umfuse_current_context it sets is the cur' that  *)
(* each caller assigns from the same searchcontext.                       *)
fuse_path(p) == searchcontext(p, FALSE) >= 0

(* addfusetab / addfiletab: the first free slot. *)
addfusetab == Min({c \in Ctx : fusetab[c] = NULL})
addfiletab == Min({fd \in Fds : filetab[fd] = NULL})

(* delfiletab: the slot is emptied. *)
delfiletab(fd) == [filetab EXCEPT ![fd] = NULL]

(* delmnttab: the slot is cleared, never compacted (its index is the id). *)
delmnttab(i) == [fusetab EXCEPT ![i] = NULL]

Idle == um = "idle" /\ fault = NULL

(* The constructor init fills s.syscall.  write, lseek, _llseek and the  *)
(* calls that change the filesystem are installed only under            *)
(* __UMFUSE_EXPERIMENTAL__; fuse_rename, mknod, lchown, ftruncate,       *)
(* pread and pwrite never are, so umview does not route them here.       *)
syscall ==
  {"mount", "umount", "umount2", "open", "creat", "read", "close", "stat",
   "lstat", "fstat", "stat64", "lstat64", "fstat64", "readlink", "getdents",
   "getdents64", "access", "fcntl", "fcntl64", "utime", "utimes"}
  \cup (IF EXPERIMENTAL
          THEN {"write", "lseek", "_llseek", "mkdir", "rmdir", "chown", "chmod",
                "unlink", "fsync", "link", "symlink", "truncate"}
          ELSE {})

(* signal on a condition the umview thread may wait on. *)
SignalStartloop ==
  um' = IF um = "m_wait" THEN "m_check" ELSE um
(* A call through fusetab[c]->fuse->fops: the operations table is all    *)
(* NULL unless fuse_new filled it, and calling a NULL entry stops umview. *)
CallFops(c, ok) ==
  IF fuse[c].fops THEN ok /\ UNCHANGED fault
                  ELSE fault' = "null_fops" /\ UNCHANGED <<filetab, fuse, held>>

-----------------------------------------------------------------------------
(***************************************************************************)
(* umfuse_mount: dlopen succeeded; a new context goes to the first free   *)
(* slot (addfusetab) with inuse = WAITING_FOR_LOOP and the filesystem     *)
(* thread is created.                                                     *)
(***************************************************************************)
Mount(p) ==
  /\ Idle /\ mounts < MaxMounts
  /\ \E c \in Ctx : fusetab[c] = NULL
  /\ LET c == addfusetab IN
       /\ fusetab' = [fusetab EXCEPT ![c] = p]
       /\ fuse' = [fuse EXCEPT ![c] = [inuse |-> WAITING_FOR_LOOP, fops |-> FALSE,
                                       gen |-> mounts + 1]]
       /\ fs' = [fs EXCEPT ![c] = "start"]
       /\ cur' = c
  /\ mounts' = mounts + 1 /\ um' = "m_lock"
  /\ UNCHANGED <<fini, filetab, held, fault>>

(* lock condition_mutex; if inuse == WAITING_FOR_LOOP wait on startloop. *)
MountWait ==
  /\ um = "m_lock"
  /\ um' = IF fuse[cur].inuse = WAITING_FOR_LOOP THEN "m_wait" ELSE "m_check"
  /\ UNCHANGED <<fusetab, fuse, fs, cur, fini, filetab, held, mounts, fault>>

(* after the unlock: FUSE_ABORT frees the slot and joins, anything else  *)
(* is success.  The slot index is re-read from umfuse_current_context.   *)
MountCheck ==
  /\ um = "m_check"
  /\ IF fuse[cur].inuse = FUSE_ABORT
       THEN fusetab' = delmnttab(cur) /\ um' = "m_join"
       ELSE UNCHANGED fusetab /\ um' = "idle"
  /\ UNCHANGED <<fuse, fs, cur, fini, filetab, held, mounts, fault>>

(* pthread_join, then free the struct fuse. *)
MountJoin ==
  /\ um = "m_join" /\ fs[cur] = "done"
  /\ fuse' = [fuse EXCEPT ![cur] = NULL] /\ fs' = [fs EXCEPT ![cur] = "none"]
  /\ um' = "idle"
  /\ UNCHANGED <<fusetab, cur, fini, filetab, held, mounts, fault>>

(***************************************************************************)
(* umfuse_umount2: searchcontext(EXACT); the debug test reads             *)
(* fusetab[umfuse_current_context] before the test for -1, which for a    *)
(* path that is handled (under a mount) but not a mount point is          *)
(* fusetab[-1]: the read stops umview.  Otherwise delmnttab, then lock    *)
(* endmutex, inuse = EXITING, signal endloop, unlock; then join and free. *)
(***************************************************************************)
UmountStart(p) ==
  LET c == searchcontext(p, TRUE) IN
  /\ cur' = c
  /\ IF c < 0
       THEN fault' = "bad_index" /\ UNCHANGED <<fusetab, um>>
       ELSE fusetab' = delmnttab(c) /\ um' = "u_lock"
            /\ UNCHANGED fault

Umount(p) ==
  /\ Idle /\ fuse_path(p)
  /\ UmountStart(p)
  /\ UNCHANGED <<fuse, fs, fini, filetab, held, mounts>>

UmountSignal ==
  /\ um = "u_lock"
  /\ fuse' = [fuse EXCEPT ![cur].inuse = EXITING]
  /\ fs' = IF fs[cur] = "loop_wait" THEN [fs EXCEPT ![cur] = "loop_ret"] ELSE fs
  /\ um' = "u_join"
  /\ UNCHANGED <<fusetab, cur, fini, filetab, held, mounts, fault>>

(* mutant: the struct is freed without pthread_join *)
UmountJoin_nojoin ==
  /\ um = "u_join"
  /\ fuse' = [fuse EXCEPT ![cur] = NULL]
  /\ IF fini >= 0 THEN um' = "fini" /\ fini' = fini + 1
                  ELSE um' = "idle" /\ UNCHANGED fini
  /\ UNCHANGED <<fusetab, fs, cur, filetab, held, mounts, fault>>

(* after the join: back to the caller, or to the next slot of fini. *)
UmountJoin ==
  /\ um = "u_join" /\ fs[cur] = "done"
  /\ fuse' = [fuse EXCEPT ![cur] = NULL] /\ fs' = [fs EXCEPT ![cur] = "none"]
  /\ IF fini >= 0 THEN um' = "fini" /\ fini' = fini + 1
                  ELSE um' = "idle" /\ UNCHANGED fini
  /\ UNCHANGED <<fusetab, cur, filetab, held, mounts, fault>>

(***************************************************************************)
(* fini (the module's destructor): forallfusetabdo(contextclose) walks    *)
(* fusetab from slot 0 while the slot is not NULL, unmounting each one.  *)
(***************************************************************************)
FiniStart ==
  /\ Idle /\ fini = -1
  /\ um' = "fini" /\ fini' = 0
  /\ UNCHANGED <<fusetab, fuse, fs, cur, filetab, held, mounts, fault>>

(* contextclose: umfuse_umount2 of the slot's mount point, MNT_FORCE. *)
contextclose(c) == UmountStart(fusetab[c])

FiniStep ==
  /\ um = "fini"
  /\ IF fini \in Ctx /\ fusetab[fini] # NULL
       THEN contextclose(fini) /\ UNCHANGED fini
       ELSE um' = "finished" /\ UNCHANGED <<fusetab, cur, fini, fault>>
  /\ UNCHANGED <<fuse, fs, filetab, held, mounts>>

(***************************************************************************)
(* umfuse_open: the first free filetab slot is taken and filled before   *)
(* any check.  Without __UMFUSE_EXPERIMENTAL__ any of O_CREAT, O_EXCL,   *)
(* O_TRUNC returns EROFS; with it, the truncate (file exists) or the     *)
(* EEXIST / mknod (O_CREAT) step may fail.  Those returns keep the slot. *)
(* fops.open failing frees it; success sets count 1 and inuse++.  The    *)
(* filesystem's answers are nondeterministic.                            *)
(***************************************************************************)
PreOpenFails(fl) ==
  IF EXPERIMENTAL THEN IF fl = "plain" THEN {FALSE} ELSE BOOLEAN
                  ELSE {fl # "plain"}

(* mutant: the new entry starts with count 1 *)
fileinfo_count1(cc) == [context |-> cc, gen |-> fuse[cc].gen, count |-> 1,
                        dirinfo |-> <<>>, dirpos |-> 0, got |-> 0, eof |-> FALSE]

(* the fields umfuse_open fills in the new filetab entry. *)
fileinfo(cc) == [context |-> cc, gen |-> fuse[cc].gen, count |-> 0,
                 dirinfo |-> <<>>, dirpos |-> 0, got |-> 0, eof |-> FALSE]

(* fops.open returned an error: delfiletab(fi). *)
OpenError(fi, entry) == UNCHANGED <<filetab, fuse, held>>

Open(p, fl) ==
  /\ Idle /\ fuse_path(p)
  /\ \E fd \in Fds : filetab[fd] = NULL
  /\ LET cc == searchcontext(p, FALSE)
         fi == addfiletab
         entry == fileinfo(cc)
         leak == filetab' = [filetab EXCEPT ![fi] = entry] /\ UNCHANGED <<fuse, held>>
     IN /\ cur' = cc
        /\ \E early \in PreOpenFails(fl), rv_ok \in BOOLEAN :
             CASE early /\ ~EXPERIMENTAL -> leak /\ UNCHANGED fault
               [] early -> CallFops(cc, leak)
               [] ~rv_ok -> CallFops(cc, OpenError(fi, entry))
               [] OTHER ->
                    CallFops(cc, /\ filetab' = [filetab EXCEPT ![fi] = [entry EXCEPT !.count = @ + 1]]
                                 /\ fuse' = [fuse EXCEPT ![cc].inuse = @ + 1]
                                 /\ held' = held \cup {fi})
  /\ UNCHANGED <<fusetab, fs, um, fini, mounts>>

(***************************************************************************)
(* umfuse_close: the context is filetab[fd]->context; fusetab[cc] is     *)
(* dereferenced without a test (NULL after an umount).  flush, count--,  *)
(* and at 0 inuse--, release and delfiletab.                              *)
(***************************************************************************)
Close(fd) ==
  /\ Idle /\ fd \in held
  /\ LET cc == filetab[fd].context IN
       /\ cur' = cc
       /\ IF fusetab[cc] = NULL
            THEN fault' = "null_ctx" /\ UNCHANGED <<filetab, fuse, held>>
            ELSE CallFops(cc, /\ filetab' = delfiletab(fd)
                              /\ fuse' = [fuse EXCEPT ![cc].inuse = @ - 1]
                              /\ held' = held \ {fd})
  /\ UNCHANGED <<fusetab, fs, um, fini, mounts>>

(* umfuse_stat, lstat, readlink, access, utime(s), ...: searchcontext    *)
(* (SUBSTR) sets umfuse_current_context and one fops entry is called.   *)
PathOp(p) ==
  /\ Idle /\ fuse_path(p)
  /\ LET cc == searchcontext(p, FALSE) IN
       cur' = cc /\ CallFops(cc, UNCHANGED <<filetab, fuse, held>>)
  /\ UNCHANGED <<fusetab, fs, um, fini, mounts>>

(* umfuse_mkdir, rmdir, chmod, chown, unlink: the same sequence; the     *)
(* contents of the filesystem they change are not modelled.  mknod is    *)
(* commented out and lchown has no body.                                 *)
PathModOp(p) ==
  /\ {"mkdir", "rmdir", "chown", "chmod", "unlink"} \subseteq syscall
  /\ Idle /\ fuse_path(p)
  /\ LET cc == searchcontext(p, FALSE) IN
       cur' = cc /\ CallFops(cc, TRUE)
  /\ UNCHANGED <<fusetab, fuse, fs, um, fini, filetab, held, mounts>>

(* umfuse_truncate: as PathModOp, with assert(cc >= 0) after the debug   *)
(* test that already read fusetab[cc]; the checkpath has made cc >= 0.   *)
Truncate(p) ==
  /\ "truncate" \in syscall /\ Idle /\ fuse_path(p)
  /\ cur' = searchcontext(p, FALSE)
  /\ CallFops(cur', TRUE)
  /\ UNCHANGED <<fusetab, fuse, fs, um, fini, filetab, held, mounts>>

(* umfuse_link: the service was chosen by newpath (choice_link2) and     *)
(* wrap_in_link refuses with EXDEV an oldpath that another service       *)
(* claims, so both paths lie under umfuse mounts, possibly different    *)
(* ones; cc is newpath's mount, and both paths are unwrapped with it.   *)
Link(o, n) ==
  /\ "link" \in syscall /\ Idle /\ fuse_path(n) /\ fuse_path(o)
  /\ cur' = searchcontext(n, FALSE)
  /\ CallFops(cur', TRUE)
  /\ UNCHANGED <<fusetab, fuse, fs, um, fini, filetab, held, mounts>>

(* umfuse_symlink: chosen by newpath with no test of oldpath             *)
(* (wrap_in_symlink), so oldpath may lie outside every mount; it is      *)
(* passed to fops.symlink as is.                                         *)
Symlink(o, n) ==
  /\ "symlink" \in syscall /\ Idle /\ fuse_path(n)
  /\ cur' = searchcontext(n, FALSE)
  /\ CallFops(cur', TRUE)
  /\ UNCHANGED <<fusetab, fuse, fs, um, fini, filetab, held, mounts>>

(* umfuse_read, and umfuse_write when it is installed: the context of   *)
(* an open file, with fusetab[cc] dereferenced as in close.             *)
FdOp(fd) ==
  /\ "read" \in syscall
  /\ Idle /\ fd \in held
  /\ LET cc == filetab[fd].context IN
       /\ cur' = cc
       /\ IF fusetab[cc] = NULL
            THEN fault' = "null_ctx"
            ELSE CallFops(cc, TRUE)
  /\ UNCHANGED <<fusetab, fuse, fs, um, fini, filetab, held, mounts>>

(* umfuse_fstat, fstat64: the same sequence through fops.getattr, with  *)
(* assert(cc >= 0) before it; stat2stat64 only copies the result.       *)
FdStat(fd) ==
  /\ Idle /\ fd \in held
  /\ cur' = filetab[fd].context
  /\ IF fusetab[cur'] = NULL THEN fault' = "null_ctx" ELSE CallFops(cur', TRUE)
  /\ UNCHANGED <<fusetab, fuse, fs, um, fini, filetab, held, mounts>>

(* um_getdents / um_getdents64: no test that fd is a directory; the      *)
(* first call fills dirinfo through fops.getdir, with fusetab[cc]        *)
(* dereferenced untested and umfuse_current_context left as the last     *)
(* call set it; a getdir error leaves dirinfo NULL and the call returns  *)
(* 0.  The copy loop is Getdents of UmfuseDir.                           *)
um_getdents(fd) ==
  /\ Idle /\ fd \in held
  /\ LET fi == filetab[fd]
         cc == fi.context
         Copy(dir, count, layout) ==
           LET r == Getdents(dir, fi.dirpos, count, layout)
           IN filetab' = [filetab EXCEPT ![fd] =
                [fi EXCEPT !.dirinfo = dir, !.dirpos = r.dirpos,
                           !.got = @ + Len(r.out), !.eof = (r.ret = 0)]]
     IN \E count \in Counts, layout \in {"64", "32"}, getdir_ok \in BOOLEAN :
          CASE fi.dirinfo # <<>> -> Copy(fi.dirinfo, count, layout) /\ UNCHANGED fault
            [] fusetab[cc] = NULL -> fault' = "null_ctx" /\ UNCHANGED filetab
            [] OTHER -> CallFops(cc, Copy(umfilldirinfo(Listing, getdir_ok), count, layout))
  /\ UNCHANGED <<fusetab, fuse, fs, um, cur, fini, held, mounts>>

(* umfuse_fsync: fsync has another meaning in fuse, so no fops entry is  *)
(* called; the context is set and fusetab[cc]->fuse->flags read.          *)
Fsync(fd) ==
  /\ "fsync" \in syscall /\ Idle /\ fd \in held
  /\ LET cc == filetab[fd].context IN
       /\ cur' = cc
       /\ IF fusetab[cc] = NULL THEN fault' = "null_ctx" ELSE UNCHANGED fault
  /\ UNCHANGED <<fusetab, fuse, fs, um, fini, filetab, held, mounts>>

(* umfuse_lseek with SEEK_END (through lseek or _llseek): the size comes  *)
(* from fusetab[fd]->fuse->fops.getattr, the slot indexed by the file    *)
(* descriptor instead of the file's context; umfuse_current_context is   *)
(* not set.  SEEK_SET and SEEK_CUR only move pos, which is not modelled. *)
umfuse_lseek(fd) ==
  /\ Idle /\ fd \in held
  /\ CASE fd \notin Ctx -> fault' = "bad_index"
       [] fusetab[fd] = NULL -> fault' = "null_ctx"
       [] OTHER -> CallFops(fd, TRUE)
  /\ UNCHANGED <<fusetab, fuse, fs, um, cur, fini, filetab, held, mounts>>

LseekEnd(fd) == "lseek" \in syscall /\ umfuse_lseek(fd)

(* umfuse__llseek: a NULL result (EFAULT) or a non-zero offset_high      *)
(* (EINVAL) returns before anything is read; otherwise umfuse_lseek with  *)
(* offset_low, whose -1 is turned into errno 1.                           *)
umfuse__llseek(fd) == "_llseek" \in syscall /\ umfuse_lseek(fd)

(* umfuse_utime and umfuse_utimes: the context is not searched for the   *)
(* path but read from umfuse_current_context.  The service is chosen by  *)
(* its checkpath, fuse_path, which has just set that variable to         *)
(* searchcontext(path, SUBSTR), so the call goes to the path's own mount *)
(* and assert(cc >= 0) holds.                                            *)
Utime(p) ==
  /\ Idle /\ fuse_path(p)
  /\ cur' = searchcontext(p, FALSE)
  /\ CallFops(cur', TRUE)
  /\ UNCHANGED <<fusetab, fuse, fs, um, fini, filetab, held, mounts>>

-----------------------------------------------------------------------------
(***************************************************************************)
(* The filesystem thread of slot c: startmain calls the filesystem's     *)
(* main.  "fail": main returns non-zero before fuse_main, and            *)
(* umfuse_abort sets inuse = FUSE_ABORT.  "fuse_main": fuse_main_real    *)
(* calls fuse_new.  "badops": the filesystem was built for a different  *)
(* fuse_operations size.                                                 *)
(***************************************************************************)
(* fuse_mount returns umfuse_current_context; while umfuse_mount waits  *)
(* for the loop no other call changes it, so it is c.                    *)
fuse_mount == cur

(* fuse_new refuses an fd other than umfuse_current_context and a        *)
(* fuse_operations of another size; otherwise fops is copied and filled. *)
fuse_new(fd, main) == fd = cur /\ main = "fuse_main"

(* fuse_main_real: fuse_new(fuse_mount(), op, op_size), then fuse_loop   *)
(* (FsSignal and the steps after it).                                   *)
fuse_main_real(main) ==
  LET fd == fuse_mount IN
  /\ fuse' = [fuse EXCEPT ![fd].fops = fuse_new(fd, main)]
  /\ fs' = [fs EXCEPT ![fd] = "loop_signal"]

FsStart(c) ==
  /\ fs[c] = "start"
  /\ \E main \in FsMains :
       IF main = "fail"
         THEN fuse' = [fuse EXCEPT ![c].inuse = FUSE_ABORT] /\ fs' = [fs EXCEPT ![c] = "abort_signal"]
         ELSE fuse_main_real(main)
  /\ UNCHANGED <<fusetab, um, cur, fini, filetab, held, mounts, fault>>

(* lock condition_mutex, signal startloop, unlock (fuse_loop and         *)
(* umfuse_abort).  fuse_loop(NULL) then returns; abort returns to        *)
(* startmain, which exits.                                               *)
FsSignal(c) ==
  /\ fs[c] \in {"loop_signal", "abort_signal"}
  /\ SignalStartloop
  /\ fs' = [fs EXCEPT ![c] = IF fs[c] = "loop_signal" /\ fuse[c].fops
                               THEN "loop_set0" ELSE "done"]
  /\ UNCHANGED <<fusetab, fuse, cur, fini, filetab, held, mounts, fault>>

(* f->inuse = 0, outside any mutex. *)
FsLoopReset(c) ==
  /\ fs[c] = "loop_set0"
  /\ fuse' = [fuse EXCEPT ![c].inuse = 0] /\ fs' = [fs EXCEPT ![c] = "loop_lock"]
  /\ UNCHANGED <<fusetab, um, cur, fini, filetab, held, mounts, fault>>

(* lock endmutex; wait on endloop unless inuse == EXITING. *)
FsLoopWait(c) ==
  /\ fs[c] = "loop_lock"
  /\ fs' = [fs EXCEPT ![c] = IF fuse[c].inuse # EXITING THEN "loop_wait" ELSE "loop_ret"]
  /\ UNCHANGED <<fusetab, fuse, um, cur, fini, filetab, held, mounts, fault>>

(* unlock, fuse_loop and main return 0, startmain exits the thread. *)
FsExit(c) ==
  /\ fs[c] = "loop_ret" /\ fs' = [fs EXCEPT ![c] = "done"]
  /\ UNCHANGED <<fusetab, fuse, um, cur, fini, filetab, held, mounts, fault>>

-----------------------------------------------------------------------------
UmStep == MountWait \/ MountCheck \/ MountJoin
            \/ UmountSignal \/ UmountJoin \/ FiniStep

FsStep(c) == FsStart(c) \/ FsSignal(c) \/ FsLoopReset(c) \/ FsLoopWait(c)
               \/ FsExit(c)

Next ==
  \/ \E p \in Paths : Mount(p) \/ Umount(p) \/ PathOp(p) \/ Utime(p)
  \/ \E p \in Paths : PathModOp(p) \/ Truncate(p)
  \/ \E o, n \in Paths : Link(o, n) \/ Symlink(o, n)
  \/ \E p \in Paths, fl \in OpenFlags : Open(p, fl)
  \/ \E fd \in Fds : Close(fd) \/ FdOp(fd) \/ FdStat(fd) \/ um_getdents(fd)
                       \/ Fsync(fd) \/ LseekEnd(fd) \/ umfuse__llseek(fd)
  \/ FiniStart
  \/ UmStep
  \/ \E c \in Ctx : FsStep(c)

Spec == Init /\ [][Next]_vars

(* The OS scheduler runs every runnable thread; the umview thread runs   *)
(* a system call it has started to its end.  New calls are not forced.  *)
FairSpec == Spec /\ WF_vars(UmStep) /\ \A c \in Ctx : WF_vars(FsStep(c))

-----------------------------------------------------------------------------
(* Between system calls, every mounted slot has a live struct fuse that  *)
(* has been through fuse_new: a mount that succeeds leaves a filesystem   *)
(* whose calls reach its operations, and one that cannot be used fails    *)
(* with an error (spec.md, service-internal errors), as the abort path   *)
(* of umfuse_mount does with EIO.  A main whose fuse_new is refused       *)
(* ("badops") still reaches fuse_loop(NULL), which signals startloop.    *)
MountedFsInitialised ==
  Idle => \A c \in Ctx : fusetab[c] # NULL => fuse[c] # NULL /\ fuse[c].fops

(* The open file table holds exactly the files open in the traced        *)
(* processes: every path of umfuse_open that fails gives its slot back.  *)
FiletabOnlyHeld ==
  {fd \in Fds : filetab[fd] # NULL} = held

(* A process that reads an open directory with getdents and getdents64, *)
(* in any mix and with any buffer longer than every record, gets each    *)
(* record getdir produced at most once, and a call returns 0 only after  *)
(* it got all of them: dirpos carries the position across calls and the  *)
(* tail test stops the copy loop after one round of the circular list.   *)
(* A buffer that holds the next record only exactly returns 0 early: the *)
(* copy loop tests reclen < count strictly (umfuse.c:760, 800).          *)
GetdentsListsOnce ==
  \A fd \in Fds : filetab[fd] # NULL =>
    LET fi == filetab[fd] IN
      /\ fi.got <= Len(fi.dirinfo)
      /\ fi.eof => fi.got = Len(fi.dirinfo)

(* Between system calls, a slot that is not mounted has no filesystem    *)
(* thread and no struct fuse: umount and the abort path of mount join    *)
(* the thread before they return.                                        *)
NoThreadOfUnmounted ==
  Idle => \A c \in Ctx : fusetab[c] = NULL => fs[c] = "none" /\ fuse[c] = NULL

(* The filesystem thread of a mounted, initialised filesystem stays in   *)
(* fuse_loop until umount: it leaves only when inuse is EXITING.         *)
FsThreadLivesWhileMounted ==
  \A c \in Ctx : fusetab[c] # NULL /\ fuse[c].fops => fs[c] \notin {"loop_ret", "done"}

(* Every mount and umount the umview thread starts returns.              *)
UmCallsReturn ==
  um \notin {"idle", "finished"} ~> um \in {"idle", "finished"}

(* When the destructor fini has run, every filesystem is unmounted and   *)
(* its thread joined.                                                    *)
FiniUnmountsAll ==
  um = "finished" => \A c \in Ctx : fusetab[c] = NULL /\ fs[c] = "none"
=============================================================================
