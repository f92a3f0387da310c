--------------------------- MODULE SyscallAbstract ---------------------------
(***************************************************************************)
(* What the dispatch core promises about each traced thread's system      *)
(* calls (spec.md 4.4 and 4.5), without pcbs, paths, services or ioctls: *)
(*                                                                         *)
(*   ENTRY_PENDING -> (REAL | FAKE | MODIFIED | SUSPENDED)                 *)
(*   SUSPENDED --wakeup--> decided again, at the entry phase               *)
(*   MODIFIED -> the kernel runs the call -> EXIT_PENDING -> COMPLETED     *)
(*                                                                         *)
(* A REAL call is left to the kernel untouched and a FAKE call never       *)
(* reaches it: for both the tracer is done at once.  "how" is the outcome *)
(* the call in progress was given; it is fixed until the call completes.  *)
(***************************************************************************)
CONSTANTS Procs, Root

VARIABLES st, how

avars == <<st, how>>

States == {"unborn", "idle", "entry_pending", "suspended", "in_kernel",
           "exit_pending", "dead"}
Outcomes == {"REAL", "FAKE", "MODIFIED", "SUSPENDED"}

Init ==
  /\ st = [p \in Procs |-> IF p = Root THEN "idle" ELSE "unborn"]
  /\ how = [p \in Procs |-> "none"]

(* The thread enters a system call. *)
Issue(p) ==
  /\ st[p] = "idle"
  /\ st' = [st EXCEPT ![p] = "entry_pending"]
  /\ UNCHANGED how

(* The entry phase decides the outcome; a parked call is decided again    *)
(* when its wakeup fires.                                                 *)
Decide(p) ==
  /\ st[p] \in {"entry_pending", "suspended"}
  /\ \E o \in Outcomes :
       /\ st' = [st EXCEPT ![p] = CASE o \in {"REAL", "FAKE"} -> "idle"
                                    [] o = "MODIFIED"        -> "in_kernel"
                                    [] o = "SUSPENDED"       -> "suspended"]
       /\ how' = [how EXCEPT ![p] = IF o \in {"REAL", "FAKE"} THEN "none" ELSE o]

(* The kernel finishes a modified call and reports its exit. *)
KernelReturn(p) ==
  /\ st[p] = "in_kernel"
  /\ st' = [st EXCEPT ![p] = "exit_pending"]
  /\ UNCHANGED how

(* The exit phase post-processes the call and lets the thread go. *)
Complete(p) ==
  /\ st[p] = "exit_pending"
  /\ st' = [st EXCEPT ![p] = "idle"]
  /\ how' = [how EXCEPT ![p] = "none"]

Spawn(p) ==
  /\ st[p] = "unborn"
  /\ \E q \in Procs : st[q] \notin {"unborn", "dead"}
  /\ st' = [st EXCEPT ![p] = "idle"]
  /\ UNCHANGED how

Terminate(p) ==
  /\ st[p] \notin {"unborn", "dead"}
  /\ st' = [st EXCEPT ![p] = "dead"]
  /\ how' = [how EXCEPT ![p] = "none"]

Next ==
  \E p \in Procs :
    Issue(p) \/ Decide(p) \/ KernelReturn(p) \/ Complete(p) \/ Spawn(p)
    \/ Terminate(p)

Spec == Init /\ [][Next]_avars

=============================================================================
