------------------------------- MODULE Scmap -------------------------------
(***************************************************************************)
(* The syscall map of um-viewos (trunk/xmview-os/um-viewos/scmap.c and    *)
(* scdtab_init in sctab.c).  scmap[] lists, per entry, the syscall number *)
(* it handles; init_scmap builds the inverse tables scremap (kernel       *)
(* syscalls 1 .. MAXSC-1) and scuremap (um-specific calls BASEUSC ..       *)
(* BASEUSC+MAXUSC-1), both static arrays and so zero at start, and uscno   *)
(* reads them back (-1 outside both ranges).  scdtab_init then installs   *)
(* dsys_megawrap for every entry whose number is not negative, and        *)
(* dsys_commonwrap uses uscno(sc_number) as the index into scmap[].       *)
(*                                                                         *)
(* The table is any assignment of numbers to SIZESCMAP entries; the       *)
(* numbers come from ScNos (-1 is __NR_doesnotexist, used for calls the   *)
(* architecture lacks).  Initialisation is one step per loop iteration.   *)
(***************************************************************************)
EXTENDS Integers, FiniteSets

CONSTANTS
  SIZESCMAP,   \* entries of scmap[]
  MAXSC,       \* size of scremap
  BASEUSC,     \* first um-specific call number
  MAXUSC,      \* size of scuremap
  ScNos        \* syscall numbers the table may hold

Entries == 0 .. SIZESCMAP - 1

VARIABLES
  scmap,       \* the scno column of scmap[]
  i,           \* loop index of init_scmap
  scremap, scuremap,
  registered,  \* numbers given dsys_megawrap by setcdtab
  done         \* scdtab_init has returned

vars == <<scmap, i, scremap, scuremap, registered, done>>

TypeOK ==
  /\ scmap \in [Entries -> ScNos] /\ i \in 0 .. SIZESCMAP
  /\ scremap \in [0 .. MAXSC - 1 -> Entries]
  /\ scuremap \in [0 .. MAXUSC - 1 -> Entries]
  /\ registered \subseteq ScNos /\ done \in BOOLEAN

Init ==
  /\ scmap \in [Entries -> ScNos]
  /\ i = 0
  /\ scremap = [x \in 0 .. MAXSC - 1 |-> 0]
  /\ scuremap = [x \in 0 .. MAXUSC - 1 |-> 0]
  /\ registered = {}
  /\ done = FALSE

(* One iteration of the init_scmap loop. *)
init_scmap_step(scno) ==
  /\ scremap' = IF scno > 0 /\ scno < MAXSC THEN [scremap EXCEPT ![scno] = i] ELSE scremap
  /\ scuremap' = IF ~(scno > 0 /\ scno < MAXSC) /\ scno >= BASEUSC /\ scno < BASEUSC + MAXUSC
                   THEN [scuremap EXCEPT ![scno - BASEUSC] = i] ELSE scuremap

InitScmap ==
  /\ i < SIZESCMAP
  /\ init_scmap_step(scmap[i])
  /\ i' = i + 1
  /\ UNCHANGED <<scmap, registered, done>>

(* The rest of scdtab_init: setcdtab(scno, dsys_megawrap) for every entry *)
(* with scno >= 0.                                                        *)
ScdtabInit ==
  /\ i = SIZESCMAP /\ ~done
  /\ registered' = {scmap[e] : e \in Entries} \cap {n \in ScNos : n >= 0}
  /\ done' = TRUE
  /\ UNCHANGED <<scmap, i, scremap, scuremap>>

uscno(scno) ==
  CASE scno > 0 /\ scno < MAXSC                        -> scremap[scno]
    [] scno >= BASEUSC /\ scno < BASEUSC + MAXUSC      -> scuremap[scno - BASEUSC]
    [] OTHER                                           -> -1

Next == InitScmap \/ ScdtabInit

Spec == Init /\ [][Next]_vars

-----------------------------------------------------------------------------
(* Every syscall number scdtab_init hands to dsys_megawrap is mapped by    *)
(* uscno to an entry of scmap[] that declares that number, so the index   *)
(* dsys_commonwrap computes for it (sctab.c, usc = uscno(sc_number)) is a *)
(* valid index of the entry for that call.                                *)
DispatchIndexValid ==
  done =>
    \A sc \in registered : uscno(sc) \in Entries /\ scmap[uscno(sc)] = sc

=============================================================================
