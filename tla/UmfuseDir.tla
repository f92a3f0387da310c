------------------------------ MODULE UmfuseDir ------------------------------
(***************************************************************************)
(* umfuse's directory reading (branches/UMVIEWOS/xmview-os/umfuse/         *)
(* umfuse.c): the filesystem's getdir callback hands the names to          *)
(* umfusefilldir, which appends one record per name to a circular list    *)
(* whose tail is filetab[fd]->dirinfo; um_getdents and um_getdents64 then *)
(* copy records from the entry after filetab[fd]->dirpos into the         *)
(* caller's buffer while they fit, and keep dirpos for the next call.     *)
(*                                                                         *)
(* A name is its length (all the records depend on); a list position is   *)
(* the 1-based index of its record, the tail being the last, and dirpos   *)
(* NULL is 0.                                                             *)
(***************************************************************************)
EXTENDS Integers, Sequences

CONSTANTS
  WORDLEN,     \* sizeof(long) of the build
  Listing,     \* the lengths of the names getdir reports, in its order
  Counts       \* buffer sizes the callers of getdents pass

WORDALIGN(x) == ((x + WORDLEN) \div WORDLEN) * WORDLEN

(* sizeof(__u64)+sizeof(__s64)+sizeof(unsigned short)+sizeof(unsigned    *)
(* char), and sizeof(long)+sizeof(__kernel_off_t)+sizeof(unsigned short). *)
SIZEDIRENT64NONAME == 8 + 8 + 2 + 1
SIZEDIRENT32NONAME == WORDLEN + WORDLEN + 2

(* umfusefilldir: the record made for a name of length n at list offset  *)
(* off (the offset field of the fuse_dirhandle).                         *)
umfusefilldir(n, off) ==
  [reclen |-> WORDALIGN(SIZEDIRENT64NONAME + n + 1),
   reclen32 |-> WORDALIGN(SIZEDIRENT32NONAME + n + 1),
   off |-> off + WORDALIGN(12 + n)]

(* umfilldirinfo: getdir calls umfusefilldir once per name; every record *)
(* is appended after the tail.  An empty directory, or a getdir that     *)
(* fails, leaves dirinfo NULL (<<>>).                                    *)
RECURSIVE FillFrom(_, _)
FillFrom(names, off) ==
  IF names = <<>> THEN <<>>
  ELSE LET r == umfusefilldir(Head(names), off)
       IN <<r>> \o FillFrom(Tail(names), r.off)

umfilldirinfo(names, ok) == IF ok THEN FillFrom(names, 0) ELSE <<>>

(* The record after position p in the circular list of n records. *)
NextPos(p, n) == (p % n) + 1

(* The record size of r in the dirent layout of the call: struct        *)
(* dirent64 for um_getdents64, struct dirent for um_getdents.            *)
RecLen(r, layout) == IF layout = "64" THEN r.reclen ELSE r.reclen32

(* The copy loop of um_getdents(64): while the record after dirpos fits  *)
(* strictly below count, advance dirpos and copy it; last is set when    *)
(* dirpos reaches the tail.  Returns the new dirpos, the bytes copied     *)
(* and the records copied.                                               *)
RECURSIVE CopyLoop(_, _, _, _, _, _, _)
CopyLoop(dir, layout, p, last, curoffs, count, out) ==
  LET q == NextPos(p, Len(dir))
      size == RecLen(dir[q], layout)
  IN IF ~last /\ curoffs + size < count
     THEN CopyLoop(dir, layout, q, q = Len(dir), curoffs + size, count,
                   Append(out, dir[q]))
     ELSE [dirpos |-> p, ret |-> curoffs, out |-> out]

(* Mutant: a dirpos left at the tail is not recognised as the end. *)
Getdents_nolast(dir, dirpos, count, layout) ==
  IF dir = <<>> THEN [dirpos |-> dirpos, ret |-> 0, out |-> <<>>]
  ELSE IF dirpos = 0 THEN CopyLoop(dir, layout, Len(dir), FALSE, 0, count, <<>>)
  ELSE CopyLoop(dir, layout, dirpos, FALSE, 0, count, <<>>)

(* One call of um_getdents64 (layout "64") or um_getdents (layout "32") *)
(* on an open directory with list dir and position dirpos.  A NULL     *)
(* dirpos starts before the first record; a dirpos at                   *)
(* the tail means every record has been returned.                       *)
Getdents(dir, dirpos, count, layout) ==
  IF dir = <<>> THEN [dirpos |-> dirpos, ret |-> 0, out |-> <<>>]
  ELSE IF dirpos = 0 THEN CopyLoop(dir, layout, Len(dir), FALSE, 0, count, <<>>)
  ELSE CopyLoop(dir, layout, dirpos, dirpos = Len(dir), 0, count, <<>>)

====
