------------------------------ MODULE MCScmap ------------------------------
EXTENDS Scmap

(* Syscall numbers an entry may hold, as on x86_64: -1 is               *)
(* __NR_doesnotexist, 0 is __NR_read, 1 a kernel call, 6 an um-specific  *)
(* call.                                                                   *)
NosX86_64 == {-1, 0, 1, 6}
=============================================================================
