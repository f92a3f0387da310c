------------------------------ MODULE MCUmfuse ------------------------------
EXTENDS Umfuse

(* Two mount points, one of them with a path below it. *)
MCPaths == {"/a", "/a/b", "/c"}
MCAncestors == [p \in MCPaths |-> IF p = "/a/b" THEN {"/a", "/a/b"} ELSE {p}]

(* A directory of two names: dirent64 records of 40 and 48 bytes; a   *)
(* buffer of 49 bytes holds one of them, one of 100 both.             *)
MCListing == <<12, 20>>
=============================================================================
