---------------------------- MODULE MCPcbStore ----------------------------
(* Model-checking instance of PcbStore: three thread ids, a table that     *)
(* starts with one pcb and may double twice, and every clone flag set.    *)
EXTENDS PcbStore

MCProcs == {"p1", "p2", "p3"}
MCCloneFlags == {{}, {"FS"}, {"PARENT"}, {"FS", "PARENT"}}
=============================================================================
