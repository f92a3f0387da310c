------------------------------- MODULE Umpyew -------------------------------
(***************************************************************************)
(* The umpyew service module (xmview-os/umpyew/umpyew.c): system calls     *)
(* and service hooks handed to a Python module.  What can go wrong in     *)
(* this code is the ownership of Python objects, so the model keeps       *)
(* exactly the Python C-API calls each C function makes, in their order,  *)
(* and the reference counts they change:                                  *)
(*                                                                         *)
(*   new       PyTuple_New, PyDict_New, PyString_FromString, PyInt_FromLong*)
(*             (a new reference in a local variable)                      *)
(*   newinto   PyTuple_SET_ITEM(c, i, PyX_FromY(..)): c takes the new ref  *)
(*   steal     PyTuple_SET_ITEM(c, i, v): c takes the reference v owned   *)
(*   dictset   PyDict_SetItemString(c, k, v): c takes a new reference     *)
(*   dictsetnew  the same with a new object as the value                  *)
(*   incref / decref / xdecref   Py_INCREF / Py_DECREF / Py_XDECREF       *)
(*   call      PyObject_Call, PyObject_CallObject, PyImport_Import: NULL   *)
(*             when Python raises, else a new reference                   *)
(*   getattr   PyObject_GetAttrString: NULL, or a new reference to a      *)
(*             callable, to None, or to something else                    *)
(*   use       a read through the pointer (PyTuple_GetItem and the like)  *)
(*   assign    a store of the pointer into the global struct ps           *)
(*   jnull, jncall, jany, ret, register   control flow and add_service    *)
(*                                                                         *)
(* A decref that reaches zero frees the object and drops every reference *)
(* it holds.  The umview core calls the service's functions one at a     *)
(* time on its single thread, after _um_mod_init has run.                 *)
(***************************************************************************)
EXTENDS Integers, Sequences, FiniteSets, FiniteSetsExt

CONSTANTS
  Funcs,      \* service functions the core may call (see Progs)
  PyFails,    \* Python code may raise: calls can return NULL
  AttrKinds,  \* what PyObject_GetAttrString may find
  MaxObj,     \* bound on the number of live Python objects
  NULL

ASSUME AttrKinds \subseteq {"missing", "callable", "none", "other"}

Obj == 1 .. MaxObj
Kinds == {"plain", "callable", "none", "other"}
Locals == {"pArg", "pKw", "pRetVal", "pCmdArgs", "pStatDict", "pName",
           "pModule", "pTmpFunc", "pTmpObj", "pTmpDict"}
Globals == {"pEmptyTuple", "ps_ctl", "ps_checkfun", "ps_syscall"}
Faults == {"double_free", "use_after_free", "null_deref", "no_memory"}

VARIABLES
  fn,     \* the C function running, or "none" between calls
  pc,     \* index of its next instruction
  loc,    \* local and global pointer variables: an object or NULL
  h,      \* the Python heap: objs, rc, holds, kind, freed, fault
  last,   \* the function that returned last
  leak,   \* objects it left allocated and unreachable from the globals
  added   \* add_service(&s) has run

vars == <<fn, pc, loc, h, last, leak, added>>

-----------------------------------------------------------------------------
(* One instruction of a function body. *)
I(op, a, b) == [op |-> op, a |-> a, b |-> b]
New(v) == I("new", v, "")
NewInto(c) == I("newinto", c, "")
Steal(c, v) == I("steal", c, v)
DictSet(c, v) == I("dictset", c, v)
DictSetNew(c) == I("dictsetnew", c, "")
Incref(v) == I("incref", v, "")
Decref(v) == I("decref", v, "")
XDecref(v) == I("xdecref", v, "")
Call(v, f) == I("call", v, f)           \* v := f(...), f a pointer variable
GetAttr(v) == I("getattr", v, "")
Use(v) == I("use", v, "")
Assign(g, v) == I("assign", g, v)
JNull(v, off) == I("jnull", v, off)       \* if (v == NULL) skip off - 1 instructions
JNCall(v, off) == I("jncall", v, off)     \* if (!v || !PyCallable_Check(v))
JAny(off) == I("jany", "", off)           \* a test on Python state not modelled
Ret == I("ret", "", "")
Register == I("register", "", "")

-----------------------------------------------------------------------------
(* The heap.  h.objs are the live objects, h.freed the freed ones that a *)
(* pointer may still name; an id in neither is free.                      *)
FreeIds == Obj \ (h.objs \cup h.freed)
NewId == Min(FreeIds)

Alloc(hp, o, k, n) ==
  [hp EXCEPT !.objs = @ \cup {o}, !.rc[o] = n, !.holds[o] = {},
             !.kind[o] = k, !.freed = @ \ {o}]

(* What a read through pointer value o finds wrong, or NULL. *)
Bad(hp, o) ==
  IF o = NULL THEN "null_deref" ELSE IF o \in hp.freed THEN "use_after_free" ELSE NULL

Fail(hp, f) == [hp EXCEPT !.fault = f]

(* Py_DECREF: at zero the object is freed (its dealloc) and every         *)
(* reference it holds is dropped in turn.                                *)
RECURSIVE DecrefObj(_, _), DecrefAll(_, _)
DecrefObj(hp, o) ==
  IF o \in hp.freed THEN Fail(hp, "double_free")
  ELSE IF hp.rc[o] > 1 THEN [hp EXCEPT !.rc[o] = @ - 1]
  ELSE DecrefAll([hp EXCEPT !.rc[o] = 0, !.objs = @ \ {o}, !.freed = @ \cup {o}],
                 hp.holds[o])

DecrefAll(hp, S) ==
  IF S = {} THEN hp
  ELSE LET o == CHOOSE x \in S : TRUE IN DecrefAll(DecrefObj(hp, o), S \ {o})

(* Objects reachable from the pointers in roots. *)
Reachable(hp, roots) ==
  LET R[n \in 0 .. MaxObj] ==
        IF n = 0 THEN roots
        ELSE LET prev == R[n - 1] IN prev \cup UNION {hp.holds[o] : o \in prev}
  IN R[MaxObj]

-----------------------------------------------------------------------------
(* The C functions, as the Python C-API calls they make.                   *)

(* PYIN(type, cname, argc): borrow the (function, kwargs) pair registered *)
(* for cname from ps.syscall and make the argument tuple.                 *)
PYIN == << Use("ps_syscall"), New("pArg") >>

(* PYARG(argn, PyX_FromY(..)) for each of n arguments. *)
PYARGS(n) == [k \in 1 .. n |-> NewInto("pArg")]

(* Mutant: PYOUT without Py_DECREF(pArg). *)
PYOUT_nodecref == << Call("pRetVal", "ps_syscall"), JNull("pRetVal", 3),
                     Use("pRetVal"), Decref("pRetVal") >>

(* PYOUT: call, drop the arguments, read the result tuple and drop it. *)
PYOUT == << Call("pRetVal", "ps_syscall"), Decref("pArg"), JNull("pRetVal", 3),
            Use("pRetVal"), Decref("pRetVal") >>

(* umpyew_open, _close, _access, _mkdir, ..., _symlink: n arguments. *)
Wrap(n) == PYIN \o PYARGS(n) \o PYOUT \o << Ret >>

(* Mutant: UMPYEW_STATFUNC without the Py_INCREF(pStatDict). *)
Stat_noincref == << New("pStatDict") >> \o PYIN \o PYARGS(1)
                 \o << Steal("pArg", "pStatDict") >> \o PYOUT
                 \o << JNull("pRetVal", 3), JAny(2), Use("pStatDict"), Ret >>

(* UMPYEW_STATFUNC: the second argument is the dictionary Python fills in; *)
(* the stat fields are read from it after the call when retval == 0.      *)
Stat == << New("pStatDict") >> \o PYIN \o PYARGS(1)
          \o << Incref("pStatDict"), Steal("pArg", "pStatDict") >> \o PYOUT
          \o << JNull("pRetVal", 3), JAny(2), Use("pStatDict"), Ret >>

(* checkfun for CHECKPATH, CHECKSOCKET, CHECKFSTYPE, CHECKSC (one value *)
(* in the keyword dictionary), CHECKBINFMT (a 3-tuple) and an unknown type.*)
CheckTail == << Use("pEmptyTuple"), Call("pRetVal", "ps_checkfun"),
                JNull("pRetVal", 5), Use("pRetVal"), Decref("pArg"),
                Decref("pKw"), Decref("pRetVal"), Ret >>
CheckPath == << New("pKw"), New("pArg"), DictSet("pKw", "pArg") >> \o CheckTail
CheckBinfmt == << New("pKw"), New("pArg") >> \o PYARGS(3)
                 \o << DictSet("pKw", "pArg") >> \o CheckTail
CheckBad == << New("pKw"), Decref("pKw"), Ret >>

(* ctl for MC_PROC|MC_ADD (three command arguments), the three commands   *)
(* with one, and an unknown type.                                         *)
CtlBody(n) == << New("pArg"), NewInto("pArg"), NewInto("pArg"), New("pCmdArgs") >>
               \o [k \in 1 .. n |-> NewInto("pCmdArgs")]
               \o << Steal("pArg", "pCmdArgs"), Call("pRetVal", "ps_ctl"),
                     Decref("pCmdArgs"), Decref("pArg"), Decref("pRetVal"), Ret >>
CtlBad == << New("pArg"), Decref("pArg"), Ret >>

(* _um_mod_init, with one PYTHON_SYSCALL standing for the fourteen.  The  *)
(* jumps: 5 -> 25 no module, 7 -> 24 no modCtl, 9 -> 26 no modCheckFun,   *)
(* 12 and 14 -> 22 no usable attribute for the system call.              *)
(* Mutant: the temporary pair is released after it is stored in ps.     *)
PYTHON_SYSCALL_decref ==
  << JAny(11), GetAttr("pTmpFunc"), JNCall("pTmpFunc", 9), New("pTmpObj"),
     Steal("pTmpObj", "pTmpFunc"), New("pTmpDict"), DictSetNew("pTmpDict"),
     DictSetNew("pTmpDict"), Steal("pTmpObj", "pTmpDict"),
     Assign("ps_syscall", "pTmpObj"), Decref("pTmpObj") >>
PYTHON_SYSCALL ==
  << JAny(10), GetAttr("pTmpFunc"), JNCall("pTmpFunc", 8), New("pTmpObj"),
     Steal("pTmpObj", "pTmpFunc"), New("pTmpDict"), DictSetNew("pTmpDict"),
     DictSetNew("pTmpDict"), Steal("pTmpObj", "pTmpDict"),
     Assign("ps_syscall", "pTmpObj") >>
ModInit ==
  << New("pEmptyTuple"), New("pName"), Call("pModule", "pName"), Decref("pName"),
     JNull("pModule", 20), GetAttr("ps_ctl"), JNCall("ps_ctl", 17),
     GetAttr("ps_checkfun"), JNCall("ps_checkfun", 17),
     GetAttr("pTmpObj"), XDecref("pTmpObj") >>
  \o PYTHON_SYSCALL
  \o << Register, Ret,
        XDecref("ps_ctl"), Ret,
        Decref("ps_ctl"), XDecref("ps_checkfun"), Ret >>

SyscallFuncs == {"wrap1", "wrap2", "wrap3", "stat"}
WrapperFuncs == {"wrap1", "wrap2", "wrap3"}
ServiceFuncs == SyscallFuncs \cup
                {"checkpath", "checkbinfmt", "checkbad", "ctl3", "ctl1", "ctlbad"}

Prog(f) ==
  CASE f = "init"        -> ModInit
    [] f = "wrap1"       -> Wrap(1)
    [] f = "wrap2"       -> Wrap(2)
    [] f = "wrap3"       -> Wrap(3)
    [] f = "stat"        -> Stat
    [] f = "checkpath"   -> CheckPath
    [] f = "checkbinfmt" -> CheckBinfmt
    [] f = "checkbad"    -> CheckBad
    [] f = "ctl3"        -> CtlBody(3)
    [] f = "ctl1"        -> CtlBody(1)
    [] f = "ctlbad"      -> CtlBad

-----------------------------------------------------------------------------
(* Heap updates that stop at the first fault: once h.fault is set the C  *)
(* code has crashed and nothing else happens.                            *)
NewIdOr == IF FreeIds = {} THEN NULL ELSE NewId

Checked(hp, o) ==
  IF hp.fault # NULL \/ Bad(hp, o) = NULL THEN hp ELSE Fail(hp, Bad(hp, o))

Fresh(hp, k, n) ==
  IF hp.fault # NULL THEN hp
  ELSE IF FreeIds = {} THEN Fail(hp, "bound") ELSE Alloc(hp, NewId, k, n)

Hold(hp, c, o) == IF hp.fault # NULL THEN hp ELSE [hp EXCEPT !.holds[c] = @ \cup {o}]

IncRc(hp, o) == IF hp.fault # NULL THEN hp ELSE [hp EXCEPT !.rc[o] = @ + 1]

Released(hp, o) ==
  IF hp.fault # NULL THEN hp
  ELSE IF o = NULL THEN Fail(hp, "null_deref") ELSE DecrefObj(hp, o)

(* A call reads the callable and everything it holds. *)
Callable(hp, f) ==
  IF Bad(hp, f) # NULL THEN Fail(hp, Bad(hp, f))
  ELSE IF Reachable(hp, {f}) \cap hp.freed # {} THEN Fail(hp, "use_after_free")
  ELSE hp

Roots == {loc[g] : g \in Globals} \ {NULL}

-----------------------------------------------------------------------------
Init ==
  /\ fn = "init"
  /\ pc = 1
  /\ loc = [v \in Locals \cup Globals |-> NULL]
  /\ h = [objs |-> {}, freed |-> {}, rc |-> [o \in Obj |-> 0],
          holds |-> [o \in Obj |-> {}], kind |-> [o \in Obj |-> "plain"],
          fault |-> NULL]
  /\ last = "none"
  /\ leak = {}
  /\ added = FALSE

Running == fn # "none" /\ h.fault = NULL
Cur == Prog(fn)[pc]
X == loc[Cur.a]
Y == loc[Cur.b]

(* One action per kind of instruction. *)
Step(op) == Running /\ Cur.op = op /\ UNCHANGED <<fn, last, leak, added>>

DoNew ==
  /\ Step("new")
  /\ h' = Fresh(h, "plain", 1)
  /\ loc' = [loc EXCEPT ![Cur.a] = NewIdOr]
  /\ pc' = pc + 1

DoNewInto ==
  /\ Step("newinto")
  /\ h' = Hold(Fresh(Checked(h, X), "plain", 1), X, NewIdOr)
  /\ pc' = pc + 1
  /\ UNCHANGED loc

DoSteal ==
  /\ Step("steal")
  /\ h' = IF Y = NULL THEN Checked(h, X) ELSE Hold(Checked(h, X), X, Y)
  /\ pc' = pc + 1
  /\ UNCHANGED loc

DoDictSet ==
  /\ Step("dictset")
  /\ h' = IncRc(Hold(Checked(Checked(h, X), Y), X, Y), Y)
  /\ pc' = pc + 1
  /\ UNCHANGED loc

DoDictSetNew ==
  /\ Step("dictsetnew")
  /\ h' = Hold(Fresh(Checked(h, X), "plain", 2), X, NewIdOr)
  /\ pc' = pc + 1
  /\ UNCHANGED loc

DoIncref ==
  /\ Step("incref")
  /\ h' = IncRc(Checked(h, X), X)
  /\ pc' = pc + 1
  /\ UNCHANGED loc

DoDecref ==
  /\ Step("decref")
  /\ h' = Released(h, X)
  /\ pc' = pc + 1
  /\ UNCHANGED loc

DoXDecref ==
  /\ Step("xdecref")
  /\ h' = IF X = NULL THEN h ELSE Released(h, X)
  /\ pc' = pc + 1
  /\ UNCHANGED loc

(* The Python code raises (NULL) or returns a new reference. *)
DoCall ==
  /\ Step("call")
  /\ pc' = pc + 1
  /\ \/ /\ PyFails
        /\ h' = Callable(h, Y)
        /\ loc' = [loc EXCEPT ![Cur.a] = NULL]
     \/ /\ h' = Fresh(Callable(h, Y), "plain", 1)
        /\ loc' = [loc EXCEPT ![Cur.a] = NewIdOr]

DoGetAttr ==
  /\ Step("getattr")
  /\ pc' = pc + 1
  /\ \E k \in AttrKinds :
       IF k = "missing"
       THEN h' = Checked(h, loc["pModule"]) /\ loc' = [loc EXCEPT ![Cur.a] = NULL]
       ELSE /\ h' = Fresh(Checked(h, loc["pModule"]), k, 1)
            /\ loc' = [loc EXCEPT ![Cur.a] = NewIdOr]

DoUse ==
  /\ Step("use")
  /\ h' = Checked(h, X)
  /\ pc' = pc + 1
  /\ UNCHANGED loc

DoAssign ==
  /\ Step("assign")
  /\ loc' = [loc EXCEPT ![Cur.a] = Y]
  /\ pc' = pc + 1
  /\ UNCHANGED h

DoJNull ==
  /\ Step("jnull")
  /\ pc' = IF X = NULL THEN pc + Cur.b ELSE pc + 1
  /\ UNCHANGED <<loc, h>>

DoJNCall ==
  /\ Step("jncall")
  /\ h' = IF X = NULL THEN h ELSE Checked(h, X)
  /\ pc' = IF X = NULL \/ h.kind[X] # "callable" THEN pc + Cur.b ELSE pc + 1
  /\ UNCHANGED loc

DoJAny ==
  /\ Step("jany")
  /\ \/ pc' = pc + 1
     \/ pc' = pc + Cur.b
  /\ UNCHANGED <<loc, h>>

DoRegister ==
  /\ Running /\ Cur.op = "register"
  /\ added' = TRUE
  /\ pc' = pc + 1
  /\ UNCHANGED <<fn, loc, h, last, leak>>

(* Return: the locals go out of scope.  What the globals no longer reach  *)
(* is leaked; the model records it in leak and forgets it.               *)
DoRet ==
  /\ Running /\ Cur.op = "ret"
  /\ LET kept == Reachable(h, Roots) \cap h.objs
         dead == h.freed \cap Roots
         ids == kept \cup dead
     IN /\ leak' = h.objs \ kept
        /\ h' = [h EXCEPT !.objs = kept, !.freed = dead,
                          !.rc = [o \in Obj |-> IF o \in ids THEN h.rc[o] ELSE 0],
                          !.holds = [o \in Obj |-> IF o \in ids THEN h.holds[o] ELSE {}],
                          !.kind = [o \in Obj |-> IF o \in ids THEN h.kind[o] ELSE "plain"]]
  /\ loc' = [v \in Locals \cup Globals |-> IF v \in Globals THEN loc[v] ELSE NULL]
  /\ last' = fn
  /\ fn' = "none"
  /\ UNCHANGED <<pc, added>>

(* The umview core calls one of the service's functions: s.ctl and        *)
(* s.checkfun once the service is added, a system call only when          *)
(* PYTHON_SYSCALL installed it.                                          *)
Invoke(f) ==
  /\ fn = "none" /\ h.fault = NULL /\ added
  /\ f \in SyscallFuncs => loc["ps_syscall"] # NULL
  /\ fn' = f
  /\ pc' = 1
  /\ UNCHANGED <<loc, h, last, leak, added>>

(* The destructor fini, when umview unloads the module once its service is *)
(* removed: s.syscall and s.socket are freed and Py_Finalize destroys      *)
(* every Python object; the module's globals go with the library, and the *)
(* core calls nothing of the service again.                               *)
fini ==
  /\ fn = "none" /\ h.fault = NULL /\ added
  /\ added' = FALSE
  /\ h' = [h EXCEPT !.objs = {}, !.freed = {}, !.rc = [o \in Obj |-> 0],
                    !.holds = [o \in Obj |-> {}]]
  /\ loc' = [v \in Locals \cup Globals |-> NULL]
  /\ UNCHANGED <<fn, pc, last, leak>>

Next ==
  \/ \E f \in Funcs : Invoke(f)
  \/ fini
  \/ DoNew \/ DoNewInto \/ DoSteal \/ DoDictSet \/ DoDictSetNew
  \/ DoIncref \/ DoDecref \/ DoXDecref \/ DoCall \/ DoGetAttr \/ DoUse
  \/ DoAssign \/ DoJNull \/ DoJNCall \/ DoJAny \/ DoRegister \/ DoRet

Spec == Init /\ [][Next]_vars

-----------------------------------------------------------------------------
(* Types; a jump never leaves the body of the function it is in. *)
TypeOK ==
  /\ fn \in ServiceFuncs \cup {"init", "none"}
  /\ fn # "none" => pc \in 1 .. Len(Prog(fn))
  /\ loc \in [Locals \cup Globals -> Obj \cup {NULL}]
  /\ h.objs \cap h.freed = {}
  /\ h.rc \in [Obj -> Nat]
  /\ \A o \in Obj : h.holds[o] \subseteq Obj
  /\ h.kind \in [Obj -> Kinds]
  /\ h.fault \in Faults \cup {"bound", NULL}
  /\ leak \subseteq Obj
  /\ added \in BOOLEAN

(* No Python object is released twice, read after it was freed, or       *)
(* dereferenced through NULL by the service's C functions: every         *)
(* Py_DECREF matches a reference the function owns.                      *)
NoRefcountFault == h.fault = NULL

(* Once add_service has run, everything the service keeps between calls   *)
(* (ps.ctl, ps.checkfun, the (function, kwargs) pairs in ps.syscall and   *)
(* pEmptyTuple, and what they hold) is still allocated.                  *)
KeptObjectsLive == added => Reachable(h, Roots) \cap h.freed = {}

(* A system call forwarded by PYIN/PYOUT leaves no Python object behind:   *)
(* the argument tuple, its items and the result are all released, whether *)
(* or not the Python function raised.                                    *)
NoLeakInWrappers == fn = "none" /\ last \in WrapperFuncs => leak = {}
====
