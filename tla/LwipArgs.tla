------------------------------ MODULE LwipArgs ------------------------------
(***************************************************************************)
(* The argument string of the lwipv6 service module                       *)
(* (xmview-os/um_lwip/lwipv6.c): _um_mod_init hands it to lwipargtoenv,    *)
(* which cuts it in place at the commas that are not quoted, removing     *)
(* the quote characters, and passes each piece to myputenv.  "vdN",       *)
(* "tpN", "tnN" ask for N interfaces of a type (vde, tap, tun); "vdN=nm"  *)
(* asks for interface N of the type, named nm; "ra=v" is the router       *)
(* advertisement parameter.  Then each type's interfaces 0 .. intnum-1    *)
(* are started, named by ifname, and one vde interface if none was asked. *)
(*                                                                         *)
(* A string is a sequence of one-character strings; NUL is the            *)
(* terminator that the cutting writes into the buffer.  Every add         *)
(* function of lwiplib is taken to be found by dlsym.                     *)
(***************************************************************************)
EXTENDS Integers, Sequences, SequencesExt

CONSTANTS
  ArgTokens,   \* pieces the argument strings are made of
  MaxArgs      \* bound on the number of pieces in one argument string

NUL == "NUL"
NOARG == "NOARG"   \* a NULL char *
QUOTES == {"'", "\""}
DIGITS == <<"0", "1", "2", "3", "4", "5", "6", "7", "8", "9">>

(* intname[] and paramname[]; a type is its index in intname. *)
INTTYPES == 3
intname == << <<"v", "d">>, <<"t", "p">>, <<"t", "n">> >>
paramname == <<"r", "a">>
stdargs == <<"v", "d", "1">>

(* Reading the C string a at index k: the terminator after its end. *)
At(a, k) == IF k < Len(a) THEN a[k + 1] ELSE NUL
IsDigit(c) == c \in ToSet(DIGITS)
DigitVal(c) == SelectInSeq(DIGITS, LAMBDA x : x = c) - 1
(* strncmp(a, w, 2) == 0 *)
Prefix2(a, w) == At(a, 0) = w[1] /\ At(a, 1) = w[2]
(* The C string that starts at index i of buffer b. *)
CStr(b, i) == SubSeq(b, i, SelectInSubSeq(b, i, Len(b), LAMBDA c : c = NUL) - 1)

-----------------------------------------------------------------------------
(* The inner while loop of lwipargtoenv: copy from next down to          *)
(* unquoted, skipping the quote characters; a quote character opens a    *)
(* quote, the same one closes it, and a comma inside a quote is copied.  *)
RECURSIVE Scan(_, _, _, _)
Scan(b, nx, un, q) ==
  IF (b[nx] # "," \/ q # NUL) /\ b[nx] # NUL
    THEN LET b2 == [b EXCEPT ![un] = b[nx]] IN
         CASE b[nx] = q -> Scan(b2, nx + 1, un, NUL)
           [] b[nx] \in QUOTES -> Scan(b2, nx + 1, un, b[nx])
           [] OTHER -> Scan(b2, nx + 1, un + 1, q)
    ELSE [buf |-> b, next |-> nx, un |-> un, q |-> q]

-----------------------------------------------------------------------------
(* What myputenv accumulates: intnum[], the list ifh of named interfaces *)
(* (ifaddname pushes at the head) and paramval[].                         *)
IfInit == [intnum |-> [i \in 1 .. INTTYPES |-> 0], ifh |-> << >>, paramval |-> NOARG]

ifaddname_tail(h, t, n, nm) == Append(h, [type |-> t, num |-> n, name |-> nm])
ifaddname(h, t, n, nm) == <<[type |-> t, num |-> n, name |-> nm]>> \o h

(* The interface part of myputenv for the type i whose name a starts     *)
(* with, a digit following.                                              *)
PutInterface(st, a, i) ==
  LET d == DigitVal(At(a, 2)) IN
  CASE At(a, 3) = "=" ->
         [st EXCEPT !.ifh = ifaddname(@, i, d, SubSeq(a, 5, Len(a))),
                    !.intnum[i] = IF d + 1 > @ THEN d + 1 ELSE @]
    [] At(a, 3) = NUL -> [st EXCEPT !.intnum[i] = IF d > @ THEN d ELSE @]
    [] OTHER -> st

myputenv(st, a) ==
  LET m == {i \in 1 .. INTTYPES : Prefix2(a, intname[i]) /\ IsDigit(At(a, 2))}
      st1 == IF m = {} THEN st ELSE PutInterface(st, a, Min(m))
  IN IF Prefix2(a, paramname) /\ At(a, 2) = "="
       THEN [st1 EXCEPT !.paramval = SubSeq(a, 4, Len(a))]
       ELSE st1

(* ifname: the first entry of ifh for the interface, NULL if none. *)
ifname(h, t, n) ==
  LET k == SelectInSeq(h, LAMBDA e : e.type = t /\ e.num = n)
  IN IF k = 0 THEN NOARG ELSE h[k].name

(* The interface loading of lwipargtoenv: totint == 0 asks for one vde  *)
(* interface; initfun is called for each type and number, with ifname,   *)
(* then the parameter is loaded.                                        *)
lwip_load(st) ==
  LET n == IF FoldFunction(+, 0, st.intnum) = 0
             THEN [st.intnum EXCEPT ![1] = 1] ELSE st.intnum
  IN [ifs |-> FlattenSeq([i \in 1 .. INTTYPES |->
                [j \in 1 .. n[i] |-> [type |-> i, name |-> ifname(st.ifh, i, j - 1)]]]),
      param |-> st.paramval]

-----------------------------------------------------------------------------
(* The argument strings: up to MaxArgs pieces joined by commas. *)
Join(ts) == IF ts = << >> THEN << >>
            ELSE FoldLeft(LAMBDA acc, t : acc \o <<",">> \o t, ts[1], Tail(ts))
ArgStrings == {Join(ts) : ts \in BoundedSeq(ArgTokens, MaxArgs)}

VARIABLES
  argin,     \* the initargs string _um_mod_init was given
  argbuf,    \* the buffer lwipargtoenv cuts, with its terminator
  argpos,    \* initargs: where the next piece starts
  argq,      \* quoted
  argst,     \* intnum[], ifh and paramval[]
  pieces,    \* the pieces myputenv was given so far
  argphase   \* "parse" while lwipargtoenv runs, "done" after _um_mod_init

argvars == <<argin, argbuf, argpos, argq, argst, pieces, argphase>>

(* lwipargtoenv starts with ifh NULL, intnum[] 0 and paramval[] NULL; an *)
(* empty string is replaced by stdargs.                                  *)
ArgsInit ==
  /\ argin \in ArgStrings
  /\ argbuf = (IF argin = << >> THEN stdargs ELSE argin) \o <<NUL>>
  /\ argpos = 1 /\ argq = NUL /\ argst = IfInit /\ pieces = << >>
  /\ argphase = "parse"

(* One pass of the outer while loop: the inner loop, the comma made the  *)
(* terminator at unquoted and at next, and myputenv on a non-empty       *)
(* piece.  quoted is not reset between pieces.                           *)
ParsePiece ==
  /\ argphase = "parse" /\ argbuf[argpos] # NUL
  /\ LET r == Scan(argbuf, argpos, argpos, argq)
         comma == r.buf[r.next] = ","
         b2 == IF comma THEN [r.buf EXCEPT ![r.un] = NUL, ![r.next] = NUL] ELSE r.buf
         piece == IF b2[argpos] # NUL THEN <<CStr(b2, argpos)>> ELSE << >>
     IN /\ argbuf' = b2
        /\ argpos' = IF comma THEN r.next + 1 ELSE r.next
        /\ argq' = r.q
        /\ pieces' = pieces \o piece
        /\ argst' = IF piece = << >> THEN argst ELSE myputenv(argst, piece[1])
  /\ UNCHANGED <<argin, argphase>>

(* The loop ends at the terminator: lwip_load starts the interfaces and *)
(* loads the parameter, iffree releases ifh, and _um_mod_init registers  *)
(* the service.  The stack's interfaces are the Netifs of the stack      *)
(* model, so none of the parsing state is kept.                          *)
LoadInterfaces ==
  /\ argphase = "parse" /\ argbuf[argpos] = NUL
  /\ argphase' = "done"
  /\ argin' = << >> /\ argbuf' = <<NUL>> /\ argpos' = 1 /\ argq' = NUL
  /\ argst' = IfInit /\ pieces' = << >>

ArgsNext == ParsePiece \/ LoadInterfaces

ArgsParsed == argphase = "parse" /\ argbuf[argpos] = NUL

(* What a piece asks for, read declaratively. *)
Asks(a, i, d) == Prefix2(a, intname[i]) /\ At(a, 2) = DIGITS[d + 1]
Names(a, i, d) == Asks(a, i, d) /\ At(a, 3) = "="
Counts(a, i, d) == Asks(a, i, d) /\ Len(a) = 3

(* The interfaces a list of pieces asks for: each type up to the         *)
(* highest number named, or counted; the name of an interface is the     *)
(* one its last naming piece gives; one vde interface if nothing is      *)
(* asked; the parameter is the last "ra=" piece.                         *)
Requested(args) ==
  LET K == DOMAIN args
      D == 0 .. 9
      cnt(i) == Max({0} \cup {d + 1 : d \in {d \in D : \E k \in K : Names(args[k], i, d)}}
                        \cup {d \in D : \E k \in K : Counts(args[k], i, d)})
      tot == cnt(1) + cnt(2) + cnt(3)
      n(i) == IF tot = 0 /\ i = 1 THEN 1 ELSE cnt(i)
      nm(i, d) == LET ks == {k \in K : Names(args[k], i, d)}
                  IN IF ks = {} THEN NOARG ELSE SubSeq(args[Max(ks)], 5, Len(args[Max(ks)]))
      ps == {k \in K : Prefix2(args[k], paramname) /\ At(args[k], 2) = "="}
  IN [ifs |-> FlattenSeq([i \in 1 .. INTTYPES |->
                [j \in 1 .. n(i) |-> [type |-> i, name |-> nm(i, j - 1)]]]),
      param |-> IF ps = {} THEN NOARG ELSE SubSeq(args[Max(ps)], 4, Len(args[Max(ps)]))]

(* lwipargtoenv/myputenv/ifname start, for every argument string, the    *)
(* interfaces its pieces ask for, with the names the last naming piece   *)
(* gives: intnum keeps the maximum, ifh is searched from the most recent *)
(* name, and the default vde interface appears only when nothing is      *)
(* asked.                                                                 *)
InterfacesPerArgs ==
  ArgsParsed => lwip_load(argst) = Requested(pieces)

(* The pieces are the comma-separated fields of the string with their   *)
(* quote characters removed (a comma inside quotes kept), as the loop's  *)
(* quoting is meant to do; with no string, stdargs.                      *)
RECURSIVE Fields(_, _, _)
Fields(a, q, cur) ==
  IF a = << >> THEN <<cur>>
  ELSE LET c == Head(a) IN
       CASE c = "," /\ q = NUL -> <<cur>> \o Fields(Tail(a), q, << >>)
         [] c = q -> Fields(Tail(a), NUL, cur)
         [] c \in QUOTES /\ q = NUL -> Fields(Tail(a), c, cur)
         [] OTHER -> Fields(Tail(a), q, Append(cur, c))
ArgsSplitAtCommas ==
  ArgsParsed =>
    pieces = SelectSeq(Fields(IF argin = << >> THEN stdargs ELSE argin, NUL, << >>),
                       LAMBDA f : f # << >>)

====
