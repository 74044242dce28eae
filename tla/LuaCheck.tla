------------------------------ MODULE LuaCheck ------------------------------
(***************************************************************************)
(* The code checker of src/lua/ldebug.c: the interpreter refuses a         *)
(* precompiled function that does not pass it, and asserts that what its   *)
(* own compiler makes does.  pt is a prototype of LuaParser.               *)
(***************************************************************************)
EXTENDS LuaCode

checkreg(pt, reg) == reg < pt.maxstacksize
checkRK(pt, r)    == r < pt.maxstacksize \/ r - MAXSTACK \in 0..(Len(pt.k) - 1)
checkjump(pt, pc) == pc \in 0..(Len(pt.code) - 1)

precheck(pt) ==
    /\ pt.maxstacksize <= MAXSTACK
    /\ pt.numparams + (IF pt.is_vararg THEN 1 ELSE 0) <= pt.maxstacksize
    /\ pt.code[Len(pt.code)].op = "RETURN"

\* What may follow an instruction that leaves an open number of values.
checkopenop(pt, pc) ==
    LET next == At(pt, pc + 1)
    IN next.op = "SETLISTO" \/ (next.op \in {"CALL", "TAILCALL", "RETURN"} /\ next.b = 0)

checkcall(pt, pc, i) ==
    /\ i.b # 0 => checkreg(pt, i.a + i.b - 1)
    /\ CASE i.c = 0 -> checkopenop(pt, pc)
         [] i.c = 1 -> TRUE
         [] OTHER   -> checkreg(pt, i.a + i.c - 2)

checkclosure(pt, pc, i) ==
    /\ i.b < Len(pt.p)
    /\ pc + pt.p[i.b + 1].nups < Len(pt.code)
    /\ \A n \in 1..pt.p[i.b + 1].nups : At(pt, pc + n).op \in {"GETUPVAL", "MOVE"}

checkinstruction(pt, pc) ==
    LET i == At(pt, pc)
    IN /\ checkreg(pt, i.a)
       /\ i.op \in OpModeBreg => checkreg(pt, i.b)
       /\ i.op \in OpModeBrk  => checkRK(pt, i.b)
       /\ i.op \in OpModeCrk  => checkRK(pt, i.c)
       /\ i.op \in OpModeK    => i.b < Len(pt.k)
       /\ i.op \in OpModeT    => pc + 2 < Len(pt.code) /\ At(pt, pc + 1).op = "JMP"
       /\ i.op = "LOADBOOL"   => i.c = 0 \/ pc + 2 < Len(pt.code)
       /\ i.op \in {"GETUPVAL", "SETUPVAL"}   => i.b < pt.nups
       /\ i.op \in {"GETGLOBAL", "SETGLOBAL"} => pt.k[i.b + 1][1] = "str"
       /\ i.op = "SELF"       => checkreg(pt, i.a + 1)
       /\ i.op = "CONCAT"     => i.c < MAXSTACK /\ i.b < i.c
       /\ i.op = "TFORLOOP"   => checkreg(pt, i.a + i.c + 5)
       /\ i.op \in {"TFORLOOP", "FORLOOP"} => checkreg(pt, i.a + 2)
       /\ i.op \in {"TFORLOOP", "FORLOOP", "JMP"} => checkjump(pt, pc + 1 + i.b)
       /\ i.op \in {"CALL", "TAILCALL"} => checkcall(pt, pc, i)
       /\ i.op = "RETURN"     => i.b <= 1 \/ checkreg(pt, i.a + i.b - 2)
       /\ i.op = "SETLIST"    => checkreg(pt, i.a + (i.b % LFIELDS_PER_FLUSH) + 1)
       /\ i.op = "CLOSURE"    => checkclosure(pt, pc, i)

luaG_checkcode(pt) == precheck(pt) /\ \A pc \in 0..(Len(pt.code) - 1) : checkinstruction(pt, pc)

\* A prototype and those of the functions inside it.
RECURSIVE Inner(_)
Inner(pt) == {pt} \cup UNION {Inner(pt.p[n]) : n \in DOMAIN pt.p}
=============================================================================
