------------------------------ MODULE LuaDump ------------------------------
(***************************************************************************)
(* Precompiled chunks: what src/lua/ldump.c writes for a function, and how *)
(* src/lua/lundump.c reads it back, through the buffered input of          *)
(* src/lua/lzio.c, on a machine whose order of bytes may be another.       *)
(*                                                                         *)
(* A chunk is a sequence of bytes; the bytes of a string are its place in  *)
(* Strings and a final zero.  int, size_t and lua_Number have two bytes    *)
(* here, an instruction four.  Information for the debugger is left out:   *)
(* its vectors are empty.                                                  *)
(***************************************************************************)
EXTENDS LuaCheck

CONSTANT Strings      \* bound: the strings that occur in functions

SIGNATURE   == <<27, 76, 117, 97>>
VERSION     == 80     \* the version of the format, and the oldest that is read
VERSION0    == 80
TEST_NUMBER == 3456
Opcodes == <<"MOVE", "LOADK", "LOADBOOL", "LOADNIL", "GETUPVAL", "GETGLOBAL", "GETTABLE", "SETGLOBAL",
             "SETUPVAL", "SETTABLE", "NEWTABLE", "SELF", "ADD", "SUB", "MUL", "DIV", "POW", "UNM", "NOT",
             "CONCAT", "JMP", "EQ", "LT", "LE", "TEST", "CALL", "TAILCALL", "RETURN", "FORLOOP", "TFORLOOP",
             "TFORPREP", "SETLIST", "SETLISTO", "CLOSE", "CLOSURE">>
Place(seq, x) == CHOOSE n \in DOMAIN seq : seq[n] = x
MAXARG_sBx == 1000    \* offsets of jumps are written in excess of this
IntSize == 2
Sizes   == <<IntSize, IntSize, 4, 6, 8, 9, 9, IntSize>>   \* what the header says of the machine

Reversed(bs) == [n \in DOMAIN bs |-> bs[Len(bs) + 1 - n]]
Ordered2(bs, e) == IF e = "little" THEN bs ELSE Reversed(bs)

-----------------------------------------------------------------------------
(* Writing, on a machine with byte order e.                                 *)

Concat(ss) == LET F[n \in 0..Len(ss)] == IF n = 0 THEN << >> ELSE F[n - 1] \o ss[n] IN F[Len(ss)]
DumpByte(x)      == <<x % 256>>
DumpInt(x, e)    == Ordered2([n \in 1..IntSize |-> (x \div (256 ^ (n - 1))) % 256], e)
DumpSize(x, e)   == DumpInt(x, e)
DumpNumber(x, e) == DumpInt(x, e)
DumpString(s, e) == DumpSize(2, e) \o <<Place(Strings, s), 0>>
DumpNull(e)      == DumpSize(0, e)

Long(i) == i.op \in Mode_iABx \cup Mode_iAsBx
DumpInstruction(i, e) ==
    LET bx == IF i.op \in Mode_iAsBx THEN i.b + MAXARG_sBx ELSE i.b
    IN Ordered2(<<Place(Opcodes, i.op) - 1, i.a>>
                    \o (IF Long(i) THEN <<bx % 256, bx \div 256>> ELSE <<i.b, i.c>>), e)
DumpCode(f, e) ==
    DumpInt(Len(f.code), e) \o Concat([n \in DOMAIN f.code |-> DumpInstruction(f.code[n], e)])

TypeTag(v) == CASE v[1] = "nil" -> 0 [] v[1] = "num" -> 3 [] v[1] = "str" -> 4
DumpConstant(v, e) ==
    DumpByte(TypeTag(v)) \o (CASE v[1] = "nil" -> << >> [] v[1] = "num" -> DumpNumber(v[2], e)
                               [] v[1] = "str" -> DumpString(v[2], e))

RECURSIVE DumpFunction(_, _)
DumpConstants(f, e) ==
    DumpInt(Len(f.k), e) \o Concat([n \in DOMAIN f.k |-> DumpConstant(f.k[n], e)])
        \o DumpInt(Len(f.p), e) \o Concat([n \in DOMAIN f.p |-> DumpFunction(f.p[n], e)])
\* The source of an inner function is that of the outer one, which is not repeated.
DumpFunction(f, e) ==
    DumpNull(e) \o DumpInt(0, e)
        \o DumpByte(f.nups) \o DumpByte(f.numparams) \o DumpByte(IF f.is_vararg THEN 1 ELSE 0)
        \o DumpByte(f.maxstacksize)
        \o DumpInt(0, e) \o DumpInt(0, e) \o DumpInt(0, e)      \* lines, locals, names of upvalues
        \o DumpConstants(f, e) \o DumpCode(f, e)

DumpHeader(e) == SIGNATURE \o DumpByte(VERSION) \o DumpByte(IF e = "little" THEN 1 ELSE 0)
                    \o Sizes \o DumpNumber(TEST_NUMBER, e)
luaU_dump(f, e) == DumpHeader(e) \o DumpFunction(f, e)

-----------------------------------------------------------------------------
(* Reading.  S holds the bytes at hand, the blocks that the reader has      *)
(* still to deliver, whether bytes have to be swapped, an error, and in v   *)
(* what was read last.                                                      *)

Error(S)   == [S EXCEPT !.err = TRUE, !.v = 0, !.now = << >>, !.later = << >>]
EndOfInput(S) == S.later = << >> \/ S.later[1] = << >>
luaZ_fill(S)  == [S EXCEPT !.now = S.later[1], !.later = Tail(S.later)]

\* Mutant: what comes from the next block does not go behind the bytes already got.
RECURSIVE luaZ_read_over(_, _, _)
luaZ_read_over(S, n, got) ==
    LET m == IF n <= Len(S.now) THEN n ELSE Len(S.now)
    IN IF n = 0 THEN [S EXCEPT !.v = got]
       ELSE IF S.now = << >> THEN IF EndOfInput(S) THEN Error(S) ELSE luaZ_read_over(luaZ_fill(S), n, got)
       ELSE luaZ_read_over([S EXCEPT !.now = SubSeq(@, m + 1, Len(@))], n - m, SubSeq(S.now, 1, m) \o got)

\* n bytes, from as many blocks as it takes, behind those already got.
RECURSIVE luaZ_read(_, _, _)
luaZ_read(S, n, got) ==
    LET m == IF n <= Len(S.now) THEN n ELSE Len(S.now)
    IN IF n = 0 THEN [S EXCEPT !.v = got]
       ELSE IF S.now = << >> THEN IF EndOfInput(S) THEN Error(S) ELSE luaZ_read(luaZ_fill(S), n, got)
       ELSE luaZ_read([S EXCEPT !.now = SubSeq(@, m + 1, Len(@))], n - m, got \o SubSeq(S.now, 1, m))

\* What was read, turned into the value it stands for.
Then(r, Turned(_)) == IF r.err THEN r ELSE [r EXCEPT !.v = Turned(@)]

\* A scalar as this machine, which is a little endian one, has it in memory.
LoadBlock(S, size) == Then(luaZ_read(S, size, << >>), LAMBDA v : IF S.swap THEN Reversed(v) ELSE v)
LoadByte(S)   == Then(luaZ_read(S, 1, << >>), Head)
LoadSize(S)   == Then(LoadBlock(S, IntSize), LAMBDA v : v[1] + 256 * v[2])
LoadNumber(S) == Then(LoadSize(S), LAMBDA v : IF v < 32768 THEN v ELSE v - 65536)
NotNegative(r) == IF r.err \/ r.v < 0 THEN Error(r) ELSE r
LoadInt(S)    == NotNegative(LoadNumber(S))
\* A string, or nothing; characters are not swapped.
Characters(n) == IF n.err \/ n.v = 0 THEN n ELSE Then(luaZ_read(n, n.v, << >>), LAMBDA v : Strings[v[1]])
LoadString(S) == Characters(LoadSize(S))

Instruction4(bs) ==
    LET op == Opcodes[bs[1] + 1]
        bx == bs[3] + 256 * bs[4]
    IN IF op \in Mode_iAsBx THEN [op |-> op, a |-> bs[2], b |-> bx - MAXARG_sBx, c |-> 0]
       ELSE IF op \in Mode_iABx THEN [op |-> op, a |-> bs[2], b |-> bx, c |-> 0]
       ELSE [op |-> op, a |-> bs[2], b |-> bs[3], c |-> bs[4]]
\* m things, one after the other.
RECURSIVE LoadVector(_, _, _, _)
LoadVector(Load(_), S, m, acc) ==
    IF S.err \/ m = 0 THEN [S EXCEPT !.v = acc]
    ELSE LET r == Load(S) IN LoadVector(Load, r, m - 1, Append(acc, r.v))
Counted(Load(_), n) == IF n.err THEN n ELSE LoadVector(Load, n, n.v, << >>)
LoadInstruction(S) == Then(LoadBlock(S, 4), Instruction4)
LoadCode(S) == Counted(LoadInstruction, LoadInt(S))

OfType(t) ==
    CASE t.err -> t
      [] t.v = 0 -> [t EXCEPT !.v = <<"nil">>]
      [] t.v = 3 -> Then(LoadNumber(t), LAMBDA v : <<"num", v>>)
      [] t.v = 4 -> Then(LoadString(t), LAMBDA v : <<"str", v>>)
      [] OTHER -> Error(t)
LoadConstant(S) == OfType(LoadByte(S))

\* A function that does not pass the code checker is refused.
Accepted(code, f) == IF code.err THEN code
                     ELSE IF luaG_checkcode(f) THEN [code EXCEPT !.v = f] ELSE Error(code)
Prototype(h, k, p, code) ==
    Accepted(code, [code |-> code.v, k |-> k.v, p |-> p.v, nups |-> h.v[1], numparams |-> h.v[2],
                    is_vararg |-> h.v[3] # 0, maxstacksize |-> h.v[4]])
RECURSIVE LoadFunction(_)
WithFunctions(h, k, p) == Prototype(h, k, p, LoadCode(p))
WithConstants(h, k)    == WithFunctions(h, k, Counted(LoadFunction, LoadInt(k)))
\* Behind the four bytes: lines, locals and names of upvalues, of which there are none.
WithBytes(h) == WithConstants(h, Counted(LoadConstant, LoadInt(LoadInt(LoadInt(LoadInt(h))))))
\* Behind the source and its line: nups, numparams, is_vararg, maxstacksize.
LoadFunction(S) == WithBytes(luaZ_read(LoadInt(LoadString(S)), 4, << >>))

LoadHeader(S) ==
    LET sig  == luaZ_read(S, Len(SIGNATURE), << >>)
        ver  == LoadByte(sig)
        end  == LoadByte(ver)
        size == luaZ_read(end, Len(Sizes), << >>)
        num  == LoadNumber([size EXCEPT !.swap = end.v # 1])
    IN IF \/ num.err \/ sig.v # SIGNATURE \/ ver.v \notin VERSION0..VERSION
          \/ size.v # Sizes \/ num.v # TEST_NUMBER
       THEN Error(num) ELSE num

luaU_undump(blocks) ==
    LET h == LoadHeader([now |-> << >>, later |-> blocks, swap |-> FALSE, err |-> FALSE, v |-> 0])
    IN IF h.err THEN h ELSE LoadFunction(h)
=============================================================================
