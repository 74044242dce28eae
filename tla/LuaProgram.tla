----------------------------- MODULE LuaProgram -----------------------------
(***************************************************************************)
(* The bundled Lua interpreter on whole programs: a program is parsed and  *)
(* compiled in one pass (LuaParser, LuaCode) and its code executed         *)
(* instruction by instruction (LuaVm).  What it emits and returns has to   *)
(* be what the program means (LuaMeaning).                                 *)
(***************************************************************************)
EXTENDS LuaMeaning, LuaParser, LuaDump

CONSTANTS
    Programs,      \* bound: the programs, as syntax trees
    Codes,         \* what the compiler makes of each of them
    Meanings,      \* and what each of them means
    Precompiled,   \* bound: those that are also dumped and loaded again
    MaxSteps       \* bound: steps that every one of them has to finish in

VARIABLES
    program,       \* the one that runs
    steps          \* how many steps it has made

vars == <<L, program, steps>>

\* The globals that a program finds.
Environment == [k \in {Str("emit"), Str("next"), Str("setmetatable"), Str("__pow")} |->
                    <<"cfn", IF k = Str("__pow") THEN "pow" ELSE k[2]>>]

Compiled(b) == luaY_parser(BlockTokens(b))

\* Both are tables, for each program is compiled and understood once.
ASSUME Tables ==
    /\ Codes = [b \in Programs |-> Compiled(b)]
    /\ Meanings = [b \in Programs |-> Meaning(b, Environment)]

Init == program \in Programs /\ L = Called(Codes[program].done, Environment) /\ steps = 0

Finished == L.status \in {"done", "error"}
Next == \/ (Instruction \/ Return) /\ steps' = steps + 1 /\ UNCHANGED program
        \/ Finished /\ UNCHANGED vars

Spec == Init /\ [][Next]_vars

-----------------------------------------------------------------------------
(* Properties.                                                              *)

\* The code that one pass over the source generates, with its jump lists, its
\* reuse of registers and its moved loop conditions, does what the program means:
\* the same values emitted in the same order, the same results, the same failures.  And
\* it finishes, as every program here does: no jump, no loop and no chain of returns goes
\* on for ever, or stops half-way (which would be a deadlock).
RunsAsMeant ==
    /\ steps <= MaxSteps
    /\ Finished => [out |-> L.out, err |-> L.status = "error", ret |-> IF L.status = "done" THEN L.ret ELSE << >>]
                       = Meanings[program]

\* Every function the compiler makes passes the checker that the interpreter applies
\* to precompiled code, and no assertion of the compiler fails on the way.
CompilesChecked ==
    \/ Codes[program].err
    \/ Codes[program].ok /\ \A pt \in Inner(Codes[program].done) : luaG_checkcode(pt)

\* A function that is dumped, on a machine with either order of bytes, and loaded again
\* from blocks of any size, is the same function; when the end of the chunk is missing
\* it is refused, whichever byte is the first that does not come.
Blocks(bs, size) == [n \in 1..((Len(bs) + size - 1) \div size) |->
                        SubSeq(bs, (n - 1) * size + 1, IF n * size <= Len(bs) THEN n * size ELSE Len(bs))]
IsLoaded(r, p) == ~r.err /\ r.v = p
Loadable(p, bytes) ==
    /\ \A size \in {1, 3, 1000} : IsLoaded(luaU_undump(Blocks(bytes, size)), p)
    /\ \A n \in 0..(Len(bytes) - 1) : luaU_undump(Blocks(SubSeq(bytes, 1, n), 16)).err
PrecompiledIsSame ==
    program \in Precompiled /\ steps = 0 =>
        \A e \in {"little", "big"} : Loadable(Codes[program].done, luaU_dump(Codes[program].done, e))

\* The assertion of the main loop: the top of the stack is the end of the frame, but
\* for the instructions that take an open number of values.  A frame that lost its
\* top would let a call overwrite its registers.
TopAtFrame ==
    L.status = "running" =>
        /\ L.top >= Top(L).base /\ L.top <= StackSize
        /\ L.top = Top(L).top \/ i.op \in {"CALL", "TAILCALL", "RETURN", "SETLISTO"}

\* The list of open upvalues holds each open upvalue once, the highest slot first, and
\* no two of one slot: closures over one variable share it, and closing a block, which
\* takes from the head of the list, reaches all that are to be closed.  None is left
\* open above the frames that are alive.
OpenUpvalues ==
    LET upv  == L.heap.upv
        list == L.openupval
    IN /\ \A n \in 1..(Len(list) - 1) : upv[list[n]].v > upv[list[n + 1]].v
       /\ {list[n] : n \in DOMAIN list} = {u \in DOMAIN upv : upv[u].open}
       /\ list # << >> /\ L.status = "running" => upv[list[1]].v < Top(L).top

\* A flag of a table says that an event is not among its keys: a tag method that is
\* there is never overlooked.
FlagsTrue ==
    \A t \in DOMAIN L.heap.tab :
        \A event \in L.heap.tab[t].flags : Str(event) \notin DOMAIN L.heap.tab[t].kv

\* What the instructions rely on without looking: the frame, the open upvalues and the
\* flags are what the calls, blocks and assignments before have to leave.
VmConsistent == TopAtFrame /\ OpenUpvalues /\ FlagsTrue

\* not gives a boolean, as the code for it (loading false or true when a jump of the
\* list does not leave the right value) is there to ensure.
NotIsBoolean ==
    L.status = "done" =>
        LET last == program[Len(program)]
        IN last[1] = "return" /\ last[2][1][1] = "un" /\ last[2][1][2] = "not" => L.ret[1][1] = "bool"
=============================================================================
