------------------------------ MODULE LuaHeap -------------------------------
(***************************************************************************)
(* The garbage collector of the bundled Lua interpreter (src/lua/lgc.c),   *)
(* with the upvalues of lfunc.c, the threads of lstate.c and lua_close.    *)
(*                                                                         *)
(* A program makes objects, stores them, and forgets them.  A collection   *)
(* may happen at any allocation; it marks from the stacks, clears weak     *)
(* tables, sets the userdata aside that have a gc tag method, sweeps, and  *)
(* then calls those tag methods, which are programs themselves: they may   *)
(* store what they get, start a collection of their own, or fail.          *)
(*                                                                         *)
(* Every table has one node, and every thread one local variable.  A       *)
(* userdata has a gc tag method when it has a metatable.  An object that   *)
(* was freed may be allocated again (the same address).                    *)
(***************************************************************************)
EXTENDS Integers, SequencesExt

CONSTANTS
    Tables, Udatas, Coroutines, Closures, Upvals, Strings,   \* bound: the addresses
    Fixed,        \* strings that luaS_fix keeps
    Capturing,    \* the threads in which closures capture the local variable
    Modes,        \* the weak modes that tables are given
    LateModes,    \* whether a table is given a mode when it has had a field
    MaxNested,    \* bound: collections one inside the other
    MaxCollect,   \* bound: collections
    MaxSteps      \* bound: steps of the program and of tag methods

Main     == "main"
Threads  == {Main} \cup Coroutines
Nil      == "nil"
Dead     == "none"       \* a key of type LUA_TNONE
Objects  == Tables \cup Udatas \cup Coroutines \cup Closures \cup Strings

ASSUME HeapConstants ==
    /\ Fixed \subseteq Strings /\ Capturing \subseteq Threads
    /\ Modes \subseteq SUBSET {"k", "v"}
    /\ LateModes \in BOOLEAN
    /\ {MaxNested, MaxCollect, MaxSteps} \subseteq Nat

\* Addresses have one kind.
ASSUME HeapKinds ==
    LET kinds == <<Tables, Udatas, Coroutines, Closures, Upvals, Strings>>
    IN /\ \A i, j \in DOMAIN kinds : i # j => kinds[i] \cap kinds[j] = {}
       /\ \A i \in DOMAIN kinds : IsFiniteSet(kinds[i]) /\ {Nil, Dead, Main} \cap kinds[i] = {}

VARIABLES
    h,        \* the heap: what the objects hold and the collector's lists
    frames,   \* the collections whose tag methods are being called, innermost last
    life,     \* "open", "closing" or "closed" (lua_close)
    calls,    \* how often the gc tag method of each userdata was called
    late,     \* userdata that tag methods made while the state was being closed
    count,    \* collections so far
    steps     \* steps of the program so far

vars == <<h, frames, life, calls, late, count, steps>>

(* h.node[t] the node of a table, h.mode[t] the weak mode of its metatable, and      *)
(* h.bits[t] the mode bits that a traversal left in its mark; h.meta[u] the          *)
(* metatable of a userdata and h.unfinalized the userdata whose bit 1 is set;        *)
(* h.slot[th] the local variable of a thread; h.upval[f] the upvalue of a closure;   *)
(* h.uv[v] an upvalue, which is open in a thread or holds its value; h.top what is   *)
(* on top of its stack; h.strt the strings; h.rootgc and h.rootudata the *)
(* lists of objects, the newest first; h.tmudata the userdata whose tag method is to *)
(* be called; h.marked the objects in these whose mark is still set; h.ok whether    *)
(* the collector has looked at allocated objects only.                               *)

Elements(s) == {s[i] : i \in DOMAIN s}

\* The members of a list that are in a set.
Among(s, S) ==
    LET among[n \in 0..Len(s)] == IF n = 0 THEN << >>
                                  ELSE IF s[n] \in S THEN Append(among[n - 1], s[n]) ELSE among[n - 1]
    IN among[Len(s)]

\* What one comes to from S, when next[x] is where one comes from x.
From(next, S) ==
    LET from[T \in SUBSET DOMAIN next] ==
            LET more == T \cup UNION {next[x] : x \in T} IN IF more = T THEN T ELSE from[more]
    IN from[S]

allocated(g) == Elements(g.rootgc) \cup Elements(g.rootudata) \cup Elements(g.tmudata) \cup g.strt
Running == {frames[i].udata : i \in DOMAIN frames} \ {Nil}
\* The program, or a tag method, is running.
Between == frames # << >> /\ frames[Len(frames)].udata = Nil
Runs == ~Between /\ (life = "open" \/ (life = "closing" /\ frames # << >>))
Roots(g) == {g.top, g.slot[Main]} \cup Running

Init ==
    /\ h = [node |-> [t \in Tables |-> [key |-> Nil, val |-> Nil]], mode |-> [t \in Tables |-> {}],
            bits |-> [t \in Tables |-> {}], meta |-> [u \in Udatas |-> Nil], unfinalized |-> {},
            slot |-> [th \in Threads |-> Nil], upval |-> [f \in Closures |-> Nil],
            uv |-> [v \in Upvals |-> [open |-> Nil, value |-> Nil]], top |-> Nil, strt |-> Fixed,
            rootgc |-> << >>, rootudata |-> << >>, tmudata |-> << >>, marked |-> {}, ok |-> TRUE]
    /\ frames = << >> /\ life = "open" /\ calls = [u \in Udatas |-> 0] /\ late = {} /\ count = 0 /\ steps = 0

-----------------------------------------------------------------------------
(* What a program can reach, which is what the language says and not how the         *)
(* collector looks for it: weak tables included, and userdata that a tag method is   *)
(* about to get.                                                                     *)

ValueOf(g, v) == IF g.uv[v].open = Nil THEN g.uv[v].value ELSE g.slot[g.uv[v].open]
Holds(g, o) ==
    (CASE o \in Tables     -> IF g.node[o].val = Nil THEN {} ELSE {g.node[o].key, g.node[o].val}
       [] o \in Udatas     -> {g.meta[o]}
       [] o \in Coroutines -> {g.slot[o]}
       [] o \in Closures   -> IF g.upval[o] = Nil THEN {} ELSE {g.upval[o], ValueOf(g, g.upval[o])}
       [] OTHER            -> {}) \ {Nil}
Things == Objects \cup Upvals
Closed(g, S) == From([x \in Things |-> Holds(g, x)], S)
Reachable == Closed(h, (Roots(h) \cup Elements(h.tmudata)) \ {Nil})
InReach   == Closed(h, Roots(h) \ {Nil}) \cap Objects      \* what the program can use now
\* What it holds without weak tables, and without userdata that wait for their tag method.
Keeps(g, x) == IF x \in g.marked \/ (x \in Tables /\ g.mode[x] # {}) THEN {} ELSE Holds(g, x)
Held        == From([x \in Things |-> Keeps(h, x)], Roots(h) \ {Nil})

-----------------------------------------------------------------------------
(* Marking.  m is the GCState: the marked objects, those still to be traversed, the  *)
(* upvalues seen, and the weak tables met.                                           *)

markobject(m, S) == LET new == (S \cap Objects) \ m.marked
                    IN [m EXCEPT !.marked = @ \cup new, !.tmark = @ \cup new]

\* What a traversal marks.  A strong table marks its key and value; an open upvalue
\* counts as marked: its value is in a stack.
traversetable(g, t) ==
    LET n == g.node[t]
    IN IF n.val = Nil THEN {}
       ELSE {x \in {n.key} : "k" \notin g.mode[t]} \cup {x \in {n.val} : "v" \notin g.mode[t]}
traverseclosure(g, f) == {g.uv[v].value : v \in {v \in Upvals : v = g.upval[f] /\ g.uv[v].open = Nil}}
traverse(g, o) ==
    CASE o \in Tables     -> traversetable(g, o)
      [] o \in Closures   -> traverseclosure(g, o)
      [] o \in Coroutines -> {g.slot[o]}
      [] o \in Udatas     -> {g.meta[o]}
      [] OTHER            -> {}

\* Every object is traversed when it is marked, once; in which order makes no
\* difference.  A weak table that is met joins the list of its mode.
propagatemarks(m, g) ==
    LET met == From([o \in Objects |-> (traverse(g, o) \cap Objects) \ m.marked], m.tmark)
        WeakIn(modes) == {t \in met \cap Tables : g.mode[t] = modes}
    IN [m EXCEPT !.marked = @ \cup met, !.tmark = {},
                 !.uvmarked = @ \cup {v \in Upvals : g.uv[v].open = Nil /\ \E f \in met \cap Closures : g.upval[f] = v},
                 !.bits = [t \in Tables |-> IF t \in met /\ g.mode[t] # {} THEN g.mode[t] ELSE @[t]],
                 !.wk = @ \cup WeakIn({"k"}), !.wv = @ \cup WeakIn({"v"}), !.wkv = @ \cup WeakIn({"k", "v"})]

\* Clearing, where look[t] is what the weak table t is cleared for.  Strings are values,
\* so looking at one marks it; x is the heap and the marks.  A node whose key was freed
\* before must not be looked at.
Weak(m, o) == o \in Objects \ Strings /\ o \notin m.marked
\* Mutant: the key of an entry that is cleared stays.
removekey_kept(node) == [node EXCEPT !.val = Nil]
removekey(node) == [key |-> IF node.key \in Objects THEN Dead ELSE node.key, val |-> Nil]
cleartables(x, look) ==
    LET seen == Elements(look) \cap Objects
        gone == {t \in DOMAIN look : Weak(x.m, look[t])}
    IN [g |-> [x.g EXCEPT !.node = [t \in Tables |-> IF t \in gone THEN removekey(@[t]) ELSE @[t]],
                          !.ok = @ /\ seen \subseteq allocated(x.g)],
        m |-> [x.m EXCEPT !.marked = @ \cup (seen \cap Strings)]]
cleartablekeys(x, S)   == cleartables(x, [t \in S |-> x.g.node[t].key])
cleartablevalues(x, S) == cleartables(x, [t \in S |-> x.g.node[t].val])

-----------------------------------------------------------------------------
(* Userdata.                                                                        *)

\* Mutants: what is left in tmudata is forgotten; userdata without a gc tag method are
\* kept for it.
luaC_separateudata_forgets(g, marked) ==
    LET dead == (Elements(g.rootudata) \cap g.unfinalized) \ marked
        take == {u \in dead : g.meta[u] # Nil}
    IN [g EXCEPT !.rootudata = Among(@, Udatas \ take), !.tmudata = Among(g.rootudata, take),
                 !.unfinalized = @ \ (dead \ take)]
luaC_separateudata_kept(g, marked) ==
    LET take == {u \in (Elements(g.rootudata) \cap g.unfinalized) \ marked : g.meta[u] # Nil}
    IN [g EXCEPT !.rootudata = Among(@, Udatas \ take), !.tmudata = Among(g.rootudata, take) \o @]

\* Unmarked userdata with a gc tag method go, in their order, in front of tmudata.
luaC_separateudata(g, marked) ==
    LET dead == (Elements(g.rootudata) \cap g.unfinalized) \ marked
        take == {u \in dead : g.meta[u] # Nil}
    IN [g EXCEPT !.rootudata = Among(@, Udatas \ take), !.tmudata = Among(g.rootudata, take) \o @,
                 !.unfinalized = @ \ (dead \ take)]

\* Mutant: what is only reachable from userdata that is set aside is not marked.
mark_once(g) ==
    LET m == propagatemarks([marked |-> g.marked \cup Fixed, tmark |-> Roots(g) \cap Objects, uvmarked |-> {},
                             bits |-> g.bits, wk |-> {}, wv |-> {}, wkv |-> {}], g)
        x == [g |-> luaC_separateudata(g, m.marked), m |-> m]
    IN [x EXCEPT !.m.marked = @ \cup Elements(x.g.tmudata), !.g.bits = m.bits]

\* Mutant: weak values are cleared when the userdata that are set aside are marked.
mark_late(g) ==
    LET start  == [marked |-> g.marked \cup Fixed, tmark |-> {}, uvmarked |-> {}, bits |-> g.bits,
                   wk |-> {}, wv |-> {}, wkv |-> {}]
        m1     == propagatemarks(markobject(start, Roots(g)), g)
        g2     == luaC_separateudata(g, m1.marked)
        tmu    == Elements(g2.tmudata)
        m3     == propagatemarks([m1 EXCEPT !.marked = @ \cup tmu, !.tmark = tmu], g2)
        x4     == cleartablekeys([g |-> g2, m |-> m3], m3.wkv \cup m3.wk)
    IN [cleartablevalues(x4, m3.wkv \cup m3.wv) EXCEPT !.g.bits = m3.bits]

mark(g) ==
    LET start  == [marked |-> g.marked \cup Fixed, tmark |-> {}, uvmarked |-> {}, bits |-> g.bits,
                   wk |-> {}, wv |-> {}, wkv |-> {}]
        m1     == propagatemarks(markobject(start, Roots(g)), g)
        x1     == cleartablevalues([g |-> g, m |-> m1], m1.wkv \cup m1.wv)
        g2     == luaC_separateudata(x1.g, x1.m.marked)
        tmu    == Elements(g2.tmudata)
        m2     == [x1.m EXCEPT !.marked = @ \cup tmu, !.tmark = tmu, !.wkv = {}, !.wv = {}]
        m3     == propagatemarks(m2, g2)
        x4     == cleartablekeys([g |-> g2, m |-> m3], m1.wkv)
        x5     == cleartablevalues(cleartablekeys(x4, m3.wk), m3.wv)
        x6     == cleartablevalues(cleartablekeys(x5, m3.wkv), m3.wkv)
    IN [g |-> [x6.g EXCEPT !.bits = m3.bits], m |-> x6.m]

-----------------------------------------------------------------------------
(* Sweeping.                                                                        *)

\* luaF_close: the upvalues of a thread take their value along, and join the list of
\* objects at its head.
OpenIn(g, th) == {v \in Upvals : g.uv[v].open = th}
luaF_close(g, th) ==
    [g EXCEPT !.uv = [v \in Upvals |-> IF g.uv[v].open = th THEN [open |-> Nil, value |-> g.slot[th]] ELSE @[v]]]

\* swept[n] is the list before the place where the sweep is after n objects.  Freeing a
\* thread puts its upvalues at the head, where they are swept if nothing that survives
\* is in front of them.
sweeplist(g, keep) ==
    LET upvals(n) == SetToSeq(OpenIn(g, g.rootgc[n]))
        swept[n \in 0..Len(g.rootgc)] ==
            IF n = 0 THEN << >>
            ELSE LET done == swept[n - 1]
                 IN IF g.rootgc[n] \in keep THEN Append(done, g.rootgc[n])
                    ELSE (IF done = << >> THEN Among(upvals(n), keep) ELSE upvals(n)) \o done
        freed == (Elements(g.rootgc) \cap Coroutines) \ keep
    IN [g EXCEPT !.rootgc = swept[Len(g.rootgc)],
                 !.uv = [v \in Upvals |-> IF @[v].open \in freed THEN [open |-> Nil, value |-> g.slot[@[v].open]]
                                          ELSE @[v]]]

\* A mark that is not zero keeps an object: bit 0, the mode bits of a weak table, and
\* the bit of a userdata that is not finalized.
luaC_sweep(x) ==
    LET g     == x.g
        keep  == x.m.marked \cup x.m.uvmarked \cup {t \in Tables : g.bits[t] # {}} \cup g.unfinalized
    IN [sweeplist(g, keep) EXCEPT
            !.rootudata = Among(@, keep), !.strt = @ \cap keep, !.marked = Elements(g.tmudata)]

\* luaC_collectgarbage; its tag methods are then called by the frame that is pushed.
luaC_collectgarbage ==
    /\ Runs /\ count < MaxCollect /\ Len(frames) < MaxNested
    /\ LET g == luaC_sweep(mark(h))
       IN h' = g /\ frames' = IF g.tmudata = << >> THEN frames ELSE Append(frames, [udata |-> Nil])
    /\ count' = count + 1
    /\ UNCHANGED <<life, calls, late, steps>>

-----------------------------------------------------------------------------
(* luaC_callGCTM: the loop of the innermost collection.                             *)


\* Mutant: a userdata is not marked as finalized.
CallTM_again ==
    /\ Between /\ h.tmudata # << >>
    /\ LET u == Head(h.tmudata)
       IN /\ h' = [h EXCEPT !.tmudata = Tail(@), !.rootudata = <<u>> \o @, !.marked = @ \ {u}]
          /\ IF h.meta[u] = Nil THEN UNCHANGED <<frames, calls>>
             ELSE /\ frames' = [frames EXCEPT ![Len(frames)].udata = u]
                  /\ calls' = [calls EXCEPT ![u] = @ + 1]
    /\ UNCHANGED <<life, late, count, steps>>

\* The first userdata goes back to the list of all; it is on the stack during the call.
CallTM ==
    /\ Between /\ h.tmudata # << >>
    /\ LET u == Head(h.tmudata)
       IN /\ h' = [h EXCEPT !.tmudata = Tail(@), !.rootudata = <<u>> \o @,
                            !.marked = @ \ {u}, !.unfinalized = @ \ {u}]
          /\ IF h.meta[u] = Nil THEN UNCHANGED <<frames, calls>>
             ELSE /\ frames' = [frames EXCEPT ![Len(frames)].udata = u]
                  /\ calls' = [calls EXCEPT ![u] = @ + 1]
    /\ UNCHANGED <<life, late, count, steps>>

Returns == /\ frames # << >> /\ ~Between
           /\ frames' = [frames EXCEPT ![Len(frames)].udata = Nil]
           /\ UNCHANGED <<h, life, calls, late, count, steps>>

\* An error leaves the loop, and the tag methods that are left for another collection;
\* lua_close starts its loop again.
Fails == /\ frames # << >> /\ ~Between
         /\ IF life = "closing" /\ Len(frames) = 1
            THEN frames' = [frames EXCEPT ![1].udata = Nil] /\ h' = [h EXCEPT !.top = Nil, !.slot[Main] = Nil]
            ELSE frames' = SubSeq(frames, 1, Len(frames) - 1) /\ UNCHANGED h
         /\ UNCHANGED <<life, calls, late, count, steps>>

LoopEnds == /\ Between /\ h.tmudata = << >>
            /\ ~(life = "closing" /\ Len(frames) = 1)
            /\ frames' = SubSeq(frames, 1, Len(frames) - 1)
            /\ UNCHANGED <<h, life, calls, late, count, steps>>

\* lua_close: the stack is emptied, every userdata that is not finalized is set aside,
\* and when all tag methods have been called everything is freed.
lua_close ==
    /\ life = "open" /\ frames = << >>
    /\ h' = [luaC_separateudata(luaF_close(h, Main), h.marked) EXCEPT
                 !.top = Nil, !.slot[Main] = Nil, !.rootgc = SetToSeq(OpenIn(h, Main)) \o @]
    /\ life' = "closing" /\ frames' = <<[udata |-> Nil]>>
    /\ UNCHANGED <<calls, late, count, steps>>

close_state ==
    /\ life = "closing" /\ Len(frames) = 1 /\ Between /\ h.tmudata = << >>
    /\ life' = "closed" /\ frames' = << >>
    /\ h' = [h EXCEPT !.rootgc = << >>, !.rootudata = << >>, !.strt = {}, !.slot[Main] = Nil, !.top = Nil]
    /\ UNCHANGED <<calls, late, count, steps>>

-----------------------------------------------------------------------------
(* The program, and the tag methods.                                                *)

Free(o) == o \notin allocated(h)
Push(g, o) == [g EXCEPT !.top = o]
Tick == steps < MaxSteps /\ steps' = steps + 1
Step(g) == Tick /\ h' = g /\ UNCHANGED <<frames, life, calls, late, count>>

luaH_new == \E t \in Tables :
    /\ Runs /\ Free(t)
    /\ Step(Push([h EXCEPT !.node[t] = [key |-> Nil, val |-> Nil], !.mode[t] = {}, !.bits[t] = {},
                           !.rootgc = <<t>> \o @], t))

luaS_newudata == \E u \in Udatas, t \in ({h.slot[Main]} \cap Tables) \cup {Nil} :
    /\ Runs /\ Free(u)
    /\ h' = Push([h EXCEPT !.meta[u] = t, !.unfinalized = @ \cup {u}, !.rootudata = <<u>> \o @], u)
    /\ calls' = [calls EXCEPT ![u] = 0]
    /\ late' = IF life = "closing" THEN late \cup {u} ELSE late \ {u}
    /\ Tick /\ UNCHANGED <<frames, life, count>>

\* The string table holds a string once; asking for it again gives the same one.
luaS_newlstr == \E s \in Strings :
    Runs /\ Step(Push([h EXCEPT !.strt = @ \cup {s}], s))

luaE_newthread == \E c \in Coroutines, x \in {h.slot[Main], h.top} :
    Runs /\ Free(c) /\ Step(Push([h EXCEPT !.slot[c] = x, !.rootgc = <<c>> \o @], c))

\* OP_CLOSURE in a thread: luaF_findupval gives the open upvalue of the local variable.
luaF_newLclosure == \E f \in Closures, th \in Capturing, v \in Upvals :
    /\ Runs /\ Free(f)
    /\ th \in {Main} \cup InReach
    /\ \/ h.uv[v].open = th
       \/ OpenIn(h, th) = {} /\ v \notin Elements(h.rootgc) /\ h.uv[v].open = Nil
    /\ Step(Push([h EXCEPT !.upval[f] = v, !.uv[v] = [open |-> th, value |-> Nil], !.rootgc = <<f>> \o @], f))

\* The local variable of the main function goes out of scope (OP_CLOSE).
OP_CLOSE == /\ Runs /\ OpenIn(h, Main) # {}
            /\ Step([luaF_close(h, Main) EXCEPT !.rootgc = SetToSeq(OpenIn(h, Main)) \o @, !.slot[Main] = Nil])

\* t[k] = v.  The node of a field that was cleared is used again.
Store == \E t \in Tables \cap InReach, k \in InReach \ Tables, v \in {h.top, Nil} :
    /\ Runs
    /\ h.node[t].key = k \/ (h.node[t].val = Nil /\ v # Nil)
    /\ Step([h EXCEPT !.node[t] = [key |-> k, val |-> v]])

lua_setmetatable == \E t \in Tables \cap InReach, m \in Modes :
    /\ Runs /\ m # h.mode[t] /\ (LateModes \/ h.node[t].key = Nil)
    /\ Step([h EXCEPT !.mode[t] = m])

Assign == Runs /\ h.slot[Main] # h.top /\ Step([h EXCEPT !.slot[Main] = h.top])
Load   == \E x \in InReach \cup {Nil} : Runs /\ x # h.top /\ Step(Push(h, x))

Next == \/ luaC_collectgarbage \/ CallTM \/ Returns \/ Fails \/ LoopEnds \/ lua_close \/ close_state
        \/ luaH_new \/ luaS_newudata \/ luaS_newlstr \/ luaE_newthread \/ luaF_newLclosure \/ OP_CLOSE
        \/ Store \/ lua_setmetatable \/ Assign \/ Load

Spec == Init /\ [][Next]_vars

-----------------------------------------------------------------------------
(* Properties.                                                                      *)

Alive(x) == x \in allocated(h) \/ (x \in Upvals /\ h.uv[x].open # Nil)

\* Nothing is freed that the program, or a tag method that is still to be called, can
\* come to: not through closures, upvalues, other threads, weak tables or userdata
\* that was dead and came back.
ReachableIsAlive == life # "closed" => \A x \in Reachable : Alive(x)

\* The collector looks at allocated objects only, although the keys of cleared fields
\* stay in their nodes when their objects are freed.
SeesAllocated == h.ok

\* The gc tag method of a userdata is called at most once, also when it is stored again,
\* and has been called when the userdata is freed, whatever fails in between.
CalledOnce == \A u \in Udatas : calls[u] <= 1
FreedAfterCall ==
    [][\A u \in Udatas : u \in allocated(h) /\ u \notin allocated(h)' =>
          calls[u] = 1 \/ h.meta[u] = Nil \/ u \in late]_vars

\* A tag method does not find its userdata as a value of a weak table that the program
\* held when the userdata was collected; tables that come back with it are another matter,
\* and so are tables that the program only holds through userdata that wait for their tag
\* method: these are still marked from the collection before, and what only they hold is
\* traversed after weak values are cleared (ismarked, lgc.c:84, and marktmu).
WeakValuesGone ==
    [][\A u \in Elements(h'.tmudata) \ Elements(h.tmudata), t \in Tables \cap Held :
          life' = "open" /\ "v" \in h.mode[t] => h'.node[t].val # u]_vars

\* What was garbage before a collection is freed by it, or waits for its tag method.
\* Left out are tables that were weak in an earlier one and the strings in cleared nodes
\* of weak tables.
GarbageIsFreed ==
    [][count' > count =>
          \A o \in allocated(h)' :
             \/ o \in Closed(h, (Roots(h) \cup Elements(h'.tmudata)) \ {Nil}) \cup Fixed
             \/ (o \in Tables /\ h.bits[o] # {})
             \/ (o \in Strings /\ \E t \in Tables : h'.node[t].key = o /\ h.mode[t] # {})]_vars
=============================================================================
