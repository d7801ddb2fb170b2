------------------------------- MODULE LuaVM -------------------------------
(* The interpreter loop (luaV_execute of lvm.c) with the calls and returns   *)
(* of ldo.c, run on what the parser and the code generator make of a set of  *)
(* programs. Positions of the stack count from 1; a register is relative to  *)
(* the base of the running function. Tables are maps without metatables,     *)
(* numbers small integers; `emit' is a C function that returns its arguments.*)
EXTENDS LuaParser

CONSTANTS
  Program(_),  \* the programs (blocks)
  NPrograms,   \* how many there are
  Args         \* the arguments of every program

VARIABLES
  prog,        \* the program that runs
  compiled,    \* what the parser made of it
  stack, top,  \* the stack and its first free position
  ci,          \* the active functions, each [func, base, top, pc, nresults]
  tables,      \* sequence of maps from keys to values
  closures,    \* sequence of [path, upvals]: the prototype, as a path from the main one
  upvals,      \* sequence of [at, value]; at is 0 when the variable left the stack
  trace,       \* what was emitted
  status       \* "source", "run", "done", "rejected", or the error that ended the program

vars == <<prog, compiled, stack, top, ci, tables, closures, upvals, trace, status>>
heap == <<tables, closures, upvals>>

Emit == <<"C", "emit">>
Table(n) == <<"table", n>>
Closure(n) == <<"function", n>>
Bool(b) == IF b THEN True ELSE False
l_isfalse(v) == v \in {Nil, False}

Frame == ci[Len(ci)]
Fn(path) == FoldLeft(LAMBDA f, n : f.p[n + 1], compiled.main, path)
cl == closures[stack[Frame.func][2]]
P == Fn(cl.path)
I == P.code[Frame.pc + 1]
R(a) == stack[Frame.base + a]
RK_(x) == IF ISK(x) THEN P.k[x - BITRK + 1] ELSE R(x)
UpValue(u) == IF upvals[u].at = 0 THEN upvals[u].value ELSE stack[upvals[u].at]

\* The stack with the values from the position p on.
Write(st, p, vs) ==
  [i \in 1..(IF Len(st) < p + Len(vs) - 1 THEN p + Len(vs) - 1 ELSE Len(st)) |->
     IF i \in p..(p + Len(vs) - 1) THEN vs[i - p + 1] ELSE IF i \in DOMAIN st THEN st[i] ELSE Nil]
Padded(vs, n) == [i \in 1..n |-> IF i \in DOMAIN vs THEN vs[i] ELSE Nil]

Init ==
  /\ prog \in 1..NPrograms
  /\ status = "source"
  /\ compiled = <<>> /\ stack = <<>> /\ top = 1 /\ ci = <<>> /\ trace = <<>>
  /\ tables = <<String("emit") :> Emit>>
  /\ closures = <<[path |-> <<>>, upvals |-> <<1>>]>>
  /\ upvals = <<[at |-> 0, value |-> Table(1)]>>

\* The program is compiled and called with its arguments.
Load ==
  /\ status = "source"
  /\ compiled' = Parse("luaY_parser", Program(prog), 0)
  /\ status' = IF compiled'.err = "" THEN "run" ELSE "rejected"
  /\ LET size == compiled'.main.maxstacksize
         base == Len(Args) + 2
     IN /\ stack' = Write(<<>>, 1, <<Closure(1)>> \o Padded(Args, Len(Args) + size))
        /\ top' = base + size
        /\ ci' = <<[func |-> 1, base |-> base, top |-> base + size, pc |-> 0, nresults |-> MULTRET]>>
  /\ UNCHANGED <<prog, heap, trace>>

-----------------------------------------------------------------------------
Running(ops) == status = "run" /\ I.op \in ops

\* The next instruction is n further on.
Forward(n) == ci' = [ci EXCEPT ![Len(ci)].pc = @ + 1 + n]
Gets(a, v) == stack' = Write(stack, Frame.base + a, <<v>>)
luaG_runerror(what) ==
  status' = what /\ UNCHANGED <<prog, compiled, stack, top, ci, heap, trace>>

\* An instruction that only gives a register a value.
Computes(a, v, n) ==
  Gets(a, v) /\ Forward(n) /\ UNCHANGED <<prog, compiled, top, heap, trace, status>>

luaF_close(level) ==
  [u \in DOMAIN upvals |-> IF upvals[u].at >= level
                           THEN [at |-> 0, value |-> stack[upvals[u].at]] ELSE upvals[u]]

OP_MOVE == Running({"MOVE"}) /\ Computes(I.A, R(I.B), 0)
OP_LOADK == Running({"LOADK"}) /\ Computes(I.A, P.k[I.B + 1], 0)
OP_LOADKX == Running({"LOADKX"}) /\ Computes(I.A, P.k[P.code[Frame.pc + 2].B + 1], 1)
OP_LOADBOOL == Running({"LOADBOOL"}) /\ Computes(I.A, Bool(I.B = 1), I.C)
OP_LOADNIL ==
  /\ Running({"LOADNIL"})
  /\ stack' = Write(stack, Frame.base + I.A, [n \in 1..(I.B + 1) |-> Nil])
  /\ Forward(0)
  /\ UNCHANGED <<prog, compiled, top, heap, trace, status>>

OP_GETUPVAL == Running({"GETUPVAL"}) /\ Computes(I.A, UpValue(cl.upvals[I.B + 1]), 0)
OP_SETUPVAL ==
  /\ Running({"SETUPVAL"})
  /\ LET u == cl.upvals[I.B + 1]
     IN IF upvals[u].at = 0
        THEN upvals' = [upvals EXCEPT ![u].value = R(I.A)] /\ stack' = stack
        ELSE stack' = Write(stack, upvals[u].at, <<R(I.A)>>) /\ upvals' = upvals
  /\ Forward(0)
  /\ UNCHANGED <<prog, compiled, top, tables, closures, trace, status>>

luaH_get(t, k) == IF k \in DOMAIN tables[t[2]] THEN tables[t[2]][k] ELSE Nil
luaH_set(map, k, v) == IF v = Nil THEN [x \in DOMAIN map \ {k} |-> map[x]] ELSE (k :> v) @@ map
Indexes(t, k) == IF t[1] = "table" THEN Computes(I.A, luaH_get(t, k), 0) ELSE luaG_runerror("index")
Sets(t, k, v) ==
  IF t[1] # "table" THEN luaG_runerror("index")
  ELSE IF k = Nil THEN luaG_runerror("key")
  ELSE /\ tables' = [tables EXCEPT ![t[2]] = luaH_set(@, k, v)]
       /\ Forward(0)
       /\ UNCHANGED <<prog, compiled, stack, top, closures, upvals, trace, status>>
OP_GETTABUP == Running({"GETTABUP"}) /\ Indexes(UpValue(cl.upvals[I.B + 1]), RK_(I.C))
OP_GETTABLE == Running({"GETTABLE"}) /\ Indexes(R(I.B), RK_(I.C))
OP_SETTABUP == Running({"SETTABUP"}) /\ Sets(UpValue(cl.upvals[I.A + 1]), RK_(I.B), RK_(I.C))
OP_SETTABLE == Running({"SETTABLE"}) /\ Sets(R(I.A), RK_(I.B), RK_(I.C))
OP_NEWTABLE ==
  /\ Running({"NEWTABLE"})
  /\ tables' = Append(tables, <<>>)
  /\ Gets(I.A, Table(Len(tables) + 1)) /\ Forward(0)
  /\ UNCHANGED <<prog, compiled, top, closures, upvals, trace, status>>

\* The object goes to the second register before the method is looked up.
OP_SELF ==
  /\ Running({"SELF"})
  /\ IF R(I.B)[1] # "table" THEN luaG_runerror("index")
     ELSE /\ stack' = Write(stack, Frame.base + I.A, <<luaH_get(R(I.B), RK_(I.C)), R(I.B)>>)
          /\ Forward(0)
          /\ UNCHANGED <<prog, compiled, top, heap, trace, status>>

BinaryOf(op) == CASE op = "ADD" -> "+" [] op = "SUB" -> "-" [] op = "MUL" -> "*"
                  [] op = "IDIV" -> "//" [] op = "MOD" -> "%"
OP_ADD ==
  /\ Running(ArithOps)
  /\ LET b == RK_(I.B)
         c == RK_(I.C)
     IN IF b[1] # "int" \/ c[1] # "int" THEN luaG_runerror("arith")
        ELSE IF I.op \in {"IDIV", "MOD"} /\ c[2] = 0 THEN luaG_runerror("zero")
        ELSE Computes(I.A, Number(luaO_arith(BinaryOf(I.op), b[2], c[2])), 0)
OP_UNM ==
  /\ Running({"UNM"})
  /\ IF R(I.B)[1] # "int" THEN luaG_runerror("arith") ELSE Computes(I.A, Number(-R(I.B)[2]), 0)
OP_NOT == Running({"NOT"}) /\ Computes(I.A, Bool(l_isfalse(R(I.B))), 0)
luaH_getn(map) == CHOOSE n \in 0..Cardinality(DOMAIN map) :
  (\A i \in 1..n : Number(i) \in DOMAIN map) /\ Number(n + 1) \notin DOMAIN map
OP_LEN ==
  /\ Running({"LEN"})
  /\ IF R(I.B)[1] # "table" THEN luaG_runerror("length")
     ELSE Computes(I.A, Number(luaH_getn(tables[R(I.B)[2]])), 0)

\* The result is first put in the place of the first operand.
tostring(v) == IF v[1] = "int" THEN ToString(v[2]) ELSE v[2]
OP_CONCAT ==
  /\ Running({"CONCAT"})
  /\ LET operands == [n \in 1..(I.C - I.B + 1) |-> R(I.B + n - 1)]
         text == String(FoldLeft(LAMBDA s, v : s \o tostring(v), "", operands))
     IN IF \E n \in DOMAIN operands : operands[n][1] \notin {"int", "str"}
        THEN luaG_runerror("concat")
        ELSE /\ stack' = Write(Write(stack, Frame.base + I.B, <<text>>), Frame.base + I.A, <<text>>)
             /\ Forward(0)
             /\ UNCHANGED <<prog, compiled, top, heap, trace, status>>

\* A jump (the instruction j) closes the variables from a level on when it says so.
dojump(j, e) ==
  /\ Forward(j.B + e)
  /\ upvals' = IF j.A = 0 THEN upvals ELSE luaF_close(Frame.base + j.A - 1)
OP_JMP == /\ Running({"JMP"}) /\ dojump(I, 0)
          /\ UNCHANGED <<prog, compiled, stack, top, tables, closures, trace, status>>

\* A test runs the jump that follows it, or skips it.
Tests(holds) ==
  IF holds THEN dojump(P.code[Frame.pc + 2], 1) ELSE Forward(1) /\ upvals' = upvals
Compares(a, b) ==
  CASE I.op = "EQ" -> a = b [] I.op = "LT" -> a[2] < b[2] [] I.op = "LE" -> a[2] <= b[2]
OP_EQ ==
  /\ Running({"EQ", "LT", "LE"})
  /\ LET b == RK_(I.B)
         c == RK_(I.C)
     IN IF I.op # "EQ" /\ (b[1] # "int" \/ c[1] # "int") THEN luaG_runerror("compare")
        ELSE /\ Tests(Compares(b, c) <=> I.A = 1)
             /\ UNCHANGED <<prog, compiled, stack, top, tables, closures, trace, status>>
OP_TEST ==
  /\ Running({"TEST"})
  /\ Tests(l_isfalse(R(I.A)) <=> I.C = 0)
  /\ UNCHANGED <<prog, compiled, stack, top, tables, closures, trace, status>>
OP_TESTSET ==
  /\ Running({"TESTSET"})
  /\ LET taken == l_isfalse(R(I.B)) <=> I.C = 0
     IN /\ Tests(taken)
        /\ stack' = IF taken THEN Write(stack, Frame.base + I.A, <<R(I.B)>>) ELSE stack
  /\ UNCHANGED <<prog, compiled, top, tables, closures, trace, status>>

-----------------------------------------------------------------------------
(* Calls *)

\* The results, moved to res, as many as wanted, and the top that follows.
moveresults(st, vs, res, wanted) ==
  IF wanted = MULTRET THEN [stack |-> Write(st, res, vs), top |-> res + Len(vs)]
  ELSE [stack |-> Write(st, res, Padded(vs, wanted)), top |-> res + wanted]

\* The n arguments below tp, the parameters above them.
adjust_varargs(st, f, n, tp) ==
  LET fixed == [i \in 1..f.numparams |-> IF i <= n THEN st[tp - n + i - 1] ELSE Nil]
      erased == [i \in 1..(IF n < f.numparams THEN n ELSE f.numparams) |-> Nil]
  IN Write(Write(st, tp - n, erased), tp, fixed)

\* A call of a Lua function: the stack and the new element of ci. st has the function at
\* func and the arguments up to tp.
luaD_precall(st, func, tp, nresults) ==
  LET f == Fn(closures[st[func][2]].path)
      n == tp - func - 1
      base == IF f.isvararg THEN tp ELSE func + 1
  IN [stack |-> IF f.isvararg THEN adjust_varargs(st, f, n, tp)
                ELSE Write(st, tp, [i \in 1..(f.numparams - n) |-> Nil]),
      frame |-> [func |-> func, base |-> base, top |-> base + f.maxstacksize, pc |-> 0,
                 nresults |-> nresults]]

\* The top after a call, tp being the end of its results.
Restored(nresults, tp, limit) == IF nresults = MULTRET THEN tp ELSE limit

\* The call of what is at func in st. A C function is done at once.
Calls(st, func, tp, nresults) ==
  LET args == SubSeq(st, func + 1, tp - 1)
      r == moveresults(st, args, func, nresults)
      c == luaD_precall(st, func, tp, nresults)
  IN CASE st[func] = Emit ->
            /\ trace' = Append(trace, args)
            /\ stack' = r.stack
            /\ top' = Restored(nresults, r.top, Frame.top)
            /\ Forward(0)
            /\ UNCHANGED <<prog, compiled, heap, status>>
       [] st[func][1] = "function" ->
            /\ stack' = c.stack
            /\ top' = c.frame.top
            /\ ci' = Append([ci EXCEPT ![Len(ci)].pc = @ + 1], c.frame)
            /\ UNCHANGED <<prog, compiled, heap, trace, status>>
       [] OTHER -> luaG_runerror("call")

\* The top of the arguments; when B is 0 the instruction before left it.
ArgsTop == IF I.B # 0 THEN Frame.base + I.A + I.B ELSE top

OP_CALL == Running({"CALL"}) /\ Calls(stack, Frame.base + I.A, ArgsTop, I.C - 1)

\* The frame of the called function takes the place of the frame of the caller.
OP_TAILCALL ==
  /\ Running({"TAILCALL"})
  /\ LET nfunc == Frame.base + I.A
         c == luaD_precall(stack, nfunc, ArgsTop, MULTRET)
         ofunc == Frame.func
         numparams == Fn(closures[stack[nfunc][2]].path).numparams
         moved == SubSeq(c.stack, nfunc, c.frame.base + numparams - 1)
     IN IF stack[nfunc][1] # "function" THEN Calls(stack, nfunc, ArgsTop, MULTRET)
        ELSE /\ upvals' = IF P.p # <<>> THEN luaF_close(Frame.base) ELSE upvals
             /\ stack' = Write(c.stack, ofunc, moved)
             /\ ci' = [ci EXCEPT ![Len(ci)] =
                         [@ EXCEPT !.base = ofunc + (c.frame.base - nfunc), !.pc = 0,
                                   !.top = ofunc + (c.frame.top - nfunc)]]
             /\ top' = ofunc + (c.frame.top - nfunc)
             /\ UNCHANGED <<prog, compiled, tables, closures, trace, status>>

\* The results of the program are left from position 1 up to top.
OP_RETURN ==
  /\ Running({"RETURN"})
  /\ LET ra == Frame.base + I.A
         n == IF I.B # 0 THEN I.B - 1 ELSE top - ra
         r == moveresults(stack, SubSeq(stack, ra, ra + n - 1), Frame.func, Frame.nresults)
     IN /\ upvals' = IF P.p # <<>> THEN luaF_close(Frame.base) ELSE upvals
        /\ stack' = r.stack
        /\ ci' = SubSeq(ci, 1, Len(ci) - 1)
        /\ top' = IF Len(ci) > 1 THEN Restored(Frame.nresults, r.top, ci[Len(ci) - 1].top) ELSE r.top
        /\ status' = IF Len(ci) = 1 THEN "done" ELSE status
        /\ UNCHANGED <<prog, compiled, tables, closures, trace>>

OP_VARARG ==
  /\ Running({"VARARG"})
  /\ LET extra == Frame.base - Frame.func - P.numparams - 1
         n == IF extra < 0 THEN 0 ELSE extra
         ra == Frame.base + I.A
         vs == SubSeq(stack, Frame.base - n, Frame.base - 1)
     IN /\ stack' = Write(stack, ra, IF I.B = 0 THEN vs ELSE Padded(vs, I.B - 1))
        /\ top' = IF I.B = 0 THEN ra + n ELSE top
  /\ Forward(0)
  /\ UNCHANGED <<prog, compiled, heap, trace, status>>

-----------------------------------------------------------------------------
(* Loops, constructors, closures *)

OP_FORPREP ==
  /\ Running({"FORPREP"})
  /\ IF \E n \in 0..2 : R(I.A + n)[1] # "int" THEN luaG_runerror("for")
     ELSE Computes(I.A, Number(R(I.A)[2] - R(I.A + 2)[2]), I.B)
OP_FORLOOP ==
  /\ Running({"FORLOOP"})
  /\ LET step == R(I.A + 2)[2]
         idx == R(I.A)[2] + step
         limit == R(I.A + 1)[2]
         again == IF 0 < step THEN idx <= limit ELSE limit <= idx
         ra == Frame.base + I.A
     IN /\ stack' = IF again
                    THEN Write(Write(stack, ra, <<Number(idx)>>), ra + 3, <<Number(idx)>>) ELSE stack
        /\ Forward(IF again THEN I.B ELSE 0)
  /\ UNCHANGED <<prog, compiled, top, heap, trace, status>>

\* The generator and its arguments are copied; its results become the loop's variables.
OP_TFORCALL ==
  /\ Running({"TFORCALL"})
  /\ LET cb == Frame.base + I.A + 3
     IN Calls(Write(stack, cb, SubSeq(stack, cb - 3, cb - 1)), cb, cb + 3, I.C)
OP_TFORLOOP ==
  /\ Running({"TFORLOOP"})
  /\ IF R(I.A + 1) = Nil THEN Forward(0) /\ stack' = stack
     ELSE Gets(I.A, R(I.A + 1)) /\ Forward(I.B)
  /\ UNCHANGED <<prog, compiled, top, heap, trace, status>>

OP_SETLIST ==
  /\ Running({"SETLIST"})
  /\ LET n == IF I.B = 0 THEN top - (Frame.base + I.A) - 1 ELSE I.B
         c == IF I.C = 0 THEN P.code[Frame.pc + 2].B ELSE I.C
         first == (c - 1) * FieldsPerFlush
     IN tables' = [tables EXCEPT ![R(I.A)[2]] =
          FoldLeft(LAMBDA m, i : luaH_set(m, Number(first + i), R(I.A + i)), @,
                   [i \in 1..n |-> i])]
  /\ top' = Frame.top
  /\ Forward(IF I.C = 0 THEN 1 ELSE 0)
  /\ UNCHANGED <<prog, compiled, stack, closures, upvals, trace, status>>

\* The upvalues and the references to them so far, with one more for the description d.
luaF_findupval(a, level) ==
  LET same == {u \in DOMAIN a[1] : a[1][u].at = level}
  IN IF same = {} THEN <<Append(a[1], [at |-> level, value |-> Nil]), Len(a[1]) + 1>>
     ELSE <<a[1], CHOOSE u \in same : TRUE>>
capture(a, d) ==
  LET found == luaF_findupval(a, Frame.base + d.idx)
  IN IF d.instack THEN <<found[1], Append(a[2], found[2])>>
     ELSE <<a[1], Append(a[2], cl.upvals[d.idx + 1])>>
OP_CLOSURE ==
  /\ Running({"CLOSURE"})
  /\ LET path == Append(cl.path, I.B)
         a == FoldLeft(capture, <<upvals, <<>>>>, Fn(path).upvalues)
     IN /\ upvals' = a[1]
        /\ closures' = Append(closures, [path |-> path, upvals |-> a[2]])
        /\ Gets(I.A, Closure(Len(closures) + 1)) /\ Forward(0)
        /\ UNCHANGED <<prog, compiled, top, tables, trace, status>>

Next ==
  \/ Load
  \/ OP_MOVE \/ OP_LOADK \/ OP_LOADKX \/ OP_LOADBOOL \/ OP_LOADNIL
  \/ OP_GETUPVAL \/ OP_SETUPVAL \/ OP_GETTABUP \/ OP_GETTABLE \/ OP_SETTABUP \/ OP_SETTABLE
  \/ OP_NEWTABLE \/ OP_SELF \/ OP_ADD \/ OP_UNM \/ OP_NOT \/ OP_LEN \/ OP_CONCAT
  \/ OP_JMP \/ OP_EQ \/ OP_TEST \/ OP_TESTSET \/ OP_CALL \/ OP_TAILCALL \/ OP_RETURN \/ OP_VARARG
  \/ OP_FORPREP \/ OP_FORLOOP \/ OP_TFORCALL \/ OP_TFORLOOP \/ OP_SETLIST \/ OP_CLOSURE

Spec == Init /\ [][Next]_vars

-----------------------------------------------------------------------------
Lang == INSTANCE LuaLang

\* A program is rejected exactly when the rules of the language forbid it, and no
\* assertion of the parser or of the code generator fails.
RejectsRight ==
  [][status = "source" => /\ compiled'.err # "assert"
                          /\ compiled'.err = "" <=> Lang!Legal(Program(prog))]_vars

\* Registers that an instruction names, besides A.
Operands(i) ==
  CASE i.op \in {"MOVE", "UNM", "NOT", "LEN", "TESTSET"} -> {i.B}
    [] i.op \in {"GETTABLE", "SELF"} -> {i.B, i.C}
    [] i.op \in {"GETTABUP"} -> {i.C}
    [] i.op \in ArithOps \cup {"EQ", "LT", "LE", "SETTABUP", "SETTABLE"} -> {i.B, i.C}
    [] i.op = "CONCAT" -> i.B..i.C
    [] OTHER -> {}
RegisterA(i) ==
  CASE i.op \in {"EQ", "LT", "LE", "JMP", "SETTABUP", "EXTRAARG"} -> {}
    [] i.op = "SELF" -> {i.A, i.A + 1}
    [] i.op = "LOADNIL" -> {i.A, i.A + i.B}
    [] i.op \in {"FORPREP", "FORLOOP"} -> {i.A + 3}
    [] i.op = "TFORCALL" -> {i.A + 2 + i.C, i.A + 5}
    [] i.op = "RETURN" -> IF i.B > 1 THEN {i.A + i.B - 2} ELSE {}
    [] i.op \in {"CALL", "TAILCALL"} -> {i.A, i.A + i.B - 1}
    [] OTHER -> {i.A}

\* Code that the interpreter can run without a check: every jump lands on an instruction
\* of the function, a test is followed by a jump, registers lie within the frame,
\* constants, upvalues and nested functions exist, and no way leads past the last return.
WellFormedInstruction(f, n) ==
  LET i == f.code[n]
  IN /\ i.op \in {"JMP", "FORPREP", "FORLOOP", "TFORLOOP"} => n + 1 + i.B \in DOMAIN f.code
     /\ i.op \in TestOps => f.code[n + 1].op = "JMP"
     /\ i.op = "LOADBOOL" /\ i.C = 1 => n + 2 \in DOMAIN f.code
     /\ \A x \in Operands(i) : IF ISK(x) THEN x - BITRK + 1 \in DOMAIN f.k ELSE x < f.maxstacksize
     /\ \A x \in RegisterA(i) : x < f.maxstacksize
     /\ i.op = "LOADK" => i.B + 1 \in DOMAIN f.k
     /\ i.op \in {"GETUPVAL", "SETUPVAL", "GETTABUP"} => i.B + 1 \in DOMAIN f.upvalues
     /\ i.op = "CLOSURE" => i.B + 1 \in DOMAIN f.p
RECURSIVE WellFormed(_)
WellFormed(f) ==
  /\ f.maxstacksize <= MaxRegs
  /\ f.code[Len(f.code)].op = "RETURN"
  /\ \A n \in DOMAIN f.code : WellFormedInstruction(f, n)
  /\ \A n \in DOMAIN f.p : WellFormed(f.p[n])
CodeWellFormed == status = "run" /\ Frame.pc = 0 => WellFormed(compiled.main)

\* The program emitted, returned or failed as the language says it does.
RunsAsWritten ==
  [][status' \notin {"source", "run", "rejected"} =>
       LET said == Lang!Outcome(Program(prog), Args)
       IN /\ trace' = said.trace
          /\ IF status' = "done" THEN said.err = "" /\ SubSeq(stack', 1, top' - 1) = said.result
             ELSE status' = said.err]_vars
=============================================================================
