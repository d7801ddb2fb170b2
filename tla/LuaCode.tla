------------------------------ MODULE LuaCode ------------------------------
(* The code generator of Lua (lcode.c). An operator takes the state of the   *)
(* function being compiled and returns the next one. The expression at hand  *)
(* (an expdesc) is the field e of that state. A list of jumps that wait for  *)
(* their destination is threaded through the instructions themselves, each   *)
(* jump holding the distance to the next one.                                *)
EXTENDS Integers, Sequences, FiniteSets, TLC

CONSTANTS
  MaxIndexRK,      \* greatest constant that an operand can name (MAXINDEXRK)
  MaxArgBx,        \* greatest constant that OP_LOADK can name (MAXARG_Bx)
  MaxArgC,         \* greatest batch of items that OP_SETLIST can name (MAXARG_C)
  MaxRegs,         \* registers of a function (MAXREGS)
  FieldsPerFlush   \* items of a constructor stored together (LFIELDS_PER_FLUSH)

NO_JUMP == -1
NO_REG == 255
BITRK == 256
MULTRET == -1
ISK(x) == x >= BITRK

\* Values and constants.
Nil == <<"nil">>
True == <<"true">>
False == <<"false">>
Number(n) == <<"int", n>>
String(s) == <<"str", s>>

\* An instruction; a jump keeps its distance in B, OP_CLOSURE and OP_LOADK what they name.
ABC(op, a, b, c) == [op |-> op, A |-> a, B |-> b, C |-> c]
TestOps == {"EQ", "LT", "LE", "TEST", "TESTSET"}
ArithOps == {"ADD", "SUB", "MUL", "IDIV", "MOD"}

init_exp(k, i) == [k |-> k, v |-> i, t |-> NO_JUMP, f |-> NO_JUMP]
hasjumps(e) == e.t # e.f
With(c, e) == [c EXCEPT !.e = e]

\* The first error ends the compilation.
Error(c, what) == IF c.err = "" THEN [c EXCEPT !.err = what] ELSE c
Assert_(c, holds) == IF holds THEN c ELSE Error(c, "assert")

pc(c) == Len(c.code)
last(c) == Len(c.code) - 1
Ins(c, at) == c.code[at + 1]

-----------------------------------------------------------------------------
(* Lists of jumps *)

getjump(c, at) == IF Ins(c, at).B = NO_JUMP THEN NO_JUMP ELSE at + 1 + Ins(c, at).B
fixjump(c, at, dest) == [c EXCEPT !.code[at + 1].B = dest - (at + 1)]

\* The jumps of a list, from the first on.
RECURSIVE Jumps(_, _)
Jumps(c, list) == IF list = NO_JUMP THEN <<>> ELSE <<list>> \o Jumps(c, getjump(c, list))
JumpsOf(c, list) == LET js == Jumps(c, list) IN {js[n] : n \in DOMAIN js}

\* luaK_concat: the list that has both, and the code in which they are linked.
both(l1, l2) == IF l1 = NO_JUMP THEN l2 ELSE l1
linked(c, l1, l2) ==
  IF l1 = NO_JUMP \/ l2 = NO_JUMP THEN c
  ELSE LET js == Jumps(c, l1) IN fixjump(c, js[Len(js)], l2)

luaK_getlabel(c) == [c EXCEPT !.lasttarget = pc(c)]

\* The instruction that decides whether a jump is taken.
getjumpcontrol(c, at) == IF at >= 1 /\ Ins(c, at - 1).op \in TestOps THEN at - 1 ELSE at
givesvalue(c, at) == Ins(c, getjumpcontrol(c, at)).op = "TESTSET"

patchtestreg(c, node, reg) ==
  LET i == getjumpcontrol(c, node) + 1
  IN IF ~ givesvalue(c, node) THEN c
     ELSE IF reg # NO_REG /\ reg # c.code[i].B THEN [c EXCEPT !.code[i].A = reg]
     ELSE [c EXCEPT !.code[i] = ABC("TEST", @.B, 0, @.C)]

RECURSIVE removevalues(_, _)
removevalues(c, list) ==
  IF list = NO_JUMP THEN c ELSE removevalues(patchtestreg(c, list, NO_REG), getjump(c, list))

RECURSIVE patchlistaux(_, _, _, _, _)
patchlistaux(c, list, vtarget, reg, dtarget) ==
  IF list = NO_JUMP THEN c
  ELSE patchlistaux(fixjump(patchtestreg(c, list, reg), list,
                            IF givesvalue(c, list) THEN vtarget ELSE dtarget),
                    getjump(c, list), vtarget, reg, dtarget)

dischargejpc(c) == [patchlistaux(c, c.jpc, pc(c), NO_REG, pc(c)) EXCEPT !.jpc = NO_JUMP]

luaK_patchtohere(c, list) ==
  LET d == luaK_getlabel(c) IN [linked(d, d.jpc, list) EXCEPT !.jpc = both(d.jpc, list)]

luaK_patchlist(c, list, target) ==
  IF target = pc(c) THEN luaK_patchtohere(c, list)
  ELSE patchlistaux(c, list, target, NO_REG, target)

RECURSIVE luaK_patchclose(_, _, _)
luaK_patchclose(c, list, level) ==
  LET i == list + 1
      closes == c.code[i].op = "JMP" /\ (c.code[i].A = 0 \/ c.code[i].A >= level + 1)
  IN IF list = NO_JUMP THEN c
     ELSE luaK_patchclose([Assert_(c, closes) EXCEPT !.code[i].A = level + 1],
                          getjump(c, list), level)

-----------------------------------------------------------------------------
(* Instructions, registers, constants *)

luaK_code(c, i) == LET d == dischargejpc(c) IN [d EXCEPT !.code = Append(@, i)]

\* Jumps to the new jump will go straight to where it goes.
luaK_jump(c) == linked(luaK_code([c EXCEPT !.jpc = NO_JUMP], ABC("JMP", 0, NO_JUMP, 0)),
                       pc(c), c.jpc)
condjump(c, op, a, b, cc) == luaK_jump(luaK_code(c, ABC(op, a, b, cc)))
luaK_jumpto(c, target) == luaK_patchlist(luaK_jump(c), pc(c), target)
luaK_ret(c, first, nret) == luaK_code(c, ABC("RETURN", first, nret + 1, 0))

luaK_codek(c, reg, k) ==
  IF k <= MaxArgBx THEN luaK_code(c, ABC("LOADK", reg, k, 0))
  ELSE luaK_code(luaK_code(c, ABC("LOADKX", reg, 0, 0)), ABC("EXTRAARG", 0, k, 0))

\* Neighbouring OP_LOADNILs become one, unless a jump may come between them.
luaK_nil(c, from, n) ==
  LET l == from + n - 1
      q == Ins(c, last(c))
      pl == q.A + q.B
      low == IF q.A < from THEN q.A ELSE from
      high == IF pl > l THEN pl ELSE l
      joins == /\ pc(c) > c.lasttarget
               /\ pc(c) > 0 /\ q.op = "LOADNIL"
               /\ (q.A <= from /\ from <= pl + 1) \/ (from <= q.A /\ q.A <= l + 1)
  IN IF joins THEN [c EXCEPT !.code[pc(c)] = ABC("LOADNIL", low, high - low, 0)]
     ELSE luaK_code(c, ABC("LOADNIL", from, n - 1, 0))

luaK_checkstack(c, n) ==
  LET new == c.freereg + n
  IN IF new <= c.maxstacksize THEN c
     ELSE IF new >= MaxRegs THEN Error(c, "registers")
     ELSE [c EXCEPT !.maxstacksize = new]
luaK_reserveregs(c, n) == [luaK_checkstack(c, n) EXCEPT !.freereg = @ + n]

freereg(c, reg) ==
  IF ISK(reg) \/ reg < c.nactvar THEN c
  ELSE [Assert_(c, reg = c.freereg - 1) EXCEPT !.freereg = @ - 1]
freeexp(c, e) == IF e.k = "VNONRELOC" THEN freereg(c, e.v) ELSE c
freeexps(c, e1, e2) ==
  LET r1 == IF e1.k = "VNONRELOC" THEN e1.v ELSE -1
      r2 == IF e2.k = "VNONRELOC" THEN e2.v ELSE -1
  IN IF r1 > r2 THEN freeexp(freeexp(c, e1), e2) ELSE freeexp(freeexp(c, e2), e1)

\* The scanner's table h, which the functions of a chunk share, remembers where a
\* constant was put. Afterwards h[v] is the index of v.
addk(c, v) ==
  IF v \in DOMAIN c.h /\ c.h[v] < Len(c.k) /\ c.k[c.h[v] + 1] = v THEN c
  ELSE [c EXCEPT !.h = (v :> Len(c.k)) @@ @, !.k = Append(@, v)]

\* The operators below call each other by name, so that each of them stands once in the
\* tree of expressions that TLC counts the evaluations of.
RECURSIVE luaK(_, _, _)

-----------------------------------------------------------------------------
(* Expressions: the value of c.e is brought where it is needed *)

Relocable(c, i) == [luaK_code(c, i) EXCEPT !.e.k = "VRELOCABLE", !.e.v = pc(c)]

luaK_setreturns(c, nresults) ==
  CASE c.e.k = "VCALL" -> [c EXCEPT !.code[c.e.v + 1].C = nresults + 1]
    [] c.e.k = "VVARARG" ->
         luaK_reserveregs([c EXCEPT !.code[c.e.v + 1].B = nresults + 1,
                                    !.code[c.e.v + 1].A = c.freereg], 1)
    [] OTHER -> c

luaK_setoneret(c) ==
  CASE c.e.k = "VCALL" -> [c EXCEPT !.e.k = "VNONRELOC", !.e.v = Ins(c, c.e.v).A]
    [] c.e.k = "VVARARG" -> [c EXCEPT !.code[c.e.v + 1].B = 2, !.e.k = "VRELOCABLE"]
    [] OTHER -> c

luaK_dischargevars(c) ==
  CASE c.e.k = "VLOCAL" -> [c EXCEPT !.e.k = "VNONRELOC"]
    [] c.e.k = "VUPVAL" -> Relocable(c, ABC("GETUPVAL", 0, c.e.v, 0))
    [] c.e.k = "VINDEXED" ->
         LET ind == c.e.v
             d == freereg(c, ind.idx)
         IN IF ind.vt = "VLOCAL"
            THEN Relocable(freereg(d, ind.t), ABC("GETTABLE", 0, ind.t, ind.idx))
            ELSE Relocable(d, ABC("GETTABUP", 0, ind.t, ind.idx))
    [] OTHER -> luaK_setoneret(c)

\* The constant that an expression is.
ConstantOf(e) ==
  CASE e.k = "VNIL" -> Nil [] e.k = "VTRUE" -> True [] e.k = "VFALSE" -> False
    [] OTHER -> Number(e.v)

discharge2reg(c, reg) ==
  LET d == luaK("dischargevars", c, 0)
      e == d.e
      kept == addk(d, ConstantOf(e))
      placed == CASE e.k = "VNIL" -> luaK_nil(d, reg, 1)
                  [] e.k \in {"VTRUE", "VFALSE"} ->
                       luaK_code(d, ABC("LOADBOOL", reg, IF e.k = "VTRUE" THEN 1 ELSE 0, 0))
                  [] e.k = "VK" -> luaK_codek(d, reg, e.v)
                  [] e.k = "VKINT" -> luaK_codek(kept, reg, kept.h[Number(e.v)])
                  [] e.k = "VRELOCABLE" -> [d EXCEPT !.code[e.v + 1].A = reg]
                  [] e.k = "VNONRELOC" /\ e.v # reg -> luaK_code(d, ABC("MOVE", reg, e.v, 0))
                  [] OTHER -> d
  IN IF e.k = "VJMP" THEN d ELSE [placed EXCEPT !.e.k = "VNONRELOC", !.e.v = reg]

discharge2anyreg(c) ==
  IF c.e.k = "VNONRELOC" THEN c
  ELSE LET d == luaK_reserveregs(c, 1) IN luaK("discharge2reg", d, d.freereg - 1)

code_loadbool(c, a, b, jump) == luaK_code(luaK_getlabel(c), ABC("LOADBOOL", a, b, jump))
need_value_Never(c, list) == FALSE
need_value(c, list) == \E j \in JumpsOf(c, list) : ~ givesvalue(c, j)

\* A jump that carries no value goes to an instruction that loads true or false.
exp2reg(c, reg) ==
  LET d == luaK("discharge2reg", c, reg)
      test == d.e.k = "VJMP"
      g == IF test THEN [linked(d, d.e.t, d.e.v) EXCEPT !.e.t = both(d.e.t, d.e.v)] ELSE d
      need == need_value(g, g.e.t) \/ need_value(g, g.e.f)
      fj == IF test THEN g ELSE luaK_jump(g)
      ldf == code_loadbool(fj, reg, 0, 1)
      ldt == code_loadbool(ldf, reg, 1, 0)
      loads == luaK_patchtohere(ldt, IF test THEN NO_JUMP ELSE last(fj))
      h == luaK_getlabel(IF need THEN loads ELSE g)
      p_f == IF need THEN last(ldf) ELSE NO_JUMP
      p_t == IF need THEN last(ldt) ELSE NO_JUMP
      patched == patchlistaux(patchlistaux(h, h.e.f, pc(h), reg, p_f), h.e.t, pc(h), reg, p_t)
  IN With(IF hasjumps(g.e) THEN patched ELSE g, init_exp("VNONRELOC", reg))

luaK_exp2nextreg(c) ==
  LET d == luaK("dischargevars", c, 0)
      r == luaK_reserveregs(freeexp(d, d.e), 1)
  IN luaK("exp2reg", r, r.freereg - 1)

luaK_exp2anyreg(c) ==
  LET d == luaK("dischargevars", c, 0)
  IN IF d.e.k = "VNONRELOC" /\ ~ hasjumps(d.e) THEN d
     ELSE IF d.e.k = "VNONRELOC" /\ d.e.v >= d.nactvar THEN luaK("exp2reg", d, d.e.v)
     ELSE luaK("exp2nextreg", d, 0)

luaK_exp2anyregup(c) == IF c.e.k # "VUPVAL" \/ hasjumps(c.e) THEN luaK("exp2anyreg", c, 0) ELSE c
luaK_exp2val(c) == IF hasjumps(c.e) THEN luaK("exp2anyreg", c, 0) ELSE luaK("dischargevars", c, 0)

\* Afterwards RK(e) is the operand.
RK(e) == IF e.k = "VK" THEN e.v + BITRK ELSE e.v
luaK_exp2RK(c) ==
  LET d == luaK("exp2val", c, 0)
      v == ConstantOf(d.e)
      kept == addk(d, v)
      g == IF d.e.k \in {"VTRUE", "VFALSE", "VNIL", "VKINT"}
           THEN [kept EXCEPT !.e.k = "VK", !.e.v = kept.h[v]] ELSE d
  IN IF g.e.k = "VK" /\ g.e.v <= MaxIndexRK THEN g ELSE luaK("exp2anyreg", g, 0)

\* Store c.e in a variable.
luaK_storevar(c, var) ==
  CASE var.k = "VLOCAL" -> luaK("exp2reg", freeexp(c, c.e), var.v)
    [] var.k = "VUPVAL" -> LET d == luaK("exp2anyreg", c, 0)
                           IN freeexp(luaK_code(d, ABC("SETUPVAL", d.e.v, var.v, 0)), d.e)
    [] var.k = "VINDEXED" ->
         LET d == luaK("exp2RK", c, 0)
             op == IF var.v.vt = "VLOCAL" THEN "SETTABLE" ELSE "SETTABUP"
         IN freeexp(luaK_code(d, ABC(op, var.v.t, var.v.idx, RK(d.e))), d.e)

luaK_self(c, key) ==
  LET d == luaK("exp2anyreg", c, 0)
      g == freeexp(d, d.e)
      r == luaK_reserveregs(g, 2)
      q == luaK("exp2RK", With(r, key), 0)
  IN With(freeexp(luaK_code(q, ABC("SELF", g.freereg, d.e.v, RK(q.e))), q.e),
          [d.e EXCEPT !.k = "VNONRELOC", !.v = g.freereg])

\* t[k], k being c.e.
luaK_indexed(c, t) ==
  LET d == luaK("exp2RK", c, 0)
  IN With(Assert_(d, ~ hasjumps(t) /\ t.k \in {"VNONRELOC", "VLOCAL", "VUPVAL"}),
          [t EXCEPT !.k = "VINDEXED",
                    !.v = [t |-> t.v, idx |-> RK(d.e),
                           vt |-> IF t.k = "VUPVAL" THEN "VUPVAL" ELSE "VLOCAL"]])

-----------------------------------------------------------------------------
(* Conditions *)

negatecondition(c) ==
  LET i == getjumpcontrol(c, c.e.v)
  IN [Assert_(c, Ins(c, i).op \in {"EQ", "LT", "LE"}) EXCEPT !.code[i + 1].A = 1 - @]

\* The jump is the last instruction.
jumponcond(c, cond) ==
  IF c.e.k = "VRELOCABLE" /\ Ins(c, c.e.v).op = "NOT"
  THEN condjump([c EXCEPT !.code = SubSeq(@, 1, Len(@) - 1)],
                "TEST", Ins(c, c.e.v).B, 0, 1 - cond)
  ELSE LET d == luaK("discharge2anyreg", c, 0)
       IN condjump(freeexp(d, d.e), "TESTSET", NO_REG, d.e.v, cond)

luaK_goiftrue(c) ==
  LET d == luaK("dischargevars", c, 0)
      always == d.e.k \in {"VK", "VKINT", "VTRUE"}
      g == CASE d.e.k = "VJMP" -> negatecondition(d) [] always -> d [] OTHER -> luaK("jumponcond", d, 0)
      j == CASE d.e.k = "VJMP" -> d.e.v [] always -> NO_JUMP [] OTHER -> last(g)
      l == linked(g, g.e.f, j)
  IN [luaK_patchtohere(l, l.e.t) EXCEPT !.e.f = both(@, j), !.e.t = NO_JUMP]

luaK_goiffalse(c) ==
  LET d == luaK("dischargevars", c, 0)
      never == d.e.k \in {"VNIL", "VFALSE"}
      g == IF d.e.k = "VJMP" \/ never THEN d ELSE luaK("jumponcond", d, 1)
      j == CASE d.e.k = "VJMP" -> d.e.v [] never -> NO_JUMP [] OTHER -> last(g)
      l == linked(g, g.e.t, j)
  IN [luaK_patchtohere(l, l.e.f) EXCEPT !.e.t = both(@, j), !.e.f = NO_JUMP]

codenot(c) ==
  LET d == luaK("dischargevars", c, 0)
      r == luaK("discharge2anyreg", d, 0)
      g == CASE d.e.k \in {"VNIL", "VFALSE"} -> [d EXCEPT !.e.k = "VTRUE"]
             [] d.e.k \in {"VK", "VKINT", "VTRUE"} -> [d EXCEPT !.e.k = "VFALSE"]
             [] d.e.k = "VJMP" -> negatecondition(d)
             [] OTHER -> Relocable(freeexp(r, r.e), ABC("NOT", 0, r.e.v, 0))
      s == [g EXCEPT !.e.t = g.e.f, !.e.f = g.e.t]
  IN removevalues(removevalues(s, s.e.f), s.e.t)

-----------------------------------------------------------------------------
(* Operators *)

isnumeral(e) == e.k = "VKINT" /\ ~ hasjumps(e)

\* Division and modulo by zero are left to run time.
validop(op, e2) == op \in {"//", "%"} => e2.v # 0
luaO_arith(op, a, b) ==
  CASE op = "+" -> a + b [] op = "-" -> a - b [] op = "*" -> a * b
    [] op = "//" -> IF b > 0 THEN a \div b ELSE (-a) \div (-b)
    [] op = "%" -> IF b > 0 THEN a % b ELSE -((-a) % (-b))
OpCode(op) ==
  CASE op = "+" -> "ADD" [] op = "-" -> "SUB" [] op = "*" -> "MUL" [] op = "//" -> "IDIV"
    [] op = "%" -> "MOD" [] op \in {"==", "~="} -> "EQ" [] op \in {"<", ">"} -> "LT"
    [] op \in {"<=", ">="} -> "LE"
foldable(op, e1, e2) == isnumeral(e1) /\ isnumeral(e2) /\ validop(op, e2)

codeunexpval(c, op) ==
  LET r == luaK("exp2anyreg", c, 0) IN Relocable(freeexp(r, r.e), ABC(op, 0, r.e.v, 0))

\* The second operand, c.e, goes first: it has the younger registers.
codebinexpval(c, op, e1) ==
  LET d2 == luaK("exp2RK", c, 0)
      d1 == luaK("exp2RK", With(d2, e1), 0)
  IN Relocable(freeexps(d1, d1.e, d2.e), ABC(op, 0, RK(d1.e), RK(d2.e)))

codecomp(c, op, e1) ==
  LET d == luaK("exp2RK", c, 0)
      g == freeexps(d, e1, d.e)
      j == CASE op = "~=" -> condjump(g, "EQ", 0, RK(e1), RK(d.e))
             [] op \in {">", ">="} -> condjump(g, OpCode(op), 1, RK(d.e), RK(e1))
             [] OTHER -> condjump(g, OpCode(op), 1, RK(e1), RK(d.e))
  IN With(j, [e1 EXCEPT !.k = "VJMP", !.v = last(j)])

luaK_prefix(c, op) ==
  CASE op = "not" -> codenot(c)
    [] op = "-" /\ isnumeral(c.e) -> [c EXCEPT !.e.v = -@]
    [] OTHER -> codeunexpval(c, IF op = "-" THEN "UNM" ELSE "LEN")

luaK_infix(c, op) ==
  CASE op = "and" -> luaK("goiftrue", c, 0)
    [] op = "or" -> luaK("goiffalse", c, 0)
    [] op = ".." -> luaK("exp2nextreg", c, 0)
    [] op \in {"+", "-", "*", "//", "%"} /\ isnumeral(c.e) -> c
    [] OTHER -> luaK("exp2RK", c, 0)

\* e1 op c.e. A concatenation on the right takes in the operand on the left.
luaK_posfix(c, op, e1) ==
  CASE op = "and" -> LET d == luaK("dischargevars", c, 0)
                     IN [linked(d, d.e.f, e1.f) EXCEPT !.e.f = both(@, e1.f)]
    [] op = "or" -> LET d == luaK("dischargevars", c, 0)
                    IN [linked(d, d.e.t, e1.t) EXCEPT !.e.t = both(@, e1.t)]
    [] op = ".." ->
         LET d == luaK("exp2val", c, 0)
             merges == d.e.k = "VRELOCABLE" /\ Ins(d, d.e.v).op = "CONCAT"
             g == Assert_(d, e1.v = Ins(d, d.e.v).B - 1)
         IN IF merges
            THEN With([freeexp(g, e1) EXCEPT !.code[d.e.v + 1].B = e1.v],
                      [e1 EXCEPT !.k = "VRELOCABLE", !.v = d.e.v])
            ELSE luaK("codebinexpval", luaK("exp2nextreg", d, 0), <<"CONCAT", e1>>)
    [] op \in {"+", "-", "*", "//", "%"} ->
         IF foldable(op, e1, c.e) THEN With(c, [e1 EXCEPT !.v = luaO_arith(op, e1.v, c.e.v)])
         ELSE luaK("codebinexpval", c, <<OpCode(op), e1>>)
    [] OTHER -> luaK("codecomp", c, <<op, e1>>)

luaK_setlist(c, base, nelems, tostore) ==
  LET batch == (nelems - 1) \div FieldsPerFlush + 1
      b == IF tostore = MULTRET THEN 0 ELSE tostore
      d == IF batch <= MaxArgC THEN luaK_code(c, ABC("SETLIST", base, b, batch))
           ELSE luaK_code(luaK_code(c, ABC("SETLIST", base, b, 0)), ABC("EXTRAARG", 0, batch, 0))
  IN [d EXCEPT !.freereg = base + 1]

\* The operator of that name.
luaK(op, c, x) ==
  CASE op = "dischargevars" -> luaK_dischargevars(c)
    [] op = "discharge2reg" -> discharge2reg(c, x)
    [] op = "discharge2anyreg" -> discharge2anyreg(c)
    [] op = "exp2reg" -> exp2reg(c, x)
    [] op = "exp2nextreg" -> luaK_exp2nextreg(c)
    [] op = "exp2anyreg" -> luaK_exp2anyreg(c)
    [] op = "exp2anyregup" -> luaK_exp2anyregup(c)
    [] op = "exp2val" -> luaK_exp2val(c)
    [] op = "exp2RK" -> luaK_exp2RK(c)
    [] op = "storevar" -> luaK_storevar(c, x)
    [] op = "self" -> luaK_self(c, x)
    [] op = "indexed" -> luaK_indexed(c, x)
    [] op = "jumponcond" -> jumponcond(c, x)
    [] op = "goiftrue" -> luaK_goiftrue(c)
    [] op = "goiffalse" -> luaK_goiffalse(c)
    [] op = "prefix" -> luaK_prefix(c, x)
    [] op = "infix" -> luaK_infix(c, x)
    [] op = "posfix" -> luaK_posfix(c, x[1], x[2])
    [] op = "codebinexpval" -> codebinexpval(c, x[1], x[2])
    [] op = "codecomp" -> codecomp(c, x[1], x[2])
=============================================================================
