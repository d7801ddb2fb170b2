----------------------------- MODULE LuaParser -----------------------------
(* The parser of Lua (lparser.c), which has code generated as it goes. What  *)
(* the scanner delivers is given as trees for statements; an expression is   *)
(* the sequence of its operators and operands, so that precedence is decided *)
(* here. The lists of labels and of pending gotos are kept by function.      *)
EXTENDS LuaCode, SequencesExt

CONSTANTS
  MaxVars,      \* variables active in a function (MAXVARS)
  MaxUpvals     \* upvalues of a function (MAXUPVAL)

\* The operators below call each other by name, as in LuaCode.
RECURSIVE Parse(_, _, _)
code(op, c, x) == Parse("code", c, <<op, x>>)

VoidExp == init_exp("VVOID", 0)
hasmultret(k) == k \in {"VCALL", "VVARARG"}
vkisvar(k) == k \in {"VLOCAL", "VINDEXED", "VUPVAL"}
block_of(c) == c.bl[Len(c.bl)]

-----------------------------------------------------------------------------
(* Variables *)

codestring(c, s) ==
  LET d == addk(c, String(s)) IN With(d, init_exp("VK", d.h[String(s)]))

new_localvar(c, name) ==
  IF Len(c.vars) < MaxVars THEN [c EXCEPT !.vars = Append(@, name)] ELSE Error(c, "variables")
new_localvars(c, names) == FoldLeft(new_localvar, c, names)
adjustlocalvars(c, nvars) == [c EXCEPT !.nactvar = @ + nvars]
removevars(c, tolevel) ==
  [c EXCEPT !.vars = SubSeq(@, 1, Len(@) - (c.nactvar - tolevel)), !.nactvar = tolevel]

\* -1 when there is none. The variable declared last hides the others.
Greatest(S) == IF S = {} THEN -1 ELSE Max(S)
searchvar(c, name) == Greatest({i \in 0..(c.nactvar - 1) : c.vars[i + 1] = name})
searchupvalue(c, name) == Greatest({i \in 0..(Len(c.upvalues) - 1) : c.upvalues[i + 1].name = name})

newupvalue(c, name, e) ==
  IF Len(c.upvalues) < MaxUpvals
  THEN [c EXCEPT !.upvalues = Append(@, [name |-> name, instack |-> e.k = "VLOCAL", idx |-> e.v])]
  ELSE Error(c, "upvalues")

\* The block that declares the variable at that level will have to close it.
markupval(c, level) ==
  [c EXCEPT !.bl[Max({b \in DOMAIN c.bl : c.bl[b].nactvar <= level})].upval = TRUE]

\* An upvalue goes through all the functions in between.
RECURSIVE singlevaraux(_, _, _)
singlevaraux(c, name, base) ==
  LET v == searchvar(c, name)
      idx == searchupvalue(c, name)
      outer == singlevaraux(c.prev[1], name, FALSE)
      d == [c EXCEPT !.prev = <<outer>>]
  IN CASE v >= 0 -> With(IF base THEN c ELSE markupval(c, v), init_exp("VLOCAL", v))
       [] v < 0 /\ idx >= 0 -> With(c, init_exp("VUPVAL", idx))
       [] v < 0 /\ idx < 0 ->
            IF c.prev = <<>> \/ outer.e.k = "VVOID" THEN With(c, VoidExp)
            ELSE With(newupvalue(d, name, outer.e), init_exp("VUPVAL", Len(c.upvalues)))

singlevar(c, name) ==
  LET d == singlevaraux(c, name, TRUE)
      env == singlevaraux(d, "_ENV", TRUE)
  IN IF d.e.k # "VVOID" THEN d ELSE code("indexed", codestring(env, name), env.e)

adjust_assign(c, nvars, nexps) ==
  LET extra == nvars - nexps
      asked == IF extra + 1 < 0 THEN 0 ELSE extra + 1
      called == luaK_setreturns(c, asked)
      closed == IF c.e.k = "VVOID" THEN c ELSE code("exp2nextreg", c, 0)
      d == IF hasmultret(c.e.k)
           THEN (IF asked > 1 THEN luaK_reserveregs(called, asked - 1) ELSE called)
           ELSE IF extra > 0 THEN luaK_nil(luaK_reserveregs(closed, extra), closed.freereg, extra)
           ELSE closed
  IN IF nexps > nvars THEN [d EXCEPT !.freereg = @ - (nexps - nvars)] ELSE d

-----------------------------------------------------------------------------
(* Labels, gotos, blocks *)

closegoto_Unchecked(c, g, label) ==
  [luaK_patchlist(c, c.gt[g].pc, label.pc) EXCEPT !.gt = RemoveAt(@, g)]
\* The jumps of the goto that is g-th in the list go to the label.
closegoto(c, g, label) ==
  LET d == IF c.gt[g].nactvar < label.nactvar THEN Error(c, "scope") ELSE c
  IN [luaK_patchlist(d, c.gt[g].pc, label.pc) EXCEPT !.gt = RemoveAt(@, g)]

\* The labels of the current block that a goto can be closed with.
Visible(c, g) ==
  {l \in (block_of(c).firstlabel + 1)..Len(c.label) : c.label[l].name = c.gt[g].name}
findlabel(c, g) ==
  LET label == c.label[Min(Visible(c, g))]
      d == IF c.gt[g].nactvar > label.nactvar
           THEN luaK_patchclose(c, c.gt[g].pc, label.nactvar) ELSE c
  IN IF Visible(c, g) = {} THEN c ELSE closegoto(d, g, label)

entry(c, name, at) == [name |-> name, pc |-> at, nactvar |-> c.nactvar]

RECURSIVE findgotos(_, _, _)
findgotos(c, i, label) ==
  IF i > Len(c.gt) THEN c
  ELSE IF c.gt[i].name = label.name THEN findgotos(closegoto(c, i, label), i, label)
  ELSE findgotos(c, i + 1, label)

\* Pending gotos move to the enclosing block. Those that leave variables which are
\* upvalues close them.
RECURSIVE movegotosout_Open(_, _, _)
movegotosout_Open(c, bl, i) ==
  LET d == [c EXCEPT !.gt[i].nactvar = IF @ > bl.nactvar THEN bl.nactvar ELSE @]
  IN IF i > Len(c.gt) THEN c
     ELSE IF Visible(d, i) = {} THEN movegotosout_Open(d, bl, i + 1)
     ELSE movegotosout_Open(Parse("findlabel", d, i), bl, i)
RECURSIVE movegotosout(_, _, _)
movegotosout(c, bl, i) ==
  LET leaves == c.gt[i].nactvar > bl.nactvar
      closing == IF leaves /\ bl.upval THEN luaK_patchclose(c, c.gt[i].pc, bl.nactvar) ELSE c
      d == IF leaves THEN [closing EXCEPT !.gt[i].nactvar = bl.nactvar] ELSE c
  IN IF i > Len(c.gt) THEN c
     ELSE IF Visible(d, i) = {} THEN movegotosout(d, bl, i + 1)
     ELSE movegotosout(Parse("findlabel", d, i), bl, i)

enterblock(c, isloop) ==
  [Assert_(c, c.freereg = c.nactvar) EXCEPT
     !.bl = Append(@, [nactvar |-> c.nactvar, firstlabel |-> Len(c.label),
                       firstgoto |-> Len(c.gt), upval |-> FALSE, isloop |-> isloop])]

breaklabel(c) ==
  LET label == entry(c, "break", pc(c))
  IN Parse("findgotos", [c EXCEPT !.label = Append(@, label)], <<block_of(c).firstgoto + 1, label>>)

undefgoto(c, gt) == Error(c, IF gt.name = "break" THEN "loop" ELSE "label")

leaveblock(c) ==
  LET bl == block_of(c)
      inner == Len(c.bl) > 1
      j == luaK_jump(c)
      closed == IF inner /\ bl.upval
                THEN luaK_patchtohere(luaK_patchclose(j, last(j), bl.nactvar), last(j)) ELSE c
      d == IF bl.isloop THEN breaklabel(closed) ELSE closed
      out == [removevars(d, bl.nactvar) EXCEPT
                !.bl = SubSeq(@, 1, Len(@) - 1), !.freereg = bl.nactvar,
                !.label = SubSeq(@, 1, bl.firstlabel)]
  IN IF inner THEN Parse("movegotosout", out, <<bl, bl.firstgoto + 1>>)
     ELSE IF bl.firstgoto < Len(out.gt) THEN undefgoto(out, out.gt[bl.firstgoto + 1])
     ELSE out

-----------------------------------------------------------------------------
(* Functions *)

open_func(prev, h) ==
  enterblock([code |-> <<>>, k |-> <<>>, h |-> h, e |-> VoidExp, p |-> <<>>, upvalues |-> <<>>,
              vars |-> <<>>, nactvar |-> 0, freereg |-> 0, maxstacksize |-> 2, lasttarget |-> 0,
              jpc |-> NO_JUMP, bl |-> <<>>, gt |-> <<>>, label |-> <<>>, numparams |-> 0,
              isvararg |-> FALSE, prev |-> prev, err |-> ""], FALSE)

\* The finished function, the scanner's table and the error go to the enclosing one.
Proto(c) == [code |-> c.code, k |-> c.k, p |-> c.p, upvalues |-> c.upvalues, numparams |-> c.numparams,
             isvararg |-> c.isvararg, maxstacksize |-> c.maxstacksize]
close_func(c) ==
  LET d == Parse("leaveblock", luaK_ret(c, 0, 0), 0)
      o == d.prev[1]
  IN IF d.prev = <<>> THEN d
     ELSE [(IF d.err = "" THEN o ELSE Error(o, d.err)) EXCEPT
             !.h = d.h, !.p[Len(o.p)] = Proto(d)]

addprototype(c) == [c EXCEPT !.p = Append(@, <<>>)]
codeclosure(c) == code("exp2nextreg", Relocable(c, ABC("CLOSURE", 0, Len(c.p) - 1, 0)), 0)

parlist(c, params, vararg) ==
  LET d == adjustlocalvars(new_localvars(c, params), Len(params))
  IN luaK_reserveregs([d EXCEPT !.isvararg = vararg, !.numparams = d.nactvar], d.nactvar)

RECURSIVE statlist(_, _, _)

body(c, ismethod, params, vararg, block) ==
  LET f == open_func(<<addprototype(c)>>, c.h)
      g == IF ismethod THEN adjustlocalvars(new_localvar(f, "self"), 1) ELSE f
      d == Parse("statlist", parlist(g, params, vararg), <<block, FALSE>>)
  IN close_func([d EXCEPT !.prev = <<codeclosure(@[1])>>])

-----------------------------------------------------------------------------
(* Expressions *)

explist(c, es) ==
  FoldLeft(LAMBDA d, e : Parse("expr", code("exp2nextreg", d, 0), e), Parse("expr", c, Head(es)), Tail(es))

fieldsel(c, name) ==
  LET d == code("exp2anyregup", c, 0) IN code("indexed", codestring(d, name), d.e)
yindex(c, e) == code("exp2val", Parse("expr", c, e), 0)

\* The state cc of a constructor: the function, the last list item when it is not in
\* its register yet, the number of items, how many of them are to be stored.
closelistfield(cc, t) ==
  LET d == code("exp2nextreg", With(cc.c, cc.v), 0)
  IN IF cc.v.k = "VVOID" THEN cc
     ELSE IF cc.tostore = FieldsPerFlush
     THEN [cc EXCEPT !.v = VoidExp, !.tostore = 0, !.c = luaK_setlist(d, t.v, cc.na, cc.tostore)]
     ELSE [cc EXCEPT !.v = VoidExp, !.c = d]

recfield(cc, t, key, e) ==
  LET k == code("exp2RK", key, 0)
      d == code("exp2RK", Parse("expr", k, e), 0)
  IN [cc EXCEPT !.c = [luaK_code(d, ABC("SETTABLE", t.v, RK(k.e), RK(d.e)))
                       EXCEPT !.freereg = cc.c.freereg]]
listfield(cc, e) ==
  LET d == Parse("expr", cc.c, e)
  IN [cc EXCEPT !.c = d, !.v = d.e, !.na = @ + 1, !.tostore = @ + 1]
field(cc, t, f) ==
  CASE f[1] = "item" -> listfield(cc, f[2])
    [] f[1] = "named" -> recfield(cc, t, codestring(cc.c, f[2]), f[3])
    [] f[1] = "rec" -> recfield(cc, t, yindex(cc.c, f[2]), f[3])

lastlistfield(cc, t) ==
  CASE cc.tostore = 0 -> cc.c
    [] cc.tostore # 0 /\ hasmultret(cc.v.k) ->
         luaK_setlist(luaK_setreturns(With(cc.c, cc.v), MULTRET), t.v, cc.na, MULTRET)
    [] OTHER -> luaK_setlist(IF cc.v.k = "VVOID" THEN cc.c ELSE code("exp2nextreg", With(cc.c, cc.v), 0),
                             t.v, cc.na, cc.tostore)

constructor(c, fields) ==
  LET d == code("exp2nextreg", Relocable(c, ABC("NEWTABLE", 0, 0, 0)), 0)
      t == d.e
      cc == FoldLeft(LAMBDA a, f : field(closelistfield(a, t), t, f),
                     [c |-> d, v |-> VoidExp, na |-> 0, tostore |-> 0], fields)
  IN With(lastlistfield(cc, t), t)

\* The call of what is in the register of f.
funcargs(c, f, args) ==
  LET d == IF args = <<>> THEN With(c, VoidExp) ELSE luaK_setreturns(Parse("explist", c, args), MULTRET)
      open == hasmultret(d.e.k)
      g == IF open \/ d.e.k = "VVOID" THEN d ELSE code("exp2nextreg", d, 0)
      nparams == IF open THEN MULTRET ELSE g.freereg - (f.v + 1)
      q == luaK_code(Assert_(g, f.k = "VNONRELOC"), ABC("CALL", f.v, nparams + 1, 2))
  IN With([q EXCEPT !.freereg = f.v + 1], init_exp("VCALL", last(q)))

primaryexp(c, p) ==
  IF p[1] = "paren" THEN code("dischargevars", Parse("expr", c, p[2]), 0) ELSE singlevar(c, p[2])

suffix(c, s) ==
  LET up == code("exp2anyregup", c, 0)
      key == codestring(c, s[2])
      self == code("self", With(key, c.e), key.e)
      f == code("exp2nextreg", c, 0)
  IN CASE s[1] = "field" -> fieldsel(c, s[2])
       [] s[1] = "index" -> code("indexed", yindex(up, s[2]), up.e)
       [] s[1] = "method" -> Parse("funcargs", self, <<self.e, s[3]>>)
       [] s[1] = "call" -> Parse("funcargs", f, <<f.e, s[2]>>)
suffixedexp(c, primary, suffixes) == FoldLeft(suffix, primaryexp(c, primary), suffixes)

simpleexp(c, x) ==
  CASE x[1] = "int" -> With(c, init_exp("VKINT", x[2]))
    [] x[1] = "str" -> codestring(c, x[2])
    [] x[1] = "nil" -> With(c, init_exp("VNIL", 0))
    [] x[1] = "true" -> With(c, init_exp("VTRUE", 0))
    [] x[1] = "false" -> With(c, init_exp("VFALSE", 0))
    [] x[1] = "dots" -> LET d == luaK_code(IF c.isvararg THEN c ELSE Error(c, "vararg"),
                                           ABC("VARARG", 0, 1, 0))
                        IN With(d, init_exp("VVARARG", last(d)))
    [] x[1] = "cons" -> constructor(c, x[2])
    [] x[1] = "func" -> Parse("body", c, <<FALSE, x[2], x[3], x[4]>>)
    [] x[1] = "suffixed" -> Parse("suffixedexp", c, <<x[2], x[3]>>)

UnOps == {"not", "-", "#"}
UnaryPriority == 12
left(op) ==
  CASE op \in {"+", "-"} -> 10 [] op \in {"*", "%", "//"} -> 11 [] op = ".." -> 9
    [] op \in {"==", "<", "<=", "~=", ">", ">="} -> 3 [] op = "and" -> 2 [] op = "or" -> 1
right(op) == IF op = ".." THEN 8 ELSE left(op)

\* An expression whose binary operators have priorities above the limit, and what is
\* left of the tokens.
RECURSIVE subexpr(_, _, _), expand(_, _, _)
subexpr(c, ts, limit) ==
  LET u == subexpr(c, Tail(ts), UnaryPriority)
  IN IF Head(ts)[1] = "op" THEN expand(code("prefix", u[1], Head(ts)[2]), u[2], limit)
     ELSE expand(simpleexp(c, Head(ts)), Tail(ts), limit)
expand(c, ts, limit) ==
  LET op == Head(ts)[2]
      v == code("infix", c, op)
      s == subexpr(v, Tail(ts), right(op))
  IN IF ts = <<>> THEN <<c, ts>>
     ELSE IF left(op) <= limit THEN <<c, ts>>
     ELSE expand(code("posfix", s[1], <<op, v.e>>), s[2], limit)
expr(c, ts) == subexpr(c, ts, 0)[1]

-----------------------------------------------------------------------------
(* Statements *)

block(c, b) == Parse("leaveblock", Parse("statlist", enterblock(c, FALSE), <<b, FALSE>>), 0)

\* A target read before whose table or index is the variable v must use a copy of it.
check_conflict(c, targets, v) ==
  LET extra == c.freereg
      table(x) == x.k = "VINDEXED" /\ x.v.vt = v.k /\ x.v.t = v.v
      index(x) == x.k = "VINDEXED" /\ v.k = "VLOCAL" /\ x.v.idx = v.v
      safe(x) == IF x.k # "VINDEXED" THEN x
                 ELSE [x EXCEPT !.v = [t |-> IF table(x) THEN extra ELSE @.t,
                                       idx |-> IF index(x) THEN extra ELSE @.idx,
                                       vt |-> IF table(x) THEN "VLOCAL" ELSE @.vt]]
      copied == luaK_code(c, ABC(IF v.k = "VLOCAL" THEN "MOVE" ELSE "GETUPVAL", extra, v.v, 0))
  IN IF \E n \in DOMAIN targets : table(targets[n]) \/ index(targets[n])
     THEN <<luaK_reserveregs(copied, 1), [n \in DOMAIN targets |-> safe(targets[n])]>>
     ELSE <<c, targets>>

\* a is the function and the targets so far, x the next target.
target(a, x) ==
  LET d == Parse("suffixedexp", a[1], <<x[2], x[3]>>)
      checked == IF d.e.k \in {"VLOCAL", "VUPVAL"} THEN check_conflict(d, a[2], d.e) ELSE <<d, a[2]>>
  IN <<IF vkisvar(d.e.k) THEN checked[1] ELSE Error(d, "syntax"), Append(checked[2], d.e)>>

storetop(c, targets) ==
  FoldRight(LAMBDA v, d : code("storevar", With(d, init_exp("VNONRELOC", d.freereg - 1)), v),
            targets, c)

assignment(c, lhs, es) ==
  LET a == FoldLeft(target, <<c, <<>>>>, lhs)
      d == Parse("explist", a[1], es)
      stored == code("storevar", luaK_setoneret(d), a[2][Len(lhs)])
  IN IF a[1].err # "" THEN a[1]
     ELSE IF Len(es) = Len(lhs) THEN storetop(stored, SubSeq(a[2], 1, Len(lhs) - 1))
     ELSE storetop(Parse("adjust_assign", d, <<Len(lhs), Len(es)>>), a[2])

\* Afterwards e.f is the list of the exits.
cond(c, e) ==
  LET d == Parse("expr", c, e) IN code("goiftrue", IF d.e.k = "VNIL" THEN [d EXCEPT !.e.k = "VFALSE"] ELSE d, 0)

gotostat(c, at, name) ==
  LET d == [c EXCEPT !.gt = Append(@, entry(c, name, at))] IN Parse("findlabel", d, Len(d.gt))

checkrepeated(c, name) ==
  IF \E l \in (block_of(c).firstlabel + 1)..Len(c.label) : c.label[l].name = name
  THEN Error(c, "repeated") ELSE c

RECURSIVE after(_, _)
after(kinds, b) ==
  IF b = <<>> THEN b ELSE IF Head(b)[1] \in kinds THEN after(kinds, Tail(b)) ELSE b
afternoops(b) == after({"void", "label"}, b)

\* The label that begins b, with the statements without effect that follow. At the end
\* of a block that no condition follows, its variables are out of scope.
RECURSIVE skipnoopstat(_, _, _), labelstat(_, _, _)
skipnoopstat(c, b, until) ==
  IF afternoops(b) = b THEN c
  ELSE IF Head(b)[1] = "void" THEN skipnoopstat(c, Tail(b), until)
  ELSE labelstat(c, b, until)
labelstat(c, b, until) ==
  LET name == Head(b)[2]
      d == luaK_getlabel(checkrepeated(c, name))
      l == Len(d.label) + 1
      g == skipnoopstat([d EXCEPT !.label = Append(@, entry(d, name, pc(d)))], Tail(b), until)
      s == IF afternoops(b) = <<>> /\ ~ until
           THEN [g EXCEPT !.label[l].nactvar = block_of(g).nactvar] ELSE g
  IN Parse("findgotos", s, <<block_of(s).firstgoto + 1, s.label[l]>>)

whilestat(c, e, b) ==
  LET w == cond(luaK_getlabel(c), e)
      d == Parse("block", enterblock(w, TRUE), b)
  IN luaK_patchtohere(Parse("leaveblock", luaK_jumpto(d, pc(c)), 0), w.e.f)

repeatstat(c, b, e) ==
  LET d == cond(Parse("statlist", enterblock(enterblock(luaK_getlabel(c), TRUE), FALSE), <<b, TRUE>>), e)
      closing == IF block_of(d).upval THEN luaK_patchclose(d, d.e.f, block_of(d).nactvar) ELSE d
  IN Parse("leaveblock", luaK_patchlist(Parse("leaveblock", closing, 0), d.e.f, pc(c)), 0)

exp1(c, e) == code("exp2nextreg", Parse("expr", c, e), 0)

forbody(c, base, nvars, isnum, b) ==
  LET a == adjustlocalvars(c, 3)
      p == IF isnum THEN luaK_code(a, ABC("FORPREP", base, NO_JUMP, 0)) ELSE luaK_jump(a)
      prep == last(p)
      inside == luaK_reserveregs(adjustlocalvars(enterblock(p, FALSE), nvars), nvars)
      d == luaK_patchtohere(Parse("leaveblock", Parse("block", inside, b), 0), prep)
      endfor == IF isnum THEN luaK_code(d, ABC("FORLOOP", base, NO_JUMP, 0))
                ELSE luaK_code(luaK_code(d, ABC("TFORCALL", base, 0, nvars)),
                               ABC("TFORLOOP", base + 2, NO_JUMP, 0))
  IN luaK_patchlist(endfor, last(endfor), prep + 1)

\* for name = es[1], es[2] [, es[3]]
fornum(c, name, es, b) ==
  LET v == new_localvars(c, <<"(for index)", "(for limit)", "(for step)", name>>)
      d == FoldLeft(exp1, v, es)
      one == addk(d, Number(1))
      step == luaK_reserveregs(luaK_codek(one, d.freereg, one.h[Number(1)]), 1)
  IN Parse("forbody", IF Len(es) = 3 THEN d ELSE step, <<c.freereg, 1, TRUE, b>>)

forlist(c, names, es, b) ==
  LET v == new_localvars(c, <<"(for generator)", "(for state)", "(for control)">> \o names)
      d == luaK_checkstack(Parse("adjust_assign", Parse("explist", v, es), <<3, Len(es)>>), 3)
  IN Parse("forbody", d, <<c.freereg, Len(names), FALSE, b>>)

\* a is the function and the list of jumps to the end; b follows `then'; more says
\* that another part follows.
test_then_block(a, e, b, more) ==
  LET v == Parse("expr", a[1], e)
      jumps == IF b = <<>> THEN FALSE ELSE Head(b)[1] \in {"goto", "break"}
      away == code("goiffalse", v, 0)
      name == IF Head(b)[1] = "break" THEN "break" ELSE Head(b)[2]
      gone == gotostat(enterblock(away, FALSE), away.e.t, name)
      rest == IF jumps THEN after({"void"}, Tail(b)) ELSE b
      over == luaK_jump(gone)
      in == code("goiftrue", v, 0)
      jf == IF jumps THEN last(over) ELSE in.e.f
      d == Parse("leaveblock", Parse("statlist", IF jumps THEN over ELSE enterblock(in, FALSE), <<rest, FALSE>>), 0)
      esc == luaK_jump(d)
  IN IF jumps /\ rest = <<>> THEN <<Parse("leaveblock", gone, 0), a[2]>>
     ELSE IF more THEN <<luaK_patchtohere(linked(esc, a[2], last(esc)), jf), both(a[2], last(esc))>>
     ELSE <<luaK_patchtohere(d, jf), a[2]>>

\* parts is a sequence of conditions and blocks, else a sequence of at most one block.
RECURSIVE ifparts(_, _, _)
ifparts(a, parts, else) ==
  IF parts = <<>> THEN a
  ELSE ifparts(test_then_block(a, Head(parts)[1], Head(parts)[2], Tail(parts) # <<>> \/ else # <<>>),
               Tail(parts), else)
ifstat(c, parts, else) ==
  LET a == ifparts(<<c, NO_JUMP>>, parts, else)
  IN luaK_patchtohere(IF else = <<>> THEN a[1] ELSE Parse("block", a[1], else[1]), a[2])

localfunc(c, name, f) ==
  Parse("body", adjustlocalvars(new_localvar(c, name), 1), <<FALSE, f[2], f[3], f[4]>>)
localstat(c, names, es) ==
  LET v == new_localvars(c, names)
      d == IF es = <<>> THEN With(v, VoidExp) ELSE Parse("explist", v, es)
  IN adjustlocalvars(Parse("adjust_assign", d, <<Len(names), Len(es)>>), Len(names))

funcname(c, path) == FoldLeft(fieldsel, singlevar(c, Head(path)), Tail(path))
funcstat(c, path, ismethod, f) ==
  LET v == funcname(c, path)
  IN code("storevar", Parse("body", v, <<ismethod, f[2], f[3], f[4]>>), v.e)

callstat(c, x) ==
  LET d == Parse("suffixedexp", c, <<x[2], x[3]>>)
  IN IF d.e.k = "VCALL" THEN [d EXCEPT !.code[d.e.v + 1].C = 1] ELSE Error(d, "syntax")

retstat(c, es) ==
  LET d == Parse("explist", c, es)
      many == luaK_setreturns(d, MULTRET)
      tail == d.e.k = "VCALL" /\ Len(es) = 1
      called == IF tail THEN [many EXCEPT !.code[d.e.v + 1].op = "TAILCALL"] ELSE many
      one == code("exp2anyreg", d, 0)
      all == code("exp2nextreg", d, 0)
  IN CASE es = <<>> -> luaK_ret(c, 0, 0)
       [] es # <<>> /\ hasmultret(d.e.k) ->
            luaK_ret(Assert_(called, tail => Ins(called, d.e.v).A = c.nactvar), c.nactvar, MULTRET)
       [] es # <<>> /\ ~ hasmultret(d.e.k) /\ Len(es) = 1 -> luaK_ret(one, one.e.v, 1)
       [] OTHER -> luaK_ret(Assert_(all, Len(es) = all.freereg - c.nactvar), c.nactvar, Len(es))

statement(c, s) ==
  LET d == CASE s[1] = "void" -> c
             [] s[1] = "if" -> Parse("ifstat", c, <<s[2], s[3]>>)
             [] s[1] = "while" -> whilestat(c, s[2], s[3])
             [] s[1] = "do" -> Parse("block", c, s[2])
             [] s[1] = "fornum" -> Parse("leaveblock", fornum(enterblock(c, TRUE), s[2], s[3], s[4]), 0)
             [] s[1] = "forlist" -> Parse("leaveblock", forlist(enterblock(c, TRUE), s[2], s[3], s[4]), 0)
             [] s[1] = "repeat" -> repeatstat(c, s[2], s[3])
             [] s[1] = "function" -> funcstat(c, s[2], s[3], s[4])
             [] s[1] = "localfunc" -> localfunc(c, s[2], s[3])
             [] s[1] = "local" -> localstat(c, s[2], s[3])
             [] s[1] = "return" -> Parse("retstat", c, s[2])
             [] s[1] = "break" -> LET j == luaK_jump(c) IN gotostat(j, last(j), "break")
             [] s[1] = "goto" -> LET j == luaK_jump(c) IN gotostat(j, last(j), s[2])
             [] s[1] = "assign" -> Parse("assignment", c, <<s[2], s[3]>>)
             [] s[1] = "call" -> callstat(c, s)
  IN [Assert_(d, d.maxstacksize >= d.freereg /\ d.freereg >= d.nactvar) EXCEPT !.freereg = d.nactvar]

\* until: the block is the body of a repeat.
statlist(c, b, until) ==
  IF b = <<>> \/ c.err # "" THEN c
  ELSE IF Head(b)[1] = "label" THEN statlist(labelstat(c, b, until), afternoops(b), until)
  ELSE IF Head(b)[1] = "return" THEN Parse("statement", c, Head(b))
  ELSE statlist(Parse("statement", c, Head(b)), Tail(b), until)

mainfunc(b) ==
  LET c == open_func(<<>>, <<>>)
      env == newupvalue([c EXCEPT !.isvararg = TRUE], "_ENV", init_exp("VLOCAL", 0))
  IN close_func(Parse("statlist", env, <<b, FALSE>>))

\* The compiled program, or the error.
luaY_parser(b) ==
  LET c == mainfunc(b)
      d == Assert_(c, Len(c.upvalues) = 1 /\ c.vars = <<>> /\ c.gt = <<>> /\ c.label = <<>>)
  IN [err |-> d.err, main |-> Proto(d)]

\* The operator of that name. After an error nothing is parsed.
Parse(op, c, x) ==
  CASE op = "luaY_parser" -> luaY_parser(c)
    [] op # "luaY_parser" /\ c.err # "" -> c
    [] op = "expr" -> expr(c, x)
    [] op = "explist" -> explist(c, x)
    [] op = "suffixedexp" -> suffixedexp(c, x[1], x[2])
    [] op = "body" -> body(c, x[1], x[2], x[3], x[4])
    [] op = "block" -> block(c, x)
    [] op = "leaveblock" -> leaveblock(c)
    [] op = "statlist" -> statlist(c, x[1], x[2])
    [] op = "statement" -> statement(c, x)
    [] op = "findgotos" -> findgotos(c, x[1], x[2])
    [] op = "findlabel" -> findlabel(c, x)
    [] op = "movegotosout" -> movegotosout(c, x[1], x[2])
    [] op = "forbody" -> forbody(c, x[1], x[2], x[3], x[4])
    [] op = "adjust_assign" -> adjust_assign(c, x[1], x[2])
    [] op = "funcargs" -> funcargs(c, x[1], x[2])
    [] op = "assignment" -> assignment(c, x[1], x[2])
    [] op = "retstat" -> retstat(c, x)
    [] op = "ifstat" -> ifstat(c, x[1], x[2])
    [] op = "code" -> luaK(x[1], c, x[2])
=============================================================================
