------------------------------ MODULE LuaLang ------------------------------
(* What a Lua program does, said without registers, jumps or upvalues. Every *)
(* execution of a declaration makes a new cell; the environment of a piece   *)
(* of program maps its local variables to their cells.                       *)
EXTENDS Integers, Sequences, FiniteSets, TLC

\* A program's value. Tables and functions are known by the order of their creation.
Nil == <<"nil">>
Bool(b) == IF b THEN <<"true">> ELSE <<"false">>
Number(n) == <<"int", n>>
String(s) == <<"str", s>>
Truth(v) == v[1] \notin {"nil", "false"}
Vararg == "..."
Emit == <<"C", "emit">>

\* In order of priority, the lowest first. Only the concatenation groups to the right.
Priorities == <<{"or"}, {"and"}, {"<", ">", "<=", ">=", "~=", "=="}, {".."}, {"+", "-"},
                {"*", "//", "%"}>>

-----------------------------------------------------------------------------
(* Which programs are legal *)

IsOp(t) == t[1] = "op"
Declares(s) == s[1] \in {"local", "localfunc"}
Tailing(b, i) == \A j \in i..Len(b) : b[j][1] \in {"void", "label"}
Labels(b) == {j \in DOMAIN b : b[j][1] = "label"}

\* Where a goto can go from within the i-th statement of a block: the labels of the
\* block, except those that lie behind a declaration (one at the end of the block is out
\* of the scope of its variables, unless a condition follows).
Reachable(b, i, until) ==
  {b[j][2] : j \in {k \in Labels(b) :
     k > i => (Tailing(b, k) /\ ~ until) \/ \A m \in (i + 1)..k : ~ Declares(b[m])}}
Named(b) == {b[j][2] : j \in Labels(b)}

\* loop: `break' is allowed; labels: where gotos can go; dots: `...' is allowed.
RECURSIVE LegalBlock(_, _, _), LegalStatement(_, _), LegalExp(_, _)
LegalExps(es, dots) == \A n \in DOMAIN es : LegalExp(es[n], dots)
LegalFunction(f) == LegalBlock(f[4], FALSE, [loop |-> FALSE, labels |-> {}, dots |-> f[3]])
LegalSuffix(x, dots) ==
  CASE x[1] = "index" -> LegalExp(x[2], dots) [] x[1] = "call" -> LegalExps(x[2], dots)
    [] x[1] = "method" -> LegalExps(x[3], dots) [] OTHER -> TRUE
LegalPrefix(x, dots) == /\ x[2][1] = "paren" => LegalExp(x[2][2], dots)
                        /\ \A n \in DOMAIN x[3] : LegalSuffix(x[3][n], dots)
LegalToken(t, dots) ==
  CASE t[1] = "dots" -> dots
    [] t[1] = "func" -> LegalFunction(t)
    [] t[1] = "cons" -> \A n \in DOMAIN t[2] :
         /\ t[2][n][1] = "rec" => LegalExp(t[2][n][2], dots)
         /\ LegalExp(t[2][n][Len(t[2][n])], dots)
    [] t[1] = "suffixed" -> LegalPrefix(t, dots)
    [] OTHER -> TRUE
LegalExp(ts, dots) == \A n \in DOMAIN ts : LegalToken(ts[n], dots)

LegalBlock(b, until, at) ==
  /\ \A i, j \in Labels(b) : b[i][2] = b[j][2] => i = j
  /\ \A i \in DOMAIN b :
       LegalStatement(b[i], [at EXCEPT !.labels = Reachable(b, i, until) \cup (@ \ Named(b))])

Target(x) == (x[3] = <<>> /\ x[2][1] = "name")
             \/ (x[3] # <<>> /\ x[3][Len(x[3])][1] \in {"field", "index"})
Called(x) == x[3] # <<>> /\ x[3][Len(x[3])][1] \in {"call", "method"}
LegalStatement(s, at) ==
  LET inloop == [at EXCEPT !.loop = TRUE]
      inside(b) == LegalBlock(b, FALSE, at)
  IN CASE s[1] = "local" -> LegalExps(s[3], at.dots)
       [] s[1] = "assign" -> LegalExps(s[3], at.dots)
                             /\ \A n \in DOMAIN s[2] : Target(s[2][n]) /\ LegalPrefix(s[2][n], at.dots)
       [] s[1] = "call" -> Called(s) /\ LegalPrefix(s, at.dots)
       [] s[1] = "do" -> inside(s[2])
       [] s[1] = "while" -> LegalExp(s[2], at.dots) /\ LegalBlock(s[3], FALSE, inloop)
       [] s[1] = "repeat" -> LegalBlock(s[2], TRUE, inloop) /\ LegalExp(s[3], at.dots)
       [] s[1] = "if" -> /\ \A n \in DOMAIN s[2] : LegalExp(s[2][n][1], at.dots) /\ inside(s[2][n][2])
                         /\ \A n \in DOMAIN s[3] : inside(s[3][n])
       [] s[1] \in {"fornum", "forlist"} -> LegalExps(s[3], at.dots) /\ LegalBlock(s[4], FALSE, inloop)
       [] s[1] = "function" -> LegalFunction(s[4])
       [] s[1] = "localfunc" -> LegalFunction(s[3])
       [] s[1] = "return" -> LegalExps(s[2], at.dots)
       [] s[1] = "break" -> at.loop
       [] s[1] = "goto" -> s[2] \in at.labels
       [] OTHER -> TRUE

Legal(b) == LegalBlock(b, FALSE, [loop |-> FALSE, labels |-> {}, dots |-> TRUE])

-----------------------------------------------------------------------------
(* What a legal program does. s has the cells, the tables, the functions,    *)
(* what was emitted, and the error that stopped the program. A result has    *)
(* the state s and the values vs.                                            *)

Gives(s, vs) == [s |-> s, vs |-> vs]
Fails(s, what) == Gives([s EXCEPT !.err = what], <<Nil>>)
First(r) == [r EXCEPT !.vs = <<IF @ = <<>> THEN Nil ELSE @[1]>>]
At(vs, n) == IF n \in DOMAIN vs THEN vs[n] ELSE Nil
Put(map, k, v) == IF v = Nil THEN [x \in DOMAIN map \ {k} |-> map[x]] ELSE (k :> v) @@ map

GetIndex(s, t, k) ==
  IF t[1] # "table" THEN Fails(s, "index")
  ELSE Gives(s, <<IF k \in DOMAIN s.tables[t[2]] THEN s.tables[t[2]][k] ELSE Nil>>)
SetIndex(s, t, k, v) ==
  CASE t[1] # "table" -> [s EXCEPT !.err = "index"]
    [] t[1] = "table" /\ k = Nil -> [s EXCEPT !.err = "key"]
    [] OTHER -> [s EXCEPT !.tables[t[2]] = Put(@, k, v)]

\* New cells for the names.
Declare(s, env, names, vs) ==
  LET at(n) == Len(s.cells) + CHOOSE j \in DOMAIN names :
                 names[j] = n /\ \A i \in DOMAIN names : names[i] = n => i <= j
  IN [s |-> [s EXCEPT !.cells = @ \o [n \in DOMAIN names |-> At(vs, n)]],
      env |-> [n \in {names[j] : j \in DOMAIN names} |-> at(n)] @@ env]

Function(s, env, f, ismethod) ==
  Gives([s EXCEPT !.functions = Append(@, [env |-> env, params |-> IF ismethod THEN <<"self">> \o f[2]
                                           ELSE f[2], vararg |-> f[3], body |-> f[4]])],
        <<<<"function", Len(s.functions) + 1>>>>)

Text(v) == IF v[1] = "int" THEN ToString(v[2]) ELSE v[2]
Length(map) == CHOOSE n \in 0..Cardinality(DOMAIN map) :
  /\ \A i \in 1..n : Number(i) \in DOMAIN map
  /\ Number(n + 1) \notin DOMAIN map
Arith(op, a, b) ==
  CASE op = "+" -> a + b [] op = "-" -> a - b [] op = "*" -> a * b
    [] op = "//" -> IF b > 0 THEN a \div b ELSE (-a) \div (-b)
    [] op = "%" -> a - b * (IF b > 0 THEN a \div b ELSE (-a) \div (-b))
Ordered(op, a, b) ==
  CASE op = "<" -> a < b [] op = ">" -> a > b [] op = "<=" -> a <= b [] op = ">=" -> a >= b
Binary(s, op, a, b) ==
  LET ints == a[1] = "int" /\ b[1] = "int"
      texts == a[1] \in {"int", "str"} /\ b[1] \in {"int", "str"}
  IN CASE op = "==" -> Gives(s, <<Bool(a = b)>>)
       [] op = "~=" -> Gives(s, <<Bool(a # b)>>)
       [] op = ".." -> IF texts THEN Gives(s, <<String(Text(a) \o Text(b))>>) ELSE Fails(s, "concat")
       [] op \in Priorities[3] \ {"==", "~="} ->
            IF ints THEN Gives(s, <<Bool(Ordered(op, a[2], b[2]))>>) ELSE Fails(s, "compare")
       [] OTHER -> CASE ~ ints -> Fails(s, "arith")
                     [] ints /\ op \in {"//", "%"} /\ b[2] = 0 -> Fails(s, "zero")
                     [] OTHER -> Gives(s, <<Number(Arith(op, a[2], b[2]))>>)
Unary(s, op, a) ==
  CASE op = "not" -> Gives(s, <<Bool(~ Truth(a))>>)
    [] op = "-" -> IF a[1] = "int" THEN Gives(s, <<Number(-a[2])>>) ELSE Fails(s, "arith")
    [] op = "#" -> IF a[1] = "table" THEN Gives(s, <<Number(Length(s.tables[a[2]]))>>)
                   ELSE Fails(s, "length")

\* The operator that is done last: of the lowest priority, the last one, or the first
\* one when they group to the right. 0 when there is no binary operator.
Root(ts) ==
  LET binary == {i \in DOMAIN ts : IsOp(ts[i]) /\ i > 1 /\ ~ IsOp(ts[i - 1])}
      level(i) == CHOOSE l \in DOMAIN Priorities : ts[i][2] \in Priorities[l]
      lowest == {i \in binary : \A j \in binary : level(i) <= level(j)}
  IN IF binary = {} THEN 0
     ELSE CHOOSE i \in lowest :
            \A j \in lowest : IF ts[i][2] = ".." THEN i <= j ELSE i >= j

RECURSIVE Value(_, _, _), Values(_, _, _), Call(_, _, _), Run(_, _, _), Exec(_, _, _),
          Suffixes(_, _, _), Fields(_, _, _, _, _), Loop(_, _, _), Next_(_, _, _, _, _)

Simple(s, env, t) ==
  CASE t[1] \in {"nil", "true", "false", "int", "str"} -> Gives(s, <<t>>)
    [] t[1] = "dots" -> Gives(s, s.cells[env[Vararg]])
    [] t[1] = "func" -> Function(s, env, t, FALSE)
    [] t[1] = "cons" -> Fields([s EXCEPT !.tables = Append(@, <<>>)], env,
                               <<"table", Len(s.tables) + 1>>, t[2], 1)
    [] t[1] = "suffixed" -> Suffixes(s, env, t)

Value(s, env, ts) ==
  LET r == Root(ts)
      a == First(Value(s, env, SubSeq(ts, 1, r - 1)))
      b == First(Value(a.s, env, SubSeq(ts, r + 1, Len(ts))))
      u == First(Value(s, env, Tail(ts)))
      op == ts[r][2]
  IN CASE r = 0 /\ ~ IsOp(ts[1]) -> Simple(s, env, ts[1])
       [] r = 0 /\ IsOp(ts[1]) -> IF u.s.err # "" THEN u ELSE Unary(u.s, ts[1][2], u.vs[1])
       [] r # 0 /\ (a.s.err # "" \/ (op = "and" /\ ~ Truth(a.vs[1])) \/ (op = "or" /\ Truth(a.vs[1]))) -> a
       [] OTHER -> IF b.s.err # "" \/ op \in {"and", "or"} THEN b
                   ELSE Binary(b.s, op, a.vs[1], b.vs[1])

\* All the values of the last expression, the first one of the others.
Values(s, env, es) ==
  IF es = <<>> THEN Gives(s, <<>>)
  ELSE LET a == Value(s, env, es[1])
           rest == Values(a.s, env, Tail(es))
       IN IF Len(es) = 1 \/ a.s.err # "" THEN a ELSE [rest EXCEPT !.vs = First(a).vs \o @]

RECURSIVE PutAll(_, _, _, _)
PutAll(s, t, n, vs) ==
  IF vs = <<>> THEN s ELSE PutAll(SetIndex(s, t, Number(n), vs[1]), t, n + 1, Tail(vs))
Fields(s, env, t, fs, n) ==
  LET f == fs[1]
      k == IF f[1] = "rec" THEN First(Value(s, env, f[2])) ELSE Gives(s, <<String(f[2])>>)
      v == Value(IF f[1] = "item" THEN s ELSE k.s, env, f[Len(f)])
      put == IF f[1] = "item"
             THEN PutAll(v.s, t, n, IF Len(fs) = 1 THEN v.vs ELSE First(v).vs)
             ELSE SetIndex(v.s, t, k.vs[1], First(v).vs[1])
  IN IF fs = <<>> THEN Gives(s, <<t>>)
     ELSE IF v.s.err # "" THEN v
     ELSE Fields(put, env, t, Tail(fs), IF f[1] = "item" THEN n + 1 ELSE n)

Variable(s, env, name) ==
  IF name \in DOMAIN env THEN Gives(s, <<s.cells[env[name]]>>)
  ELSE GetIndex(s, <<"table", 1>>, String(name))

\* The value of all suffixes but the last is needed to apply the last.
Suffixes(s, env, x) ==
  LET n == Len(x[3])
      last == x[3][n]
      p == First(Suffixes(s, env, <<x[1], x[2], SubSeq(x[3], 1, n - 1)>>))
      k == First(Value(p.s, env, last[2]))
      m == GetIndex(p.s, p.vs[1], String(last[2]))
      args == Values(IF last[1] = "call" THEN p.s ELSE m.s, env, last[Len(last)])
  IN CASE n = 0 /\ x[2][1] = "name" -> Variable(s, env, x[2][2])
       [] n = 0 /\ x[2][1] = "paren" -> First(Value(s, env, x[2][2]))
       [] n # 0 /\ p.s.err # "" -> p
       [] n # 0 /\ p.s.err = "" ->
            CASE last[1] = "field" -> m
              [] last[1] = "index" -> IF k.s.err # "" THEN k ELSE GetIndex(k.s, p.vs[1], k.vs[1])
              [] OTHER -> IF last[1] = "method" /\ m.s.err # "" THEN m
                          ELSE IF args.s.err # "" THEN args
                          ELSE IF last[1] = "method" THEN Call(args.s, m.vs[1], p.vs \o args.vs)
                          ELSE Call(args.s, p.vs[1], args.vs)

Call(s, v, args) ==
  IF v = Emit THEN Gives([s EXCEPT !.trace = Append(@, args)], args)
  ELSE IF v[1] # "function" THEN Fails(s, "call")
  ELSE LET f == s.functions[v[2]]
           d == Declare(s, f.env, f.params, args)
           dots == [d.s EXCEPT !.cells = Append(@, SubSeq(args, Len(f.params) + 1, Len(args)))]
           r == IF f.vararg THEN Run(dots, (Vararg :> Len(dots.cells)) @@ d.env, f.body)
                ELSE Run(d.s, d.env, f.body)
       IN Gives(r.s, IF r.out[1] = "return" THEN r.out[2] ELSE <<>>)

-----------------------------------------------------------------------------
(* Statements. out says how a statement ended.                               *)

Ends(s, env, out) == [s |-> s, env |-> env, out |-> out]
Ok(s, env) == Ends(s, env, <<"ok">>)

\* The i-th statement and the next ones. envs are the environments before the
\* statements done; a goto to a label met before takes the environment of then.
Next_(s, envs, env, b, i) ==
  LET r == Exec(s, env, b[i])
      to == CHOOSE j \in Labels(b) : b[j][2] = r.out[2]
      seen == [envs EXCEPT ![i] = env]
      there == IF to <= i THEN seen[to] ELSE env
  IN IF i > Len(b) THEN Ok(s, env)
     ELSE IF r.s.err # "" THEN r
     ELSE IF r.out = <<"ok">> THEN Next_(r.s, seen, r.env, b, i + 1)
     ELSE IF r.out[1] # "goto" THEN r
     ELSE IF r.out[2] \notin Named(b) THEN r
     ELSE Next_(r.s, [seen EXCEPT ![to] = there], there, b, to + 1)
Run(s, env, b) == Next_(s, [i \in DOMAIN b |-> env], env, b, 1)

\* A loop whose body is turn, done for each element of a sequence of values.
RECURSIVE Each(_, _, _, _, _)
Each(s, env, name, range, b) ==
  LET d == Declare(s, env, <<name>>, <<Number(range[1])>>)
      r == Run(d.s, d.env, b)
  IN IF range = <<>> THEN Ok(s, env)
     ELSE IF r.s.err # "" THEN r
     ELSE IF r.out = <<"ok">> THEN Each(r.s, env, name, Tail(range), b)
     ELSE IF r.out = <<"break">> THEN Ok(r.s, env) ELSE r

RECURSIVE Generic(_, _, _, _, _)
Generic(s, env, control, names, b) ==
  LET c == Call(s, control[1], <<control[2], control[3]>>)
      d == Declare(c.s, env, names, c.vs)
      r == Run(d.s, d.env, b)
  IN IF c.s.err # "" \/ At(c.vs, 1) = Nil THEN Ok(c.s, env)
     ELSE IF r.s.err # "" THEN r
     ELSE IF r.out = <<"ok">>
     THEN Generic(r.s, env, <<control[1], control[2], c.vs[1]>>, names, b)
     ELSE IF r.out = <<"break">> THEN Ok(r.s, env) ELSE r

\* Statements while and repeat.
Loop(s, env, st) ==
  LET while == st[1] = "while"
      c == First(Value(s, env, st[2]))
      go == IF while THEN Truth(c.vs[1]) /\ c.s.err = "" ELSE TRUE
      r == IF while THEN Run(c.s, env, st[3]) ELSE Run(s, env, st[2])
      u == First(Value(r.s, r.env, st[3]))
      s2 == IF while THEN r.s ELSE u.s
  IN IF ~ go THEN Ok(c.s, env)
     ELSE IF r.s.err # "" THEN r
     ELSE IF r.out = <<"break">> THEN Ok(r.s, env)
     ELSE IF r.out # <<"ok">> THEN r
     ELSE IF ~ while /\ (u.s.err # "" \/ Truth(u.vs[1])) THEN Ok(s2, env)
     ELSE Loop(s2, env, st)

\* Where a value is to be put: a cell, or a table and a key.
Place(s, env, x) ==
  LET n == Len(x[3])
      last == x[3][n]
      p == First(Suffixes(s, env, <<x[1], x[2], SubSeq(x[3], 1, n - 1)>>))
      k == IF last[1] = "field" THEN Gives(p.s, <<String(last[2])>>)
           ELSE First(Value(p.s, env, last[2]))
  IN IF n # 0 THEN Gives(k.s, <<p.vs[1], k.vs[1]>>)
     ELSE IF x[2][2] \in DOMAIN env THEN Gives(s, <<env[x[2][2]]>>)
     ELSE Gives(s, <<<<"table", 1>>, String(x[2][2])>>)
RECURSIVE Places(_, _, _)
Places(s, env, xs) ==
  IF xs = <<>> THEN Gives(s, <<>>)
  ELSE LET p == Place(s, env, xs[1])
           rest == Places(p.s, env, Tail(xs))
       IN IF p.s.err # "" THEN p ELSE [rest EXCEPT !.vs = <<p.vs>> \o @]
Assign(s, place, v) ==
  IF Len(place) = 1 THEN [s EXCEPT !.cells[place[1]] = v] ELSE SetIndex(s, place[1], place[2], v)
RECURSIVE AssignAll(_, _, _)
AssignAll(s, ps, vs) ==
  IF ps = <<>> \/ s.err # "" THEN s
  ELSE AssignAll(Assign(s, ps[Len(ps)], At(vs, Len(ps))), SubSeq(ps, 1, Len(ps) - 1), vs)

Ints(vs) == \A n \in DOMAIN vs : vs[n][1] = "int"
Range_(vs) ==
  LET step == IF Len(vs) = 3 THEN vs[3][2] ELSE 1
      from == vs[1][2]
      n == IF step = 0 THEN 0
           ELSE IF step > 0 THEN (vs[2][2] - from) \div step ELSE (from - vs[2][2]) \div (-step)
  IN [i \in 1..(n + 1) |-> from + (i - 1) * step]

Exec(s, env, st) ==
  LET vs == Values(s, env, IF st[1] = "return" THEN st[2] ELSE st[3])
      stop == Ok(vs.s, env)
  IN CASE st[1] \in {"void", "label"} -> Ok(s, env)
       [] st[1] = "local" -> IF vs.s.err # "" THEN stop
                             ELSE LET d == Declare(vs.s, env, st[2], vs.vs) IN Ok(d.s, d.env)
       [] st[1] = "localfunc" ->
            LET d == Declare(s, env, <<st[2]>>, <<>>)
                f == Function(d.s, d.env, st[3], FALSE)
            IN Ok([f.s EXCEPT !.cells[d.env[st[2]]] = f.vs[1]], d.env)
       [] st[1] = "function" ->
            LET f == Function(s, env, st[4], st[3])
                p == Place(s, env, <<"suffixed", <<"name", st[2][1]>>,
                        [n \in 1..(Len(st[2]) - 1) |-> <<"field", st[2][n + 1]>>]>>)
            IN IF p.s.err # "" THEN Ok(p.s, env) ELSE Ok(Assign(f.s, p.vs, f.vs[1]), env)
       [] st[1] = "assign" ->
            LET ps == Places(s, env, st[2])
                r == Values(ps.s, env, st[3])
            IN IF ps.s.err # "" THEN Ok(ps.s, env)
               ELSE IF r.s.err # "" THEN Ok(r.s, env) ELSE Ok(AssignAll(r.s, ps.vs, r.vs), env)
       [] st[1] = "call" -> Ok(Suffixes(s, env, st).s, env)
       [] st[1] = "do" -> [Run(s, env, st[2]) EXCEPT !.env = env]
       [] st[1] = "if" ->
            LET c == First(Value(s, env, st[2][1][1]))
            IN IF c.s.err # "" THEN Ok(c.s, env)
               ELSE IF Truth(c.vs[1]) THEN [Run(c.s, env, st[2][1][2]) EXCEPT !.env = env]
               ELSE IF Len(st[2]) > 1 THEN Exec(c.s, env, <<"if", Tail(st[2]), st[3]>>)
               ELSE IF st[3] # <<>> THEN [Run(c.s, env, st[3][1]) EXCEPT !.env = env]
               ELSE Ok(c.s, env)
       [] st[1] \in {"while", "repeat"} -> Loop(s, env, st)
       [] st[1] = "fornum" ->
            IF vs.s.err # "" THEN stop
            ELSE IF ~ Ints(vs.vs) THEN Ok([vs.s EXCEPT !.err = "for"], env)
            ELSE Each(vs.s, env, st[2], Range_(vs.vs), st[4])
       [] st[1] = "forlist" ->
            IF vs.s.err # "" THEN stop
            ELSE Generic(vs.s, env, [n \in 1..3 |-> At(vs.vs, n)], st[2], st[4])
       [] st[1] = "return" -> Ends(vs.s, env, <<"return", vs.vs>>)
       [] st[1] = "break" -> Ends(s, env, <<"break">>)
       [] st[1] = "goto" -> Ends(s, env, <<"goto", st[2]>>)

\* What a program with these arguments emits and returns, or the error it ends with.
Outcome(b, args) ==
  LET s0 == [cells |-> <<args>>, tables |-> <<(String("emit") :> Emit)>>, functions |-> <<>>,
             trace |-> <<>>, err |-> ""]
      r == Run(s0, (Vararg :> 1), b)
  IN [trace |-> r.s.trace, err |-> r.s.err,
      result |-> IF r.s.err = "" /\ r.out[1] = "return" THEN r.out[2] ELSE <<>>]
=============================================================================
