------------------------------ MODULE MCLuaVM ------------------------------
(* Programs for LuaVM: every expression of three operands in several         *)
(* contexts, every block of a few declarations, labels, gotos and functions, *)
(* and programs written for one construction each.                           *)
EXTENDS LuaVM

Op(o) == <<"op", o>>
Num(n) == <<"int", n>>
Str(s) == <<"str", s>>
V(n) == <<"suffixed", <<"name", n>>, <<>>>>
Field(t, k) == <<"suffixed", <<"name", t>>, <<<<"field", k>>>>>>
Index(t, e) == <<"suffixed", <<"name", t>>, <<<<"index", <<e>>>>>>>>
Fcall(f, args) == <<"suffixed", <<"name", f>>, <<<<"call", args>>>>>>
Out(args) == <<"call", <<"name", "emit">>, <<<<"call", args>>>>>>
Do(f, args) == <<"call", <<"name", f>>, <<<<"call", args>>>>>>
Paren(e) == <<"suffixed", <<"paren", e>>, <<>>>>
Local(n, e) == <<"local", <<n>>, <<e>>>>
Set(x, e) == <<"assign", <<x>>, <<e>>>>
Fun(ps, b) == <<"func", ps, FALSE, b>>
VFun(ps, b) == <<"func", ps, TRUE, b>>
If(e, b) == <<"if", <<<<e, b>>>>, <<>>>>
Return(e) == <<"return", <<e>>>>
Plus(n, k) == <<V(n), Op("+"), Num(k)>>
Digit(i, base, place) == (i \div (base ^ place)) % base


\* Three operands and two operators, in one of four contexts.
Operands3 == <<<<<<"nil">>>>, <<Num(1)>>, <<V("x")>>, <<Op("not"), V("x")>>, <<Fcall("emit", <<<<Num(5)>>>>)>>>>
Ops3 == <<"and", "or", "==", "<", "..", "-">>
Expression(i) ==
  LET operand(n) == Operands3[Digit(i % 125, 5, n) + 1]
      op(n) == <<Op(Ops3[Digit(i \div 125, 6, n) + 1])>>
  IN operand(0) \o op(0) \o operand(1) \o op(1) \o operand(2)
InContext(n, e) ==
  <<Local("x", <<Num(2)>>)>> \o
  CASE n = 0 -> <<Return(e)>>
    [] n = 1 -> <<If(e, <<Out(<<<<V("x")>>>>)>>), Out(<<<<Num(9)>>>>)>>
    [] n = 2 -> <<Set(V("x"), e), Out(<<<<V("x")>>, e>>)>>
    [] n = 3 -> <<Local("t", <<<<"cons", <<<<"item", e>>, <<"named", "k", e>>>>>>>>),
                  Return(<<Field("t", "k"), Op("=="), Index("t", Num(1))>>)>>
ExpressionProgram(i) == InContext(i % 4, Expression(7 * (i \div 4)))

\* Three pieces of a block, at the level of the function, in a while and in a repeat.
\* A goto counts, so that the program ends.
Goto(l) == <<If(<<V("n"), Op(">"), Num(3)>>, <<<<"return", <<<<V("n")>>>>>>>>),
             Set(V("n"), Plus("n", 1)), <<"goto", l>>>>
Capture(x) == Set(V("f"), <<Fun(<<>>, <<Return(<<V(x)>>)>>)>>)
Pieces == <<<<Local("a", <<V("n")>>)>>,
            <<<<"label", "l">>>>,
            Goto("l"),
            <<<<"do", Goto("l")>>>>,
            <<<<"do", <<<<"label", "l">>>>>>>>,
            <<Capture("a")>>,
            <<<<"do", <<Local("c", <<V("n")>>), Capture("c")>> \o Goto("l")>>>>,
            <<If(<<V("n"), Op("<"), Num(3)>>, <<<<"break">>>>)>>,
            <<Set(V("n"), Plus("n", 1)), If(<<V("n"), Op("<"), Num(3)>>, <<<<"goto", "l">>, Out(<<<<Num(1)>>>>)>>)>>>>
BlockProgram(i) ==
  LET b == Pieces[Digit(i, 9, 0) + 1] \o Pieces[Digit(i, 9, 1) + 1] \o Pieces[Digit(i, 9, 2) + 1]
      next == Set(V("n"), Plus("n", 1))
      w == Digit(i, 9, 3)
  IN <<Local("n", <<Num(0)>>)>> \o
     (CASE w = 0 -> <<next>> \o b
       [] w = 1 -> <<<<"while", <<V("n"), Op("<"), Num(4)>>, <<next>> \o b>>>>
       [] w = 2 -> <<<<"repeat", <<next>> \o b, <<V("n"), Op(">"), Num(3)>>>>>>)
     \o <<If(<<V("f")>>, <<Out(<<<<Fcall("f", <<>>)>>>>)>>), Out(<<<<V("n")>>>>)>>

\* One construction each.
Dots == <<<<"dots">>>>
Item(e) == <<"item", e>>
Items(es) == <<"cons", [n \in DOMAIN es |-> Item(es[n])]>>
LocalF(f, ps, b) == <<"localfunc", f, Fun(ps, b)>>
LocalV(f, ps, b) == <<"localfunc", f, VFun(ps, b)>>
N(n) == <<Num(n)>>
X(n) == <<V(n)>>
While(e, b) == <<"while", e, b>>
Method(t, m, args) == <<"suffixed", <<"name", t>>, <<<<"method", m, args>>>>>>
All == LocalV("v", <<>>, <<Return(Dots)>>)
Written == <<
  <<All, Out(<<<<Fcall("v", <<N(1), N(2), N(3)>>)>>>>),
    Out(<<<<Paren(<<Fcall("v", <<N(1), N(2)>>)>>)>>, <<Fcall("v", <<N(4), Dots>>)>>>>),
    Local("t", <<Items(<<<<Fcall("v", <<N(1), N(2)>>)>>, <<Fcall("v", <<N(3), N(4)>>)>>>>)>>),
    Return(<<Op("#"), V("t")>>)>>,
  <<All, Local("t", <<Items(<<N(1), N(2), N(3), N(4), N(5), <<Fcall("v", <<N(6), N(7)>>)>>>>)>>),
    Out(<<<<Op("#"), V("t")>>, <<Index("t", Num(5))>>, <<Index("t", Num(7))>>>>),
    Return(<<Op("#"), Items(<<N(1), N(2), N(3), N(4), N(5)>>)>>)>>,
  <<LocalF("count", <<"n">>, <<Return(<<Fun(<<"d">>, <<Set(V("n"), <<V("n"), Op("+"), V("d")>>), Return(X("n"))>>)>>)>>),
    Local("a", <<Fcall("count", <<N(10)>>)>>), Local("b", <<Fcall("count", <<N(20)>>)>>),
    Out(<<<<Fcall("a", <<N(1)>>)>>, <<Fcall("b", <<N(1)>>)>>, <<Fcall("a", <<N(5)>>)>>>>)>>,
  <<Local("fs", <<Items(<<>>)>>),
    <<"fornum", "i", <<N(5), N(1), <<Op("-"), Num(2)>>>>,
      <<Set(Index("fs", V("i")), <<Fun(<<>>, <<Set(V("i"), Plus("i", 1)), Return(X("i"))>>)>>),
        If(<<V("i"), Op("=="), Num(3)>>, <<<<"break">>>>)>>>>,
    Local("f", <<Index("fs", Num(3))>>), Do("f", <<>>),
    Out(<<<<Fcall("f", <<>>)>>, <<V("i")>>, <<Op("not"), Index("fs", Num(1))>>>>)>>,
  <<LocalF("upto", <<"s", "c">>, <<If(<<V("c"), Op("<"), V("s")>>, <<Return(Plus("c", 1))>>)>>),
    <<"forlist", <<"i", "j">>, <<X("upto"), N(3), N(0)>>,
      <<If(<<V("i"), Op("=="), Num(2)>>, <<Set(V("f"), <<Fun(<<>>, <<Return(X("i"))>>)>>)>>),
        Out(<<X("i"), X("j")>>)>>>>,
    Out(<<<<Fcall("f", <<>>)>>>>)>>,
  <<<<"forlist", <<"i">>, <<X("emit")>>, <<Out(<<X("i")>>)>>>>, Return(<<Str("end")>>)>>,
  <<Local("t", <<<<"cons", <<<<"named", "x", N(7)>>, <<"rec", <<Str("k"), Op(".."), Num(1)>>, <<Items(<<>>)>>>>>>>>>>),
    <<"function", <<"t", "k1", "get">>, TRUE, Fun(<<"d">>, <<Return(<<V("self"), Op("=="), V("d")>>)>>)>>,
    <<"function", <<"t", "get">>, TRUE, Fun(<<"d">>, <<Return(<<Field("self", "x"), Op("+"), V("d")>>)>>)>>,
    Out(<<<<Method("t", "get", <<N(2)>>)>>>>),
    Return(<<<<"suffixed", <<"name", "t">>, <<<<"field", "k1">>, <<"method", "get", <<<<Field("t", "k1")>>>>>>>>>>>>)>>,
  <<Local("i", N(1)), Local("t", <<Items(<<>>)>>),
    <<"assign", <<V("i"), Index("t", V("i"))>>, <<Plus("i", 1), N(20)>>>>,
    <<"assign", <<Index("t", V("i")), V("i")>>, <<N(30), N(9)>>>>,
    Out(<<X("i"), <<Index("t", Num(1))>>, <<Index("t", Num(2))>>>>),
    Local("u", X("t")),
    <<"assign", <<Field("t", "x"), V("t"), V("i")>>, <<N(1)>>>>,
    Out(<<<<Field("u", "x")>>, X("t"), X("i")>>)>>,
  <<Local("a", <<Items(<<>>)>>), Local("b", X("a")),
    LocalF("g", <<>>, <<<<"assign", <<Field("a", "x"), V("a")>>, <<N(1), N(2)>>>>>>), Do("g", <<>>),
    Return(<<Field("b", "x"), Op("+"), V("a")>>)>>,
  <<<<"local", <<"a", "b", "c">>, <<N(1), <<Fcall("emit", <<N(2), N(3), N(4)>>)>>>>>>,
    <<"local", <<"d", "e">>, <<N(1), N(2), <<Fcall("emit", <<N(5)>>)>>>>>>,
    <<"assign", <<V("a"), V("b")>>, <<X("b"), X("a")>>>>,
    <<"assign", <<V("d"), V("e"), V("g")>>, <<<<Fcall("emit", <<N(6), N(7)>>)>>>>>>,
    Return(<<V("a"), Op(".."), V("b"), Op(".."), V("c"), Op(".."), V("d"), Op(".."), V("e")>>)>>,
  <<LocalF("fact", <<"n">>, <<If(<<V("n"), Op("<"), Num(2)>>, <<Return(N(1))>>),
                             Return(<<V("n"), Op("*"), Fcall("fact", <<<<V("n"), Op("-"), Num(1)>>>>)>>)>>),
    LocalV("loop", <<"n", "g">>, <<If(<<V("n"), Op("=="), Num(0)>>, <<Return(<<Fcall("g", <<Dots>>)>>)>>),
       Local("k", X("n")),
       Return(<<Fcall("loop", <<<<V("n"), Op("-"), Num(1)>>, <<Fun(<<"x">>, <<Return(<<V("k"), Op("+"), V("x")>>)>>)>>, Dots>>)>>)>>),
    Out(<<<<Fcall("fact", <<N(4)>>)>>>>), Return(<<Fcall("loop", <<N(2), <<<<"nil">>>>, N(40)>>)>>)>>,
  <<Local("n", N(0)),
    While(<<<<"true">>>>, <<If(<<V("n"), Op(">="), Num(3)>>, <<<<"break">>>>), Set(V("n"), Plus("n", 1)),
      <<"if", <<<<<<V("n"), Op("=="), Num(1)>>, <<Out(<<N(1)>>)>>>>,
                <<<<V("n"), Op("~="), Num(2), Op("or"), <<"nil">>>>, <<Out(<<N(33)>>)>>>>>>, <<<<Out(<<N(22)>>)>>>>>>>>)>>,
  <<Local("n", N(0)),
    <<"repeat", <<Local("b", X("n")), Set(V("f"), <<Fun(<<>>, <<Return(X("b"))>>)>>), Set(V("n"), Plus("n", 1)),
        If(<<V("g"), Op("=="), <<"nil">>>>, <<Set(V("g"), X("f"))>>)>>, <<V("b"), Op(">="), Num(2)>>>>,
    Return(<<Fcall("f", <<>>), Op("*"), Num(10), Op("+"), Fcall("g", <<>>)>>)>>,
  <<<<"local", <<"a", "b">>, <<>>>>, Local("c", <<<<"nil">>>>),
    While(<<Op("not"), V("a")>>, <<Local("d", <<<<"nil">>>>), Out(<<X("d"), X("c")>>), Set(V("a"), <<<<"true">>>>),
                                   Set(V("d"), N(3)), Set(V("c"), N(4))>>),
    Out(<<X("b"), X("c")>>)>>,
  <<Out(<<<<Str("a"), Op(".."), Str("b"), Op(".."), Num(1), Op(".."), Str("c")>>, <<Str("d"), Op(".."), Str("e")>>>>),
    Out(<<<<Num(2), Op("*"), Num(3), Op("+"), Num(7), Op("//"), Num(2)>>, <<Num(7), Op("%"), Op("-"), Num(3)>>,
          <<Op("-"), Num(7), Op("//"), Num(2), Op("<="), Op("-"), Num(4)>>>>),
    Return(<<Num(1), Op("//"), Num(0)>>)>>,
  <<<<"function", <<"h">>, FALSE, Fun(<<"p">>, <<Local("q", X("p")),
       Return(<<Fun(<<>>, <<Return(<<Fun(<<>>, <<Set(V("q"), Plus("q", 1)), Return(<<V("q"), Op("+"), V("p")>>)>>)>>)>>)>>)>>)>>,
    Local("k", <<<<"suffixed", <<"name", "h">>, <<<<"call", <<N(3)>>>>, <<"call", <<>>>>>>>>>>),
    Do("k", <<>>), Return(<<Fcall("k", <<>>)>>)>>,
  <<LocalF("f", <<>>, <<Return(Dots)>>)>>,
  <<<<"assign", <<Fcall("f", <<>>)>>, <<N(1)>>>>>>,
  <<<<"call", <<"name", "f">>, <<<<"field", "x">>>>>>>>,
  <<<<"call", <<"name", "f">>, <<<<"field", "x">>, <<"call", <<>>>>>>>>>>,
  <<Do("f", <<>>)>>,
  <<Return(<<V("emit"), Op("<"), Num(1)>>)>>,
  <<Local("a", N(5)), Set(V("b"), <<Fun(<<>>, <<Set(V("a"), <<Op("-"), V("a")>>)>>)>>), Do("b", <<>>), Return(X("a"))>>,
  <<<<"fornum", "i", <<N(1), X("x")>>, <<>>>>>>,
  <<Local("t", <<Items(<<Dots>>)>>), <<"return", <<N(1), Dots>>>>>>,
  <<<<"local", <<"a", "b", "c", "d">>, <<Dots>>>>>>,
  <<LocalF("make", <<"x">>, <<<<"return", <<<<Fun(<<>>, <<Set(V("x"), Plus("x", 1))>>)>>,
                                             <<Fun(<<>>, <<Return(X("x"))>>)>>>>>>>>),
    <<"local", <<"up", "get">>, <<<<Fcall("make", <<N(5)>>)>>>>>>,
    Do("up", <<>>), Do("up", <<>>), Return(<<Fcall("get", <<>>)>>)>>,
  <<Local("n", N(0)), <<"label", "l">>, Local("a", X("n")),
    If(<<V("f"), Op("=="), <<"nil">>>>, <<Capture("a")>>), Set(V("n"), Plus("n", 1)),
    If(<<V("n"), Op("=="), Num(3)>>, <<Return(<<Fcall("f", <<>>)>>)>>), <<"goto", "l">>>>,
  <<Local("n", N(0)), <<"local", <<"a">>, <<>>>>, <<"label", "l">>, <<"local", <<"b">>, <<>>>>,
    Out(<<X("b"), X("a")>>), Set(V("b"), N(3)), Set(V("n"), Plus("n", 1)),
    If(<<V("n"), Op("<"), Num(2)>>, <<<<"goto", "l">>>>)>> >>
Program1(i) ==
  CASE i <= 29 -> Written[i]
    [] i > 29 /\ i <= 1129 -> ExpressionProgram(i - 29)
    [] i > 1129 -> BlockProgram(i - 1130)
Args1 == <<Number(3), Nil, Number(4)>>
=============================================================================
