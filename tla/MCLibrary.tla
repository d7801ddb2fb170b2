----------------------------- MODULE MCLibrary -----------------------------
(* Tables and sorting run, and the functions that only compute   *)
(* are applied to a set of inputs: each part from an initial state of its    *)
(* own.                                                                      *)
EXTENDS Integers, Sequences, FiniteSets

CONSTANTS
  Parts,              \* the parts that run
  Unset, Bad          \* no value, an error

VARIABLES
  part, input,                     \* the part of this behaviour and its input
  tab, assigned, place, visited,   \* LuaTable
  array, given, honest, sort       \* LuaSort

tablevars == <<tab, assigned, place, visited>>
sortvars == <<array, given, honest, sort>>
libvars == <<part, input, tablevars, sortvars>>

-----------------------------------------------------------------------------
(* The state machines *)

\* Nodes fill up, move and are rehashed; the keys include a float that stands for an
\* integer, and objects that die; three keys share a main position.
TableKeys == {<<"int", 1>>, <<"int", 2>>, <<"int", 3>>, <<"obj", 2>>, <<"obj", 5>>, <<"flt", 4>>}
T == INSTANCE LuaTable WITH
       Keys <- TableKeys, Values <- {1}, Nil <- Unset, MaxInteger <- 3,
       t <- tab, map <- assigned, at <- place, seen <- visited

\* From five elements on an interval has a pivot inside, from six on a random one.
Arrays == UNION {[1..n -> 1..2] : n \in 0..5}
          \cup {<<3, 1, 2>>, <<4, 3, 2, 1>>, <<3, 4, 1, 2, 5>>, <<6, 5, 4, 3, 2, 1>>, <<2, 4, 6, 1, 3, 5>>,
                <<3, 1, 2, 3, 1, 2>>}
S == INSTANCE LuaSort WITH
       RANLIMIT <- 4, Imbalance <- 2, Randoms <- {0, 3}, Inputs <- Arrays, MAXINTEGER <- 7, Error <- Bad,
       a <- array, given <- given, honest <- honest, q <- sort

-----------------------------------------------------------------------------
(* Numbers: integers of 5 bits, floats of 3 bits *)

N == INSTANCE LuaArith WITH IntBits <- 5, NBM <- 3, NBITS <- 4
Numbers ==
  {<<"int", n>> : n \in -16..15}
  \cup {<<"flt", s * m * 2 ^ e>> : s \in {1, -1}, m \in 0..7, e \in 0..5}
  \cup {<<"flt", N!Inf>>, <<"flt", -N!Inf>>, N!NaN}
NumbersRight(x, y) ==
  /\ N!ComparesExactly(x, y)
  /\ N!isint(x) /\ N!isint(y) =>
       N!Divides(x[2], y[2]) /\ N!Shifts(x[2], y[2]) /\ N!BitOperations(x[2], y[2])
  /\ N!isint(y) => N!Loops(x, y[2])
  /\ N!Rounds(x) /\ N!Coerces(x, y)

-----------------------------------------------------------------------------
(* Patterns: all of two items, and longer ones *)

\* What a replacement function gives for its first capture.
Replacement(c) == IF c = <<>> \/ c = <<"position", 1>> THEN <<"nil">> ELSE IF c[1] = "position" THEN <<"x">> ELSE <<"(">> \o c
Pat == INSTANCE LuaPattern WITH MAXCCALLS <- 20, LUA_MAXCAPTURES <- 3, Repl <- Replacement
Ref == INSTANCE Patterns
A_ == Ref!Chars({"a"}, "a", "one")
As == Ref!Chars({"a"}, "a*", "*")
Any == Ref!Chars({"a", "b", "c", "x", "(", ")", "]", "1", "2", "B", "-"}, ".*", "*")
Few == Ref!Chars({"a", "b"}, "[ab]-", "-")
Some == Ref!Chars({"a", "b"}, "[a-b]+", "+")
Bq == Ref!Chars({"b"}, "b?", "?")
NoDigit == Ref!Chars({"a", "b", "c", "(", ")", "-", "B"}, "%D", "one")
NoSet == Ref!Chars({"b", "c", "(", ")", "x", "-", "]", "1", "2"}, "[^%ua]", "one")
One == Ref!Again(1, "%1")
Two == Ref!Again(2, "%2")
Nest == Ref!Balance("(", ")", "%b()")
Edge == Ref!Frontier({"b", "(", ")"}, "%f[b%p]")
O_ == Ref!Open
C_ == Ref!Close
Items1 == <<A_, As, Few, Some, Bq, NoDigit, Any, NoSet, Ref!Here, Nest, Edge, Ref!End>>
Longer == <<
  <<O_, As, C_, Bq, One>>, <<O_, Few, C_, One, Ref!End>>, <<O_, Any, C_, O_, As, C_, Two>>,
  <<O_, O_, NoDigit, C_, Any, C_, Two>>, <<O_, As, Ref!Here, Any, C_, NoSet>>, <<Any, O_, Few, C_, A_>>,
  <<O_, Few, A_, C_, Any, One>>, <<Edge, O_, Some, C_>>, <<O_, Bq, C_, As, One, Bq>>,
  <<Nest, O_, Any, C_>>, <<Any, Nest>>, <<Ref!Here, Any, Ref!Here>>, <<O_, Some, C_, Any, Edge>>,
  <<Some, Bq, A_, A_>>, <<As, As, Few, NoDigit, Ref!End>>, <<O_, As, C_, O_, Bq, C_, O_, Few, C_, A_>>,
  <<O_, O_, As, C_, Bq, C_, Any, Two, One>>, <<Few, O_, Nest, C_, Any, Ref!End>>, <<>> >>
Subjects == {"", "a", "b", "ab", "aab", "abab", "(a(b))", "ba(b)", "baabaab"}
NPatterns == 144 + Len(Longer)
PatternItems(n) == IF n <= 144 THEN <<Items1[((n - 1) % 12) + 1], Items1[(n - 1) \div 12 + 1]>> ELSE Longer[n - 144]

PatternRight(n, subject) ==
  LET items == PatternItems(n)
      P0 == Pat!chars(Ref!Text(items))
      Sb == Pat!chars(subject)
      found(from, anchor) == Ref!Find(items, Sb, from, anchor)
      ms == Ref!Matches(items, Sb, 1, 0)
      two == SubSeq(ms, 1, IF Len(ms) > 2 THEN 2 ELSE Len(ms))
      whole(m) == SubSeq(Sb, m.from, m.way.end - 1)
      first(m) == Ref!ValuesOrAll(Sb, m.from, m.way)[1]
      replaced(m) == LET v == Replacement(first(m)) IN IF v = <<"nil">> THEN whole(m) ELSE v
  IN Ref!Proper(items) =>
       /\ \A i \in {1, 3, -1} :
            LET from == Pat!AtLeast1(Pat!posrelat(i, Len(Sb)))
            IN Pat!str_find_aux(Sb, P0, i, TRUE, FALSE) = IF from > Len(Sb) + 1 THEN <<"nil">> ELSE found(from, FALSE)
       /\ Pat!str_find_aux(Sb, <<"^">> \o P0, 1, TRUE, FALSE) = found(1, TRUE)
       /\ Pat!gmatch(Sb, P0) = [k \in DOMAIN ms |-> Ref!ValuesOrAll(Sb, ms[k].from, ms[k].way)]
       /\ \A tr \in {"function", "table"} :
            Pat!str_gsub(Sb, P0, <<>>, tr, 2) = <<Ref!Replaced(Sb, two, replaced), Len(two)>>
       /\ Pat!str_gsub(Sb, P0, Pat!chars("x%0%%"), "string", 9) =
            <<Ref!Replaced(Sb, ms, LAMBDA m : <<"x">> \o whole(m) \o <<"%">>), Len(ms)>>

\* Patterns that are malformed, or ask for more captures or nested calls than there are.
Malformed == {"(a", "(a))", "%", "[a", "[%", "%b", "%b(", "%fa", "%f[a", "%1", "(a%1)", "()(%2)",
              "(((()", "()()()()", "a?a?a?a?a?a?a?a?a?a?a?a?a?a?a?a?a?a?a?a?a?"}
Refused(text) == LET r == Pat!str_find_aux(Pat!chars("aaaaaaaaaaaaaaaaaaaaaaa"), Pat!chars(text), 1, TRUE, FALSE)
                 IN r = <<"error">>
\* Substrings of a string of n characters.
SubstringRight(n) ==
  LET Sb == SubSeq(Pat!chars("abc12"), 1, n)
      index(i) == IF i < 0 THEN n + 1 + i ELSE i
      sub(i, j) == SelectSeq([k \in 1..n |-> k], LAMBDA k : index(i) <= k /\ k <= index(j))
  IN /\ \A i, j \in -7..7 :
          /\ Pat!str_sub(Sb, i, j) = <<>> \o [k \in DOMAIN sub(i, j) |-> Sb[sub(i, j)[k]]]
          /\ Len(Pat!str_byte(Sb, i, j)) = Len(sub(i, j))
     /\ Pat!str_reverse(Pat!str_reverse(Sb)) = Sb
     /\ \A k \in 0..4 : LET r == Pat!str_rep(Sb, k, <<"-">>, 20)
                        IN IF k * (n + 1) > 20 THEN r = <<"error">>
                           ELSE Len(r) = IF k = 0 THEN 0 ELSE k * (n + 1) - 1

-----------------------------------------------------------------------------
(* Packed data: bytes of 3 bits, integers of two bytes *)

Pk == INSTANCE LuaPack WITH
        NB <- 3, SZINT <- 2, MAXINTSIZE <- 5, MAXALIGN <- 4, MAXSIZE <- 31, Error <- Bad
Item(kind, size, text) == [kind |-> kind, size |-> size, text |-> text]
PackItems ==
  {Item("int", 1, "b"), Item("int", 2, "j"), Item("int", 3, "i3"), Item("int", 4, "i4"), Item("uint", 1, "B"),
   Item("uint", 2, "I2"), Item("uint", 4, "I4"), Item("float", 2, "n"), Item("char", 2, "c2"),
   Item("string", 1, "s1"), Item("string", 2, "s"), Item("zstr", 0, "z")}
PackValues(item) ==
  IF item.kind = "float" THEN {<<5, 2>>}
  ELSE IF item.kind \in {"int", "uint"} THEN {-32, -5, -1, 0, 3, 4, 7, 8, 31}
  ELSE {<<>>, <<3>>, <<0, 5>>, <<1, 2, 7>>}
\* A format that comes first, the greatest alignment that it asks for, whether bytes are
\* in little endian order, and the padding that it makes.
PackModes == {<<"", 1, TRUE, <<>>>>, <<"> ", 1, FALSE, <<>>>>, <<"x<!2Xj=", 2, TRUE, <<0, 0>>>>, <<">!", 4, FALSE, <<>>>>}
PackRight(m, items, vs) ==
  Pk!Packs(items, vs, m[2], m[3], m[4], Pat!chars(m[1] \o items[1].text \o items[2].text))
UnpackFormats == {"i1", ">I2", "i3", ">i4", "I4", "s1", "s2b", "c2I1"}
Data == UNION {[1..n -> {0, 1, 4, 7}] : n \in 0..4}

-----------------------------------------------------------------------------
(* Precompiled functions *)

D == INSTANCE LuaDump WITH Base <- 8, Header <- <<<<1, 2>>, <<3>>, <<0>>, <<4, 5>>>>, NULL <- Unset
Const(type, value) == [type |-> type, value |-> value]
Constants ==
  {<<>>, <<Const("nil", 0), Const("boolean", 1), Const("string", <<1, 0, 2>>)>>,
   <<Const("integer", 63), Const("float", 20), Const("string", <<1, 2, 3, 4, 5, 6, 7, 7, 6>>)>>}
Upv(n) == [instack |-> 1, idx |-> n, name |-> <<n>>]
Loc(n) == [varname |-> <<n>>, startpc |-> n, endpc |-> 9]
Plain(source, k, upvalues, lineinfo, locvars) ==
  [source |-> source, linedefined |-> 1, lastlinedefined |-> 20, numparams |-> 2, is_vararg |-> 1,
   maxstacksize |-> 7, code |-> <<60, 11>>, k |-> k, upvalues |-> upvalues, p |-> <<>>,
   lineinfo |-> lineinfo, locvars |-> locvars]
\* A function, alone, or with a nested one that has the same source or another.
Functions ==
  LET simple == {Plain(s, k, u, l, v) : s \in {Unset, <<1, 2>>}, k \in Constants, u \in {<<>>, <<Upv(1), Upv(2)>>},
                                        l \in {<<3, 4>>}, v \in {<<>>, <<Loc(1)>>}}
  IN simple \cup {[f EXCEPT !.p = <<g>>] : f, g \in {h \in simple : Len(h.k) = 3 /\ h.source # Unset /\ h.locvars # <<>>}}
           \cup {[f EXCEPT !.p = <<Plain(<<7>>, <<>>, <<Upv(3)>>, <<>>, <<>>)>>] : f \in simple}

-----------------------------------------------------------------------------
(* UTF-8 *)

U == INSTANCE LuaUtf8
Codes == {0, 65, 127, 128, 2047, 2048, 55296, 65535, 65536, 1114111}
FirstBytes == {0, 65, 127, 128, 144, 160, 191, 192, 193, 194, 223, 224, 237, 239, 240, 244, 245, 248, 252, 255}
MoreBytes == {0, 128, 143, 144, 191, 192}

-----------------------------------------------------------------------------
(* The text of programs: pieces of one token and what may stand between them *)

L == INSTANCE LuaLex WITH LUA_MAXINTEGER <- 127
Piece(text, token, seminfo, n) == [text |-> L!chars(text), t |-> <<token, seminfo>>, breaks |-> n]
Ops == {"==", "=", "<", "<=", "<<", ">", "..", "...", ".", "/", "//", "~", "~=", ":", "::", "[", "-", "(", "and", "or"}
Pieces ==
  {Piece(o, o, 0, 0) : o \in Ops} \cup
  {Piece("a", "TK_NAME", "a", 0), Piece("or1", "TK_NAME", "or1", 0), Piece("10", "TK_INT", 10, 0),
   Piece("0x7f", "TK_INT", 127, 0), Piece("0xff", "TK_INT", -1, 0), Piece("1e5", "TK_FLT", L!chars("1e5"), 0),
   Piece(".5", "TK_FLT", L!chars(".5"), 0), Piece("0xA.8p-1", "TK_FLT", L!chars("0xA.8p-1"), 0),
   Piece("200", "TK_FLT", L!chars("200"), 0),
   Piece("'a\\65\\x7A\\z \r\n z\\\n'", "TK_STRING", L!chars("aAzz\n"), 2),
   Piece("\"'\\u{7a}\\n\"", "TK_STRING", L!chars("'z\n"), 0), Piece("[[\n]a\r]]", "TK_STRING", L!chars("]a\n"), 2),
   Piece("'\\200\\u{E9}'", "TK_STRING", <<"#200", "#195", "#169">>, 0)}
Gap(text, n) == [text |-> L!chars(text), breaks |-> n]
Gaps == {Gap(" ", 0), Gap("\n", 1), Gap("\r\n\n", 2), Gap(" --a\r", 1), Gap(" --[[a\n\n\r]]", 2), Gap(" --[=a\n", 1),
         Gap("\t--[=[]]\n]=]", 1)}
Wrong == {"'a", "'a\n'", "[==a", "[[a]", "1e", "0x", "1..2", "3ab", "'\\300'", "'\\xa'", "'\\u{110000}'", "'\\u{a'",
          "'\\e'", "1e+", "'\\"}
Rejects(text) == LET r == L!tokens(L!luaX_setinput(L!chars(text)), FALSE) IN r[Len(r)] = "error"

-----------------------------------------------------------------------------
(* All of it *)

Start == <<"start">>
Init ==
  /\ part \in Parts /\ input = Start
  /\ T!TInit
  /\ IF part = "sort" THEN S!SInit
     ELSE array = <<>> /\ given = <<>> /\ honest = TRUE /\ sort = [pc |-> "done"]

Runs(p, Step, others) == part = p /\ Step /\ UNCHANGED <<part, input, others>>
Takes(p) == part = p /\ input = Start /\ UNCHANGED <<part, tablevars, sortvars>>

Sorting == Runs("sort", S!SNext, tablevars)
Next ==
  \/ Runs("table", T!TNext, sortvars)
  \/ Sorting
  \/ Takes("numbers") /\ \E x, y \in Numbers : input' = <<"numbers", x, y>>
  \/ Takes("moves") /\ \E f, e, t \in -8..7 : input' = <<"move", f, e, t>>
  \/ Takes("moves") /\ \E size \in 0..4, i, e \in -8..7 : input' = <<"list", size, i, e>>
  \/ Takes("patterns") /\ \E n \in 1..NPatterns, subject \in Subjects : input' = <<"pattern", n, subject>>
  \/ Takes("patterns") /\ \E text \in Malformed : input' = <<"malformed", text>>
  \/ Takes("patterns") /\ \E n \in 0..5 : input' = <<"substring", n>>
  \/ Takes("packs") /\ \E m \in PackModes, x, y \in PackItems : \E v \in PackValues(x), w \in PackValues(y) :
                          input' = <<"pack", m, <<x, y>>, <<v, w>>>>
  \/ Takes("packs") /\ \E fmt \in UnpackFormats, data \in Data : input' = <<"unpack", fmt, data>>
  \/ Takes("dumps") /\ \E f \in Functions, strip \in BOOLEAN : input' = <<"dump", f, strip>>
  \/ Takes("texts") /\ \E n \in 0..3 : \E c \in [1..n -> Codes] : input' = <<"characters", c>>
  \/ Takes("texts") /\ \E x, y \in FirstBytes, n \in 0..2 : \E c \in [1..n -> MoreBytes] : input' = <<"bytes", <<x, y>> \o c>>
  \/ Takes("texts") /\ \E n \in 0..3 : \E x \in [1..n -> {"a", "1", "\"", "\\", "\n", "\r", "#0", "#200"}] :
                          input' = <<"quoted", <<>> \o x>>
  \/ Takes("texts") /\ \E n \in -300..600 : input' = <<"numeral", n>>
  \/ Takes("lexer") /\ \E p, q \in Pieces, gap \in Gaps : input' = <<"text", <<p, q>>, <<Gap("\r\n\n", 2), gap, Gap("", 0)>>>>
  \/ Takes("lexer") /\ \E n \in 0..4 : \E x \in [1..n -> {"a", "]", "=", "\n", "\r", "["}] : input' = <<"long", <<>> \o x>>
  \/ Takes("lexer") /\ \E text \in Wrong : input' = <<"wrong", text>>
LibSpec == Init /\ [][Next]_libvars /\ WF_sortvars(Sorting)

-----------------------------------------------------------------------------
(* Properties *)

Is(kind) == input'[1] = kind

\* A table is a map: a traversal meets every entry once, even when entries are cleared,
\* and their keys die, on the way (luaH_set, luaH_get, luaH_next). However the table
\* fills, moves its nodes, grows or fails to grow, every key is found from its main
\* position, and the length that the binary search finds is a border.
IsMap == T!IsMap /\ [](part = "table" => T!Lookup /\ T!Border)


\* Whatever the order function answers, sorting keeps the elements and its interval;
\* elements are moved, shifted and listed as if all at once (ltablib.c).
Row(size) == [k \in -8..7 |-> IF k \in 1..size THEN k ELSE 0]
Full == [k \in -8..7 |-> k + 20]
MovesRight ==
  /\ Is("move") => S!Moves(Full, input'[2], input'[3], input'[4])
  /\ Is("list") =>
       /\ S!Lists(Row(input'[2]), input'[3], input'[4], 0) /\ S!Lists(Full, input'[3], input'[4], 0)
       /\ input'[3] = input'[4] => S!Shifts(Row(input'[2]), input'[2], input'[3], 9, 0)
ListsAsMeant == [](part = "sort" => S!Sorts) /\ [][MovesRight]_input

\* Sorting ends, however inconsistent the answers of the order function are: it returns
\* or finds its order function invalid.
SortEnds == <>(part # "sort" \/ sort.pc \in {"done", "error"})

\* Integers and floats compare, divide, shift, round and loop as the numbers they are.
Arithmetic == [][Is("numbers") => NumbersRight(input'[2], input'[3])]_input

\* A match, its captures and the replacements are the first way in which the items match.
MatchesAsMeant ==
  [][/\ Is("pattern") => PatternRight(input'[2], input'[3])
     /\ Is("malformed") => Refused(input'[2])
     /\ Is("substring") => SubstringRight(input'[2])]_input

\* What is written comes back: packed values, precompiled functions, characters in UTF-8,
\* quoted strings and numerals; what is truncated or too large is refused.
ComesBack ==
  [][/\ Is("pack") => PackRight(input'[2], input'[3], input'[4])
     /\ Is("unpack") => Pk!Unpacks(Pat!chars(input'[2]), input'[3])
     /\ Is("dump") => D!Restores(input'[2], input'[3])
     /\ Is("characters") => U!Characters(input'[2])
     /\ Is("bytes") => U!Decodes(input'[2])
     /\ Is("quoted") => L!Quotes(input'[2])
     /\ Is("numeral") => L!Numerals(input'[2])]_input

\* The tokens of a text are those it was put together from, on the right lines.
LexesAsWritten ==
  [][/\ Is("text") => L!Lexes(input'[2], input'[3])
     /\ Is("long") => L!Long(input'[2])
     /\ Is("wrong") => Rejects(input'[2])]_input
=============================================================================
