------------------------------- MODULE LuaLex -------------------------------
(* The lexical analyser (llex.c): the token at a position of the text, with  *)
(* the number of its line; numerals (lobject.c); and the quoting of strings  *)
(* that string.format does (lstrlib.c). A text is a sequence of characters.  *)
EXTENDS Integers, Sequences, FiniteSets, SequencesExt, FiniteSetsExt

CONSTANT LUA_MAXINTEGER

U8 == INSTANCE LuaUtf8

EOZ == "EOZ"
at(s, p) == IF p \in DOMAIN s THEN s[p] ELSE EOZ
chars(str) == <<>> \o [i \in 1..Len(str) |-> SubSeq(str, i, i)]

Decimal == [c \in {"0", "1", "2", "3", "4", "5", "6", "7", "8", "9"} |->
              CHOOSE n \in 0..9 : ToString(n) = c]
Hexa == Decimal @@ [A |-> 10, a |-> 10, B |-> 11, b |-> 11, C |-> 12, c |-> 12, D |-> 13, d |-> 13,
                    E |-> 14, e |-> 14, F |-> 15, f |-> 15]
Letters == {"a", "b", "d", "e", "f", "n", "o", "r", "t", "u", "x", "z", "A", "E", "F", "X", "_"}
lisdigit(c) == c \in DOMAIN Decimal
lisxdigit(c) == c \in DOMAIN Hexa
lisspace(c) == c \in {" ", "\t", "\n", "\r"}

\* The characters of the instances by their codes; another one is "#" and its code.
Coded == (9 :> "\t") @@ (10 :> "\n") @@ (13 :> "\r") @@ (34 :> "\"") @@ (48 :> "0") @@ (49 :> "1") @@ (57 :> "9")
         @@ (65 :> "A") @@ (92 :> "\\") @@ (97 :> "a") @@ (122 :> "z")
chr(n) == IF n \in DOMAIN Coded THEN Coded[n] ELSE "#" \o ToString(n)
uchar(c) == CHOOSE n \in 0..255 : chr(n) = c
iscntrl(c) == c \in {chr(n) : n \in (0..31) \cup {127}}

-----------------------------------------------------------------------------
(* Numerals (lobject.c). A float is the numeral itself; the conversion of    *)
(* the C library is external.                                                *)

Width == 2 * (LUA_MAXINTEGER + 1)
Signed(n) == IF n % Width > LUA_MAXINTEGER THEN (n % Width) - Width ELSE n % Width
RECURSIVE spaces(_, _)
spaces(s, p) == IF lisspace(at(s, p)) THEN spaces(s, p + 1) ELSE p
RECURSIVE digits(_, _, _)
digits(s, p, set) == IF at(s, p) \in set THEN digits(s, p + 1, set) ELSE p
prefixed(s, p) == at(s, p) = "0" /\ at(s, p + 1) \in {"x", "X"}
MAXBY10 == LUA_MAXINTEGER \div 10
MAXLASTD == LUA_MAXINTEGER % 10
toolong_Ignored(a, d, neg) == FALSE
toolong(a, d, neg) == a >= MAXBY10 /\ (a > MAXBY10 \/ d > MAXLASTD + neg)

\* The decimal digits from p to q - 1; -1 on overflow.
accumulated(s, p, q, neg) ==
  FoldLeft(LAMBDA a, k : IF a < 0 \/ toolong(a, Decimal[s[k]], neg) THEN -1 ELSE (a * 10 + Decimal[s[k]]) % Width,
           0, [k \in 1..(q - p) |-> p + k - 1])
\* The integer, or nothing.
l_str2int(s) ==
  LET p == spaces(s, 1)
      neg == IF at(s, p) = "-" THEN 1 ELSE 0
      d == IF at(s, p) \in {"-", "+"} THEN p + 1 ELSE p
      hex == prefixed(s, d)
      first == IF hex THEN d + 2 ELSE d
      behind == digits(s, first, IF hex THEN DOMAIN Hexa ELSE DOMAIN Decimal)
      a == IF hex THEN FoldLeft(LAMBDA r, k : (r * 16 + Hexa[s[k]]) % Width, 0,
                                [k \in 1..(behind - first) |-> first + k - 1])
           ELSE accumulated(s, first, behind, neg)
  IN IF a < 0 \/ behind = first \/ spaces(s, behind) # Len(s) + 1 THEN {}
     ELSE {Signed(IF neg = 1 THEN -a ELSE a)}
\* Whether the C library takes the whole text: digits with a point, and an exponent.
l_str2d(s) ==
  LET p == spaces(s, 1)
      d == IF at(s, p) \in {"-", "+"} THEN p + 1 ELSE p
      hex == prefixed(s, d)
      set == IF hex THEN DOMAIN Hexa ELSE DOMAIN Decimal
      first == IF hex THEN d + 2 ELSE d
      whole == digits(s, first, set)
      behind == IF at(s, whole) = "." THEN digits(s, whole + 1, set) ELSE whole
      exponent == at(s, behind) \in (IF hex THEN {"p", "P"} ELSE {"e", "E"})
      sign == IF at(s, behind + 1) \in {"-", "+"} THEN behind + 2 ELSE behind + 1
      last == IF exponent THEN digits(s, sign, DOMAIN Decimal) ELSE behind
  IN /\ \E k \in first..(behind - 1) : s[k] \in set
     /\ exponent => last > sign
     /\ spaces(s, last) = Len(s) + 1
luaO_str2num(s) ==
  IF l_str2int(s) # {} THEN <<"TK_INT", CHOOSE n \in l_str2int(s) : TRUE>>
  ELSE IF l_str2d(s) THEN <<"TK_FLT", s>> ELSE <<"error", "malformed number">>

-----------------------------------------------------------------------------
(* Tokens: [token, seminfo, at, line], with the position and line behind.    *)

Token(token, seminfo, p, line) == [token |-> token, seminfo |-> seminfo, at |-> p, line |-> line]
Error(what, line) == Token("error", what, 0, line)
currIsNewline(c) == c \in {"\n", "\r"}
\* Behind one line break: \n, \r, or both.
inclinenumber_One(s, p) == p + 1
inclinenumber(s, p) == IF currIsNewline(at(s, p + 1)) /\ at(s, p + 1) # s[p] THEN p + 2 ELSE p + 1

RECURSIVE numeralend(_, _, _)
numeralend(s, p, expo) ==
  LET q == IF at(s, p) \in expo THEN IF at(s, p + 1) \in {"-", "+"} THEN p + 2 ELSE p + 1 ELSE p
  IN IF lisxdigit(at(s, q)) \/ at(s, q) = "." THEN numeralend(s, q + 1, expo) ELSE q
\* start is the point before p, or p.
read_numeral(s, start, p, line) ==
  LET q == IF prefixed(s, p) THEN numeralend(s, p + 2, {"P", "p"}) ELSE numeralend(s, p + 1, {"E", "e"})
      n == luaO_str2num(SubSeq(s, start, q - 1))
  IN IF n[1] = "error" THEN Error(n[2], line) ELSE Token(n[1], n[2], q, line)

\* The level of a long bracket at p, negative when it is none, and the position of its end.
skip_sep(s, p) ==
  LET q == digits(s, p + 1, {"="}) IN IF at(s, q) = s[p] THEN <<q - p - 1, q>> ELSE <<p - q, q>>
RECURSIVE longstring(_, _, _, _, _)
longstring(s, p, line, sep, buff) ==
  LET c == at(s, p)
      e == skip_sep(s, p)
  IN CASE c = EOZ -> Error("unfinished long string", line)
       [] c = "]" -> IF e[1] = sep THEN Token("TK_STRING", buff, e[2] + 1, line)
                     ELSE longstring(s, e[2], line, sep, buff \o SubSeq(s, p, e[2] - 1))
       [] currIsNewline(c) -> longstring(s, inclinenumber(s, p), line + 1, sep, Append(buff, "\n"))
       [] OTHER -> longstring(s, p + 1, line, sep, Append(buff, c))
\* p is the second bracket.
read_long_string(s, p, line, sep) ==
  IF currIsNewline(at(s, p + 1)) THEN longstring(s, inclinenumber(s, p + 1), line + 1, sep, <<>>)
  ELSE longstring(s, p + 1, line, sep, <<>>)

\* Escapes: what the one at p, behind the backslash, adds, and the position behind it.
Simple == [a |-> chr(7), b |-> chr(8), f |-> chr(12), n |-> "\n", r |-> "\r", t |-> "\t", v |-> chr(11)]
NoEscape == <<<<>>, 0>>
readhexaesc(s, p) ==
  IF lisxdigit(at(s, p + 1)) /\ lisxdigit(at(s, p + 2))
  THEN <<<<chr(16 * Hexa[s[p + 1]] + Hexa[s[p + 2]])>>, p + 3>> ELSE NoEscape
utf8esc(s, p) ==
  LET q == digits(s, p + 2, DOMAIN Hexa)
      r == FoldLeft(LAMBDA n, k : IF n > U8!MAXUNICODE THEN n ELSE n * 16 + Hexa[s[k]], 0,
                    [k \in 1..(q - p - 2) |-> p + 1 + k])
      bytes == U8!luaO_utf8esc(r)
  IN IF at(s, p + 1) # "{" \/ q = p + 2 \/ at(s, q) # "}" \/ r > U8!MAXUNICODE THEN NoEscape
     ELSE <<<<>> \o [k \in DOMAIN bytes |-> chr(bytes[k])], q + 1>>
readdecesc(s, p) ==
  LET q == digits(s, p, DOMAIN Decimal)
      e == IF q > p + 3 THEN p + 3 ELSE q
      r == FoldLeft(LAMBDA n, k : 10 * n + Decimal[s[k]], 0, [k \in 1..(e - p) |-> p + k - 1])
  IN IF e = p \/ r > 255 THEN NoEscape ELSE <<<<chr(r)>>, e>>
escape(s, p) ==
  LET c == at(s, p)
  IN CASE c \in DOMAIN Simple -> <<<<Simple[c]>>, p + 1>>
       [] c = "x" -> readhexaesc(s, p) [] c = "u" -> utf8esc(s, p)
       [] currIsNewline(c) -> <<<<"\n">>, inclinenumber(s, p)>>
       [] c \in {"\\", "\"", "'"} -> <<<<c>>, p + 1>>
       [] c = EOZ -> <<<<>>, p>>
       [] c = "z" -> <<<<>>, spaces(s, p + 1)>>
       [] OTHER -> readdecesc(s, p)
\* Line breaks of the text from p to q - 1.
RECURSIVE breaks(_, _, _)
breaks(s, p, q) ==
  IF p >= q THEN 0 ELSE IF currIsNewline(s[p]) THEN 1 + breaks(s, inclinenumber(s, p), q) ELSE breaks(s, p + 1, q)
RECURSIVE read_string(_, _, _, _, _)
read_string(s, p, line, del, buff) ==
  LET c == at(s, p)
      e == escape(s, p + 1)
  IN CASE c = del -> Token("TK_STRING", buff, p + 1, line)
       [] c = EOZ \/ currIsNewline(c) -> Error("unfinished string", line)
       [] c = "\\" -> IF e[2] = 0 THEN Error("invalid escape sequence", line)
                      ELSE read_string(s, e[2], line + breaks(s, p + 1, e[2]), del, buff \o e[1])
       [] OTHER -> read_string(s, p + 1, line, del, Append(buff, c))

Reserved == {"and", "do", "or", "end", "not"}
Double == {"==", "<=", "<<", ">=", ">>", "//", "~=", "::"}
RECURSIVE lineend(_, _)
lineend(s, p) == IF currIsNewline(at(s, p)) \/ at(s, p) = EOZ THEN p ELSE lineend(s, p + 1)
RECURSIVE llex(_, _, _)
comment(s, p, line) ==
  LET sep == skip_sep(s, p)
      long == read_long_string(s, sep[2], line, sep[1])
  IN IF at(s, p) = "[" /\ sep[1] >= 0
     THEN IF long.token = "error" THEN long ELSE llex(s, long.at, long.line)
     ELSE llex(s, lineend(s, p), line)
bracket(s, p, line) ==
  LET sep == skip_sep(s, p)
  IN IF sep[1] >= 0 THEN read_long_string(s, sep[2], line, sep[1])
     ELSE IF sep[1] # -1 THEN Error("invalid long string delimiter", line)
     ELSE Token("[", 0, p + 1, line)
points(s, p, line) ==
  IF at(s, p + 1) = "." THEN IF at(s, p + 2) = "." THEN Token("...", 0, p + 3, line) ELSE Token("..", 0, p + 2, line)
  ELSE IF lisdigit(at(s, p + 1)) THEN read_numeral(s, p, p + 1, line) ELSE Token(".", 0, p + 1, line)
word(s, p, line) ==
  LET q == digits(s, p, Letters \cup DOMAIN Decimal)
      text == FoldLeft(LAMBDA r, c : r \o c, "", SubSeq(s, p, q - 1))
  IN IF text \in Reserved THEN Token(text, 0, q, line) ELSE Token("TK_NAME", text, q, line)
llex(s, p, line) ==
  LET c == at(s, p)
      d == at(s, p + 1)
  IN CASE c = EOZ -> Token("TK_EOS", 0, p, line)
       [] currIsNewline(c) -> llex(s, inclinenumber(s, p), line + 1)
       [] c \in {" ", "\t"} -> llex(s, p + 1, line)
       [] c = "-" /\ d = "-" -> comment(s, p + 2, line)
       [] c = "[" -> bracket(s, p, line)
       [] c \o d \in Double -> Token(c \o d, 0, p + 2, line)
       [] c \in {"\"", "'"} -> read_string(s, p + 1, line, c, <<>>)
       [] c = "." -> points(s, p, line)
       [] lisdigit(c) -> read_numeral(s, p, p, line)
       [] c \in Letters -> word(s, p, line)
       [] OTHER -> Token(c, 0, p + 1, line)

\* The reader's state: the current token and the one that was looked at ahead, if any.
None == "none"
luaX_setinput(s) == [s |-> s, p |-> 1, linenumber |-> 1, lastline |-> 1, t |-> None, lookahead |-> None]
Read(ls) == llex(ls.s, ls.p, ls.linenumber)
luaX_next(ls) ==
  LET ls1 == [ls EXCEPT !.lastline = ls.linenumber]
  IN IF ls.lookahead # None THEN [ls1 EXCEPT !.t = ls.lookahead, !.lookahead = None]
     ELSE [ls1 EXCEPT !.t = <<Read(ls).token, Read(ls).seminfo>>, !.p = Read(ls).at, !.linenumber = Read(ls).line]
luaX_lookahead(ls) ==
  [ls EXCEPT !.lookahead = <<Read(ls).token, Read(ls).seminfo>>, !.p = Read(ls).at, !.linenumber = Read(ls).line]

-----------------------------------------------------------------------------
(* Literals of string.format("%q")                                           *)

padded(n) == (IF n < 10 THEN "00" ELSE IF n < 100 THEN "0" ELSE "") \o ToString(n)
code_Short(n, next) == ToString(n)
code(n, next) == IF lisdigit(next) THEN padded(n) ELSE ToString(n)
addquoted(x) ==
  LET one(k) ==
        IF x[k] \in {"\"", "\\", "\n"} THEN <<"\\", x[k]>>
        ELSE IF iscntrl(x[k]) THEN <<"\\">> \o chars(code(uchar(x[k]), at(x, k + 1)))
        ELSE <<x[k]>>
  IN <<"\"">> \o FlattenSeq([k \in DOMAIN x |-> one(k)]) \o <<"\"">>
RECURSIVE hexdigits(_)
hexdigits(n) ==
  (IF n < 16 THEN "" ELSE hexdigits(n \div 16))
  \o (CHOOSE c \in DOMAIN Hexa \ {"A", "B", "C", "D", "E", "F"} : Hexa[c] = n % 16)
addinteger(n) == IF n = -LUA_MAXINTEGER - 1 THEN "0x" \o hexdigits(-n) ELSE ToString(n)

-----------------------------------------------------------------------------
\* The tokens of a text, each with the number of the line where it ends, read with or
\* without looking ahead.
RECURSIVE tokens(_, _)
tokens(ls, ahead) ==
  LET next == luaX_next(IF ahead THEN luaX_lookahead(ls) ELSE ls)
  IN IF next.t[1] \in {"TK_EOS", "error"} THEN <<next.t[1]>>
     ELSE <<<<next.t, next.linenumber>>>> \o tokens(next, ahead)

\* A text is a sequence of pieces with something between them; pieces and gaps are
\* [text, t, breaks], with the line breaks that they contain.
Lexes(pieces, gaps) ==
  LET n == Len(pieces)
      text == FlattenSeq([k \in 1..n |-> gaps[k].text \o pieces[k].text]) \o gaps[n + 1].text
      line(k) == FoldLeft(LAMBDA l, i : l + gaps[i].breaks + pieces[i].breaks, 1, [i \in 1..k |-> i])
      expected == [k \in 1..n |-> <<pieces[k].t, line(k)>>] \o <<"TK_EOS">>
  IN \A ahead \in BOOLEAN : tokens(luaX_setinput(text), ahead) = expected

\* A quoted string is read as the string that it was.
Quotes(x) ==
  LET breaks_ == Len(SelectSeq(x, LAMBDA c : c = "\n"))
  IN Lexes(<<[text |-> addquoted(x), t |-> <<"TK_STRING", x>>, breaks |-> breaks_]>>,
           <<[text |-> <<>>, breaks |-> 0], [text |-> <<>>, breaks |-> 0]>>)

\* A long string has its line breaks made equal, and not the first one.
RECURSIVE Lines(_)
Lines(x) ==
  LET two == Len(x) >= 2 /\ {x[1], x[2]} = {"\n", "\r"}
  IN IF x = <<>> THEN <<<<>>>>
     ELSE IF x[1] \notin {"\n", "\r"} THEN LET rest == Lines(Tail(x)) IN [rest EXCEPT ![1] = <<x[1]>> \o @]
     ELSE <<<<>>>> \o Lines(SubSeq(x, IF two THEN 3 ELSE 2, Len(x)))
Joined(lines) == FlattenSeq([k \in DOMAIN lines |-> (IF k = 1 THEN <<>> ELSE <<"\n">>) \o lines[k]])
Closes(x) == \E k \in 1..(Len(x) - 2) : SubSeq(x, k, k + 2) = chars("]=]")
Long(x) ==
  LET lines == Lines(x)
      content == Joined(IF Len(lines) > 1 /\ lines[1] = <<>> THEN Tail(lines) ELSE lines)
  IN Closes(x \o chars("]=")) \/
       Lexes(<<[text |-> chars("[=[") \o x \o chars("]=]"), t |-> <<"TK_STRING", content>>,
                breaks |-> Len(lines) - 1]>>,
             <<[text |-> <<>>, breaks |-> 0], [text |-> <<>>, breaks |-> 0]>>)

\* A decimal numeral is an integer when it can be one, an hexadecimal one wraps around, and
\* an integer that is written is read again.
Numerals(n) ==
  LET decimal == chars(ToString(n))
      wrapped == Signed(n)
  IN /\ luaO_str2num(decimal) = IF n \in -LUA_MAXINTEGER - 1..LUA_MAXINTEGER THEN <<"TK_INT", n>> ELSE <<"TK_FLT", decimal>>
     /\ n >= 0 => luaO_str2num(chars("0x" \o hexdigits(n))) = <<"TK_INT", wrapped>>
     /\ luaO_str2num(chars(" " \o addinteger(wrapped) \o " ")) = <<"TK_INT", wrapped>>
=============================================================================
