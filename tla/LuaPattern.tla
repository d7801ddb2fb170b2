----------------------------- MODULE LuaPattern -----------------------------
(* Strings and their patterns (lstrlib.c): matching by backtracking, with    *)
(* the captures kept in one array that a failed attempt has to restore; find *)
(* and match, the iterator of gmatch, gsub; substrings. Positions count from *)
(* 1; a subject ends with a character that is not of it.                     *)
EXTENDS Integers, Sequences, FiniteSets, SequencesExt, FiniteSetsExt

CONSTANTS
  MAXCCALLS,         \* nested calls of match
  LUA_MAXCAPTURES,   \* captures of a pattern
  Repl(_)            \* what the replacement of gsub, a function or a table, gives for a capture

NUL == "NUL"
chars(str) == <<>> \o [i \in 1..Len(str) |-> SubSeq(str, i, i)]
at(str, i) == IF i \in DOMAIN str THEN str[i] ELSE NUL

\* Codes and classes of the characters that the instances use.
uchar(c) ==
  CASE c = NUL -> 0 [] c = " " -> 32 [] c = "(" -> 40 [] c = ")" -> 41 [] c = "-" -> 45
    [] c = "1" -> 49 [] c = "2" -> 50 [] c = "B" -> 66 [] c = "]" -> 93
    [] c = "a" -> 97 [] c = "b" -> 98 [] c = "c" -> 99 [] c = "x" -> 120 [] OTHER -> 46
isclass ==
  [a |-> {"a", "b", "c", "x", "B"}, c |-> {NUL}, d |-> {"1", "2"},
   g |-> {"a", "b", "c", "x", "B", "1", "2", "(", ")", "-", "]"}, l |-> {"a", "b", "c", "x"},
   p |-> {"(", ")", "-", "]"}, s |-> {" "}, u |-> {"B"}, w |-> {"a", "b", "c", "x", "B", "1", "2"},
   x |-> {"a", "b", "c", "B", "1", "2"}, z |-> {NUL}]
Capitals == [A |-> "a", C |-> "c", D |-> "d", G |-> "g", L |-> "l", P |-> "p", S |-> "s", U |-> "u",
             W |-> "w", X |-> "x", Z |-> "z"]

-----------------------------------------------------------------------------
(* Substrings *)

posrelat(pos, len) == IF pos >= 0 THEN pos ELSE IF -pos > len THEN 0 ELSE len + pos + 1
AtLeast1(i) == IF i < 1 THEN 1 ELSE i
AtMost(j, l) == IF j > l THEN l ELSE j
str_sub(S, i, j) ==
  LET first == AtLeast1(posrelat(i, Len(S)))
      last == AtMost(posrelat(j, Len(S)), Len(S))
  IN IF first <= last THEN SubSeq(S, first, last) ELSE <<>>
str_byte(S, i, j) == LET r == str_sub(S, i, j) IN <<>> \o [k \in DOMAIN r |-> uchar(r[k])]
str_reverse(S) == <<>> \o [i \in DOMAIN S |-> S[Len(S) - i + 1]]
\* n copies with separators, unless that is longer than MAXSIZE.
RECURSIVE copied(_, _, _)
copied(S, n, sep) == IF n > 1 THEN S \o sep \o copied(S, n - 1, sep) ELSE S
str_rep(S, n, sep, MAXSIZE) ==
  IF n <= 0 THEN <<>>
  ELSE IF Len(S) + Len(sep) > MAXSIZE \div n THEN <<"error">>
  ELSE copied(S, n, sep)

-----------------------------------------------------------------------------
(* Single characters *)

\* The pattern's position behind the class that starts at p, 0 when it is malformed.
RECURSIVE bracketend(_, _)
bracketend(P, p) ==
  LET q == IF at(P, p) = "%" /\ p < Len(P) THEN p + 2 ELSE p + 1
  IN IF p = Len(P) + 1 THEN 0 ELSE IF at(P, q) = "]" THEN q + 1 ELSE bracketend(P, q)
classend(P, p) ==
  CASE P[p] = "%" -> IF p = Len(P) THEN 0 ELSE p + 2
    [] P[p] = "[" -> bracketend(P, IF at(P, p + 1) = "^" THEN p + 2 ELSE p + 1)
    [] OTHER -> p + 1

match_class(c, cl) ==
  CASE cl \in DOMAIN isclass -> c \in isclass[cl]
    [] cl \in DOMAIN Capitals -> c \notin isclass[Capitals[cl]]
    [] OTHER -> c = cl

\* The set that begins at p and ends with the bracket at ec.
RECURSIVE inbracket(_, _, _, _)
inbracket(c, P, p, ec) ==
  IF p >= ec THEN FALSE
  ELSE IF P[p] = "%" THEN match_class(c, at(P, p + 1)) \/ inbracket(c, P, p + 2, ec)
  ELSE IF P[p + 1] = "-" /\ p + 2 < ec
  THEN (uchar(P[p]) <= uchar(c) /\ uchar(c) <= uchar(P[p + 2])) \/ inbracket(c, P, p + 3, ec)
  ELSE P[p] = c \/ inbracket(c, P, p + 1, ec)
matchbracketclass(c, P, p, ec) ==
  IF P[p + 1] = "^" THEN ~ inbracket(c, P, p + 2, ec) ELSE inbracket(c, P, p + 1, ec)

singlematch(S, s, P, p, ep) ==
  /\ s <= Len(S)
  /\ CASE P[p] = "." -> TRUE
       [] P[p] = "%" -> match_class(S[s], P[p + 1])
       [] P[p] = "[" -> matchbracketclass(S[s], P, p, ep - 1)
       [] OTHER -> P[p] = S[s]

\* Where the balanced string that starts at s ends, 0 when there is none.
RECURSIVE balanced(_, _, _, _, _)
balanced(S, s, b, e, cont) ==
  IF s > Len(S) THEN 0
  ELSE IF S[s] = e THEN IF cont = 1 THEN s + 1 ELSE balanced(S, s + 1, b, e, cont - 1)
  ELSE balanced(S, s + 1, b, e, IF S[s] = b THEN cont + 1 ELSE cont)

-----------------------------------------------------------------------------
(* Matching. A result is a position, 0 for no match or -1 for an error, with *)
(* the array of captures as it then is; level is its length.                 *)

CAP_UNFINISHED == -1
CAP_POSITION == -2
Failed == -1
R(s, cap) == [s |-> s, cap |-> cap]

\* The capture that l names, and the innermost open one; 0 when there is none.
check_capture(cap, l) ==
  IF l \notin DOMAIN cap THEN 0 ELSE IF cap[l].len = CAP_UNFINISHED THEN 0 ELSE l
capture_to_close(cap) == Max({0} \cup {l \in DOMAIN cap : cap[l].len = CAP_UNFINISHED})
digit(c) == CASE c = "1" -> 1 [] c = "2" -> 2 [] c = "0" -> 0 [] OTHER -> -1
\* A position capture has the length CAP_POSITION, which no string has.
match_capture(S, cap, s, l) ==
  LET len == cap[l].len
  IN IF len >= 0 /\ Len(S) + 1 - s >= len
        /\ SubSeq(S, cap[l].init, cap[l].init + len - 1) = SubSeq(S, s, s + len - 1)
     THEN s + len ELSE 0

reopened_Kept(cap, l) == cap
reopened(cap, l) == [cap EXCEPT ![l].len = CAP_UNFINISHED]

RECURSIVE match(_, _, _, _, _, _)
start_capture(S, P, cap, s, p, what, d) ==
  LET res == match(S, P, Append(cap, [init |-> s, len |-> what]), s, p, d)
  IN IF Len(cap) >= LUA_MAXCAPTURES THEN R(Failed, cap)
     ELSE IF res.s = 0 THEN R(0, Front(res.cap)) ELSE res
end_capture(S, P, cap, s, p, d) ==
  LET l == capture_to_close(cap)
      res == match(S, P, [cap EXCEPT ![l].len = s - cap[l].init], s, p, d)
  IN IF l = 0 THEN R(Failed, cap) ELSE IF res.s = 0 THEN R(0, reopened(res.cap, l)) ELSE res

\* The rest of the pattern after i repetitions, then after fewer.
RECURSIVE fewer(_, _, _, _, _, _, _)
fewer(S, P, cap, s, i, ep, d) ==
  LET res == match(S, P, cap, s + i, ep + 1, d)
  IN IF i < 0 THEN R(0, cap) ELSE IF res.s # 0 THEN res ELSE fewer(S, P, res.cap, s, i - 1, ep, d)
max_expand(S, P, cap, s, p, ep, d) ==
  LET i == Max({n \in 0..(Len(S) + 1 - s) : \A k \in 0..(n - 1) : singlematch(S, s + k, P, p, ep)})
  IN fewer(S, P, cap, s, i, ep, d)
RECURSIVE min_expand(_, _, _, _, _, _, _)
min_expand(S, P, cap, s, p, ep, d) ==
  LET res == match(S, P, cap, s, ep + 1, d)
  IN IF res.s # 0 THEN res
     ELSE IF singlematch(S, s, P, p, ep) THEN min_expand(S, P, res.cap, s + 1, p, ep, d)
     ELSE R(0, res.cap)

\* The body of match; going on with it ("goto init") is not a nested call.
RECURSIVE init(_, _, _, _, _, _)
dflt(S, P, cap, s, p, d) ==
  LET ep == classend(P, p)
      suffix == at(P, ep)
      one == singlematch(S, s, P, p, ep)
      optional == match(S, P, cap, s + 1, ep + 1, d)
  IN IF ep = 0 THEN R(Failed, cap)
     ELSE IF ~ one THEN IF suffix \in {"*", "?", "-"} THEN init(S, P, cap, s, ep + 1, d) ELSE R(0, cap)
     ELSE CASE suffix = "?" -> IF optional.s # 0 THEN optional ELSE init(S, P, optional.cap, s, ep + 1, d)
            [] suffix = "+" -> max_expand(S, P, cap, s + 1, p, ep, d)
            [] suffix = "*" -> max_expand(S, P, cap, s, p, ep, d)
            [] suffix = "-" -> min_expand(S, P, cap, s, p, ep, d)
            [] OTHER -> init(S, P, cap, s + 1, ep, d)
matchbalance(S, P, cap, s, p, d) ==
  LET e == balanced(S, s + 1, P[p], P[p + 1], 1)
  IN IF p >= Len(P) THEN R(Failed, cap)
     ELSE IF at(S, s) # P[p] \/ e = 0 THEN R(0, cap)
     ELSE init(S, P, cap, e, p + 2, d)
frontier(S, P, cap, s, p, d) ==
  LET ep == classend(P, p)
      in(i) == matchbracketclass(at(S, i), P, p, ep - 1)
  IN IF at(P, p) # "[" THEN R(Failed, cap)
     ELSE IF ep = 0 THEN R(Failed, cap)
     ELSE IF ~ in(s - 1) /\ in(s) THEN init(S, P, cap, s, ep, d) ELSE R(0, cap)
init(S, P, cap, s, p, d) ==
  LET next == at(P, p + 1)
      l == check_capture(cap, digit(next))
      e == match_capture(S, cap, s, l)
  IN CASE p = Len(P) + 1 -> R(s, cap)
       [] at(P, p) = "(" /\ next = ")" -> start_capture(S, P, cap, s, p + 2, CAP_POSITION, d)
       [] at(P, p) = "(" /\ next # ")" -> start_capture(S, P, cap, s, p + 1, CAP_UNFINISHED, d)
       [] at(P, p) = ")" -> end_capture(S, P, cap, s, p + 1, d)
       [] at(P, p) = "$" /\ p = Len(P) -> R(IF s = Len(S) + 1 THEN s ELSE 0, cap)
       [] at(P, p) = "%" /\ next = "b" -> matchbalance(S, P, cap, s, p + 2, d)
       [] at(P, p) = "%" /\ next = "f" -> frontier(S, P, cap, s, p + 2, d)
       [] at(P, p) = "%" /\ digit(next) >= 0 ->
            IF l = 0 THEN R(Failed, cap) ELSE IF e = 0 THEN R(0, cap) ELSE init(S, P, cap, e, p + 2, d)
       [] OTHER -> dflt(S, P, cap, s, p, d)
match(S, P, cap, s, p, d) ==
  IF d = 0 THEN R(Failed, cap) ELSE init(S, P, cap, s, p, d - 1)

-----------------------------------------------------------------------------
(* find, match, gmatch and gsub. A function gives the list of its results,   *)
(* or an error.                                                              *)

Error == <<"error">>
push_onecapture(S, cap, i, s, e) ==
  IF i \notin DOMAIN cap THEN IF i = 1 THEN SubSeq(S, s, e - 1) ELSE Error
  ELSE CASE cap[i].len = CAP_UNFINISHED -> Error
         [] cap[i].len = CAP_POSITION -> <<"position", cap[i].init>>
         [] OTHER -> SubSeq(S, cap[i].init, cap[i].init + cap[i].len - 1)
push_captures(S, cap, s, e) ==
  LET nlevels == IF cap = <<>> /\ s # 0 THEN 1 ELSE Len(cap)
      pushed == <<>> \o [i \in 1..nlevels |-> push_onecapture(S, cap, i, s, e)]
  IN IF \E i \in 1..nlevels : pushed[i] = Error THEN Error ELSE pushed

nospecials(P) ==
  \A i \in DOMAIN P : P[i] \notin {"^", "$", "*", "+", "?", ".", "(", "[", "%", "-"}
\* The first occurrence of P from position i on, 0 when there is none.
lmemfind(S, P, i) ==
  LET found == {n \in i..(Len(S) + 1 - Len(P)) : SubSeq(S, n, n + Len(P) - 1) = P}
  IN IF found = {} THEN 0 ELSE Min(found)

anchored(P) == at(P, 1) = "^"
body(P) == IF anchored(P) THEN Tail(P) ELSE P
RECURSIVE tries(_, _, _, _)
tries(S, P, find, s1) ==
  LET res == match(S, body(P), <<>>, s1, 1, MAXCCALLS)
      caps == push_captures(S, res.cap, IF find THEN 0 ELSE s1, res.s)
  IN IF res.s = Failed THEN Error
     ELSE IF res.s # 0
     THEN IF caps = Error THEN Error ELSE (IF find THEN <<s1, res.s - 1>> ELSE <<>>) \o caps
     ELSE IF s1 <= Len(S) /\ ~ anchored(P) THEN tries(S, P, find, s1 + 1) ELSE <<"nil">>
str_find_aux(S, P, init0, find, plain) ==
  LET from == AtLeast1(posrelat(init0, Len(S)))
      n == lmemfind(S, P, from)
  IN IF from > Len(S) + 1 THEN <<"nil">>
     ELSE IF find /\ (plain \/ nospecials(P)) THEN IF n # 0 THEN <<n, n + Len(P) - 1>> ELSE <<"nil">>
     ELSE tries(S, P, find, from)

\* What the iterator delivers from src on; an empty match where the last match ended
\* is skipped.
sameplace(e, lastmatch) == e = lastmatch
RECURSIVE gmatch_aux(_, _, _, _)
gmatch_aux(S, P, src, lastmatch) ==
  LET res == match(S, P, <<>>, src, 1, MAXCCALLS)
      caps == push_captures(S, res.cap, src, res.s)
  IN IF src > Len(S) + 1 THEN <<>>
     ELSE IF res.s = Failed \/ (res.s # 0 /\ caps = Error) THEN <<Error>>
     ELSE IF res.s # 0 /\ ~ sameplace(res.s, lastmatch)
     THEN <<caps>> \o gmatch_aux(S, P, res.s, res.s)
     ELSE gmatch_aux(S, P, src + 1, lastmatch)
gmatch(S, P) == gmatch_aux(S, P, 1, 0)

\* The text that replaces the match from s to e: news is a string with %n, or a
\* function of the captures, which gives <<"nil">> to keep the text.
RECURSIVE add_s(_, _, _, _, _, _)
add_s(S, cap, news, i, s, e) ==
  LET c == at(news, i + 1)
      text == IF c = "0" THEN SubSeq(S, s, e - 1) ELSE push_onecapture(S, cap, digit(c), s, e)
      added(t, j) ==
        LET rest == add_s(S, cap, news, j, s, e) IN IF rest = Error THEN Error ELSE t \o rest
  IN IF i > Len(news) THEN <<>>
     ELSE IF news[i] # "%" THEN added(<<news[i]>>, i + 1)
     ELSE IF digit(c) < 0 THEN IF c = "%" THEN added(<<c>>, i + 2) ELSE Error
     ELSE IF text = Error THEN Error ELSE added(text, i + 2)
add_value(S, cap, news, tr, s, e) ==
  LET args == IF tr = "table" THEN push_onecapture(S, cap, 1, s, e) ELSE push_captures(S, cap, s, e)
      v == Repl(IF tr = "table" THEN args ELSE args[1])
  IN IF tr = "string" THEN add_s(S, cap, news, 1, s, e)
     ELSE IF args = Error THEN Error
     ELSE IF v = <<"nil">> THEN SubSeq(S, s, e - 1) ELSE v

RECURSIVE substitutes(_, _, _, _, _, _, _, _, _)
substitutes(S, P, news, tr, max_s, src, lastmatch, b, n) ==
  LET res == match(S, body(P), <<>>, src, 1, MAXCCALLS)
      new == add_value(S, res.cap, news, tr, src, res.s)
      done(at1, b1, n1) == <<b1 \o SubSeq(S, at1, Len(S)), n1>>
      go(at1, last, b1, n1) ==
        IF anchored(P) THEN done(at1, b1, n1)
        ELSE substitutes(S, P, news, tr, max_s, at1, last, b1, n1)
  IN IF n >= max_s THEN done(src, b, n)
     ELSE IF res.s = Failed THEN Error
     ELSE IF res.s # 0 /\ ~ sameplace(res.s, lastmatch)
     THEN IF new = Error THEN Error ELSE go(res.s, res.s, b \o new, n + 1)
     ELSE IF src <= Len(S) THEN go(src + 1, lastmatch, Append(b, S[src]), n)
     ELSE done(src, b, n)
str_gsub(S, P, news, tr, max_s) == substitutes(S, P, news, tr, max_s, 1, 0, <<>>, 0)
=============================================================================
