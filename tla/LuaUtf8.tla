------------------------------- MODULE LuaUtf8 -------------------------------
(* UTF-8: encoding (lobject.c), decoding, and the library that counts and    *)
(* finds characters in strings of bytes (lutf8lib.c). Positions count from   *)
(* 1, as in the program; a string ends with a zero byte that is not of it.   *)
EXTENDS Integers, Sequences, FiniteSets, SequencesExt

MAXUNICODE == 1114111
Invalid == -1
byte(s, i) == IF i \in DOMAIN s THEN s[i] ELSE 0
iscont(b) == b \in 128..191

\* The bytes of x, the last ones first, until the rest fits into the first byte.
RECURSIVE continuations(_, _, _)
continuations(x, mfb, bytes) ==
  LET more == <<128 + (x % 64)>> \o bytes
      rest == x \div 64
      left == mfb \div 2
  IN IF rest > left THEN continuations(rest, left, more)
     ELSE <<(((255 - left) * 2) % 256) + rest>> \o more
luaO_utf8esc(x) == IF x < 128 THEN <<x>> ELSE continuations(x, 63, <<>>)

\* The code at position i and the position behind it.
limits == <<255, 127, 2047, 65535>>
atleast_Any(res, count) == TRUE
atleast(res, count) == res > limits[count + 1]
utf8_decode(s, i) ==
  LET c == byte(s, i)
      ones == Cardinality({k \in 0..7 : \A j \in k..7 : (c \div 2 ^ j) % 2 = 1})
      count == IF ones = 0 THEN 0 ELSE ones - 1
      cont == [k \in 1..count |-> byte(s, i + k) % 64]
      first == (c % 2 ^ (7 - count)) * 64 ^ count
      res == first + FoldLeft(LAMBDA r, b : r * 64 + b, 0, cont)
  IN IF c < 128 THEN <<c, i + 1>>
     ELSE IF \E k \in 1..count : ~ iscont(byte(s, i + k)) THEN <<Invalid, i>>
     ELSE IF count > 3 THEN <<Invalid, i>>
     ELSE IF res > MAXUNICODE \/ ~ atleast(res, count) THEN <<Invalid, i>>
     ELSE <<res, i + 1 + count>>

u_posrelat(pos, len) == IF pos >= 0 THEN pos ELSE IF -pos > len THEN 0 ELSE len + pos + 1

\* Codes that start at i or behind, not behind j; the last one is Invalid with its position
\* when the bytes are.
RECURSIVE decodes(_, _, _)
decodes(s, i, j) ==
  LET d == utf8_decode(s, i)
  IN IF i > j THEN <<>> ELSE IF d[1] = Invalid THEN <<d>> ELSE <<d>> \o decodes(s, d[2], j)
utflen(s, i, j) ==
  LET posi == u_posrelat(i, Len(s))
      posj == u_posrelat(j, Len(s))
      ds == decodes(s, posi, posj)
  IN IF ~ (1 <= posi /\ posi <= Len(s) + 1 /\ posj <= Len(s)) THEN <<"error">>
     ELSE IF ds # <<>> /\ Last(ds)[1] = Invalid THEN <<"nil", Last(ds)[2]>>
     ELSE <<"int", Len(ds)>>
codepoint(s, i, j) ==
  LET posi == u_posrelat(i, Len(s))
      pose == u_posrelat(j, Len(s))
      ds == decodes(s, posi, pose)
  IN IF ~ (posi >= 1 /\ pose <= Len(s)) THEN <<"error">>
     ELSE IF ds # <<>> /\ Last(ds)[1] = Invalid THEN <<"error">>
     ELSE <<"codes", <<>> \o [k \in DOMAIN ds |-> ds[k][1]]>>
utfchar(codes) ==
  IF \E k \in DOMAIN codes : codes[k] \notin 0..MAXUNICODE THEN <<"error">>
  ELSE FlattenSeq([k \in DOMAIN codes |-> luaO_utf8esc(codes[k])])

\* The start of the character before position p, or after it.
RECURSIVE backward(_, _)
backward(s, p) == IF p > 2 /\ iscont(byte(s, p - 1)) THEN backward(s, p - 1) ELSE p - 1
RECURSIVE forward(_, _)
forward(s, p) == IF iscont(byte(s, p + 1)) THEN forward(s, p + 1) ELSE p + 1
\* n characters on, as far as there are any: the position and the characters that miss.
RECURSIVE moved(_, _, _)
moved(s, p, n) ==
  CASE n < 0 /\ p > 1 -> moved(s, backward(s, p), n + 1)
    [] n > 0 /\ p <= Len(s) -> moved(s, forward(s, p), n - 1)
    [] OTHER -> <<p, n>>
byteoffset(s, n, i) ==
  LET p == u_posrelat(i, Len(s))
      r == moved(s, p, IF n > 0 THEN n - 1 ELSE n)
  IN IF ~ (1 <= p /\ p <= Len(s) + 1) THEN <<"error">>
     ELSE IF n = 0 THEN <<"int", IF p > 1 /\ iscont(byte(s, p)) THEN backward(s, p) ELSE p>>
     ELSE IF iscont(byte(s, p)) THEN <<"error">>
     ELSE IF r[2] = 0 THEN <<"int", r[1]>> ELSE <<"nil">>

\* One step of the iterator of codes, from position n, 0 at its start.
iter_aux(s, n) ==
  LET p == IF n = 0 THEN 1 ELSE IF n <= Len(s) THEN forward(s, n) ELSE n
      d == utf8_decode(s, p)
  IN IF p > Len(s) THEN <<"end">>
     ELSE IF d[1] = Invalid THEN <<"error">>
     ELSE IF iscont(byte(s, d[2])) THEN <<"error">> ELSE <<"code", p, d[1]>>
RECURSIVE iterated(_, _)
iterated(s, n) ==
  LET r == iter_aux(s, n)
  IN IF r[1] = "code" THEN <<<<r[2], r[3]>>>> \o iterated(s, r[2]) ELSE <<>>

-----------------------------------------------------------------------------
\* The encoding of the standard: the bits of x in the shortest of four forms.
Encoding(x) ==
  LET tail(k) == 128 + ((x \div 64 ^ k) % 64)
  IN CASE x < 128 -> <<x>>
       [] x \in 128..2047 -> <<192 + x \div 64, tail(0)>>
       [] x \in 2048..65535 -> <<224 + x \div 4096, tail(1), tail(0)>>
       [] x \in 65536..MAXUNICODE -> <<240 + x \div 262144, tail(2), tail(1), tail(0)>>

\* Any bytes: what is decoded is the shortest encoding of the code.
Decodes(s) ==
  LET d == utf8_decode(s, 1)
  IN d[1] # Invalid => d[1] \in 0..MAXUNICODE /\ SubSeq(s \o <<0>>, 1, d[2] - 1) = Encoding(d[1])

\* A string of characters: encoded, counted, found from both ends, and decoded again.
Characters(codes) ==
  LET s == utfchar(codes)
      start(k) == 1 + Len(FlattenSeq([i \in 1..(k - 1) |-> Encoding(codes[i])]))
      n == Len(codes)
  IN /\ s = FlattenSeq([k \in 1..n |-> Encoding(codes[k])])
     /\ utflen(s, 1, -1) = <<"int", n>>
     /\ codepoint(s, 1, -1) = <<"codes", codes>>
     /\ iterated(s, 0) = [k \in 1..n |-> <<start(k), codes[k]>>]
     /\ \A k \in 1..n : /\ utflen(s, start(k), start(k)) = <<"int", 1>>
                        /\ \A p \in start(k)..(start(k + 1) - 1) : byteoffset(s, 0, p) = <<"int", start(k)>>
                        /\ byteoffset(s, k - n - 1, Len(s) + 1) = <<"int", start(k)>>
                        /\ \A m \in 1..(n + 1 - k) : byteoffset(s, m, start(k)) = <<"int", start(k + m - 1)>>
     /\ byteoffset(s, n + 1, 1) = <<"int", Len(s) + 1>> /\ byteoffset(s, n + 2, 1) = <<"nil">>
=============================================================================
