------------------------------- MODULE LuaPack -------------------------------
(* string.pack and string.unpack (lstrlib.c), with bytes of NB bits, and the *)
(* integers of Lua and the sizes of strings in SZINT bytes. A format is a    *)
(* sequence of characters; a decimal digit is a character of its own.        *)
EXTENDS Integers, Sequences, SequencesExt, FiniteSets, FiniteSetsExt

CONSTANTS
  NB,            \* bits of a byte
  SZINT,         \* bytes of an integer, and of a size
  MAXINTSIZE,    \* bytes of the longest integer that is packed
  MAXALIGN,      \* default of the greatest alignment
  MAXSIZE,       \* greatest size of a string
  Error          \* an error, instead of a result

Byte == 2 ^ NB
LUA_MAXUNSIGNED == 2 ^ (NB * SZINT) - 1
Unsigned(n) == n % (LUA_MAXUNSIGNED + 1)
Signed(u) == IF u > LUA_MAXUNSIGNED \div 2 THEN u - LUA_MAXUNSIGNED - 1 ELSE u
PADBYTE == 0

digit(c) == CASE c = "0" -> 0 [] c = "1" -> 1 [] c = "2" -> 2 [] c = "3" -> 3 [] c = "4" -> 4
              [] c = "5" -> 5 [] OTHER -> -1
charat(fmt, i) == IF i \in DOMAIN fmt THEN fmt[i] ELSE "end"

-----------------------------------------------------------------------------
(* Reading a format. The header h is [islittle, maxalign]; an option is      *)
(* [opt, size, at], with the position behind it.                             *)

header == [islittle |-> TRUE, maxalign |-> 1]
RECURSIVE numeral(_, _, _)
numeral(fmt, i, n) ==
  IF digit(charat(fmt, i)) >= 0 /\ n <= (MAXSIZE - 9) \div 10
  THEN numeral(fmt, i + 1, 10 * n + digit(fmt[i])) ELSE <<n, i>>
getnum(fmt, i, df) ==
  IF digit(charat(fmt, i)) < 0 THEN <<df, i>> ELSE numeral(fmt, i + 1, digit(fmt[i]))

Option(opt, size, i) == [opt |-> opt, size |-> size, at |-> i]
Invalid == Option("invalid", 0, 0)
Integral(opt, fmt, i, df) ==
  LET n == getnum(fmt, i, df) IN IF n[1] \in 1..MAXINTSIZE THEN Option(opt, n[1], n[2]) ELSE Invalid
getoption(fmt, i) ==
  LET c == fmt[i]
      n == getnum(fmt, i + 1, -1)
  IN CASE c = "b" -> Option("Kint", 1, i + 1) [] c = "B" -> Option("Kuint", 1, i + 1)
       [] c = "j" -> Option("Kint", SZINT, i + 1) [] c = "J" -> Option("Kuint", SZINT, i + 1)
       [] c = "n" -> Option("Kfloat", 2, i + 1)
       [] c = "i" -> Integral("Kint", fmt, i + 1, 1) [] c = "I" -> Integral("Kuint", fmt, i + 1, 1)
       [] c = "s" -> Integral("Kstring", fmt, i + 1, SZINT)
       [] c = "c" -> IF n[1] = -1 THEN Invalid ELSE Option("Kchar", n[1], n[2])
       [] c = "z" -> Option("Kzstr", 0, i + 1)
       [] c = "x" -> Option("Kpadding", 1, i + 1) [] c = "X" -> Option("Kpaddalign", 0, i + 1)
       [] c \in {" ", "<", ">", "="} -> Option("Knop", 0, i + 1)
       [] c = "!" -> LET m == Integral("Knop", fmt, i + 1, MAXALIGN) IN [m EXCEPT !.size = 0]
       [] OTHER -> Invalid
configured(h, fmt, i) ==
  CASE fmt[i] \in {"<", "="} -> [h EXCEPT !.islittle = TRUE] [] fmt[i] = ">" -> [h EXCEPT !.islittle = FALSE]
    [] fmt[i] = "!" -> [h EXCEPT !.maxalign = getnum(fmt, i + 1, MAXALIGN)[1]]
    [] OTHER -> h

PowerOf2(n) == n \in {2 ^ e : e \in 0..n}
limited_Not(align, h) == align
limited(align, h) == IF align > h.maxalign THEN h.maxalign ELSE align
\* The option at i, with its padding, and the header behind it. "X" has the alignment of
\* the option behind it.
getdetails(h, totalsize, fmt, i) ==
  LET o == getoption(fmt, i)
      follows == charat(fmt, o.at) # "end"
      x == getoption(fmt, o.at)
      h1 == configured(h, fmt, i)
      h2 == IF o.opt = "Kpaddalign" /\ follows THEN configured(h1, fmt, o.at) ELSE h1
      size == IF o.opt = "Kpaddalign" THEN x.size ELSE o.size
      align == limited(size, h2)
      ntoalign == IF size <= 1 \/ o.opt = "Kchar" THEN 0 ELSE (-totalsize) % align
  IN IF \/ o = Invalid
        \/ o.opt = "Kpaddalign" /\ (~ follows \/ x.opt = "Kchar" \/ x.size = 0)
        \/ size > 1 /\ o.opt # "Kchar" /\ ~ PowerOf2(align)
     THEN <<Invalid, 0, h>>
     ELSE <<IF o.opt = "Kpaddalign" THEN [o EXCEPT !.at = x.at] ELSE o, ntoalign, h2>>

-----------------------------------------------------------------------------
(* Packing *)

ordered(bytes, islittle) == IF islittle THEN bytes ELSE Reverse(bytes)
packint(n, islittle, size, neg) ==
  ordered(<<>> \o [k \in 1..size |-> IF k > SZINT THEN IF neg THEN Byte - 1 ELSE 0
                                     ELSE (Unsigned(n) \div Byte ^ (k - 1)) % Byte], islittle)
Pads(n) == <<>> \o [k \in 1..n |-> PADBYTE]

\* What one option makes of its argument.
packed(o, h, v) ==
  LET lim == Byte ^ o.size \div 2
  IN CASE o.opt = "Kint" ->
            IF o.size < SZINT /\ ~ (-lim <= v /\ v < lim) THEN Error ELSE packint(v, h.islittle, o.size, v < 0)
       [] o.opt = "Kuint" ->
            IF o.size < SZINT /\ ~ Unsigned(v) < Byte ^ o.size THEN Error
            ELSE packint(v, h.islittle, o.size, FALSE)
       [] o.opt = "Kfloat" -> ordered(v, h.islittle)
       [] o.opt = "Kchar" -> IF Len(v) > o.size THEN Error ELSE v \o Pads(o.size - Len(v))
       [] o.opt = "Kstring" ->
            IF ~ (o.size >= SZINT \/ Len(v) < Byte ^ o.size) THEN Error
            ELSE packint(Len(v), h.islittle, o.size, FALSE) \o v
       [] o.opt = "Kzstr" -> IF 0 \in ToSet(v) THEN Error ELSE Append(v, 0)
       [] o.opt = "Kpadding" -> <<PADBYTE>>
       [] OTHER -> <<>>
HasValue(o) == o.opt \in {"Kint", "Kuint", "Kfloat", "Kchar", "Kstring", "Kzstr"}

RECURSIVE packs(_, _, _, _, _)
packs(h, fmt, i, args, b) ==
  LET d == getdetails(h, Len(b), fmt, i)
      o == d[1]
      new == packed(o, d[3], IF HasValue(o) THEN Head(args) ELSE 0)
  IN IF i > Len(fmt) THEN b
     ELSE IF o = Invalid \/ (HasValue(o) /\ args = <<>>) THEN Error
     ELSE IF new = Error THEN Error
     ELSE packs(d[3], fmt, o.at, IF HasValue(o) THEN Tail(args) ELSE args, b \o Pads(d[2]) \o new)
str_pack(fmt, args) == packs(header, fmt, 1, args, <<>>)

RECURSIVE packsizes(_, _, _, _)
packsizes(h, fmt, i, total) ==
  LET d == getdetails(h, total, fmt, i)
      size == d[1].size + d[2]
  IN IF i > Len(fmt) THEN <<total>>
     ELSE IF d[1] = Invalid \/ d[1].opt \in {"Kstring", "Kzstr"} \/ total > MAXSIZE - size THEN Error
     ELSE packsizes(d[3], fmt, d[1].at, total + size)
str_packsize(fmt) == packsizes(header, fmt, 1, 0)

-----------------------------------------------------------------------------
(* Unpacking *)

Extended_Not(res, size) == res
Extended(res, size) == LET mask == Byte ^ size \div 2 IN IF res >= mask THEN res - 2 * mask ELSE res
\* The integer, or nothing when its further bytes do not follow from its sign.
unpackint(bytes0, islittle, issigned) ==
  LET size == Len(bytes0)
      bytes == ordered(bytes0, islittle)
      limit == IF size <= SZINT THEN size ELSE SZINT
      res == FoldLeft(LAMBDA r, k : r + bytes[k] * Byte ^ (k - 1), 0, [k \in 1..limit |-> k])
      mask == IF ~ issigned \/ Signed(res) >= 0 THEN 0 ELSE Byte - 1
  IN IF size < SZINT THEN {IF issigned THEN Extended(res, size) ELSE res}
     ELSE IF \E k \in (SZINT + 1)..size : bytes[k] # mask THEN {}
     ELSE {Signed(res)}

\* What one option takes from position p on (the first is 0): the value and the bytes
\* behind the option's own size that belong to it. A string longer than MAXSIZE cannot be
\* made; a zero ends the data.
taken(data, o, h, p) ==
  LET own == SubSeq(data, p + 1, p + o.size)
      n == unpackint(own, h.islittle, o.opt = "Kint")
      len == Unsigned(CHOOSE k \in n : TRUE)
      zeros == {k \in 0..(Len(data) - p - 1) : data[p + k + 1] = 0}
      strlen == IF zeros = {} THEN Len(data) - p ELSE Min(zeros)
  IN CASE o.opt \in {"Kint", "Kuint"} -> IF n = {} THEN Error ELSE <<CHOOSE k \in n : TRUE, 0>>
       [] o.opt = "Kfloat" -> <<ordered(own, h.islittle), 0>>
       [] o.opt = "Kchar" -> <<own, 0>>
       [] o.opt = "Kstring" ->
            IF n = {} \/ Unsigned(p + len + o.size) > Len(data) \/ len > MAXSIZE THEN Error
            ELSE <<SubSeq(data, p + o.size + 1, p + o.size + len), len>>
       [] o.opt = "Kzstr" -> <<SubSeq(data, p + 1, p + strlen), strlen + 1>>
       [] OTHER -> <<0, 0>>

RECURSIVE unpacks(_, _, _, _, _, _)
unpacks(h, fmt, i, data, pos, values) ==
  LET d == getdetails(h, pos, fmt, i)
      o == d[1]
      new == taken(data, o, d[3], pos + d[2])
  IN IF i > Len(fmt) THEN <<values, pos + 1>>
     ELSE IF o = Invalid \/ pos + d[2] + o.size > Len(data) THEN Error
     ELSE IF new = Error THEN Error
     ELSE unpacks(d[3], fmt, o.at, data, pos + d[2] + o.size + new[2],
                  IF HasValue(o) THEN Append(values, new[1]) ELSE values)
str_unpack(fmt, data) == unpacks(header, fmt, 1, data, 0, <<>>)

-----------------------------------------------------------------------------
(* The meaning of a format of the manual, given as a list of items           *)

\* A byte of an integer of any length, in two's complement.
ByteOf(n, k) == (n \div Byte ^ k) % Byte
Bytes(n, size, little) ==
  LET list == [k \in 1..size |-> ByteOf(n, k - 1)] IN <<>> \o (IF little THEN list ELSE Reverse(list))
Fits(item, n) ==
  LET top == Byte ^ item.size
  IN item.size >= SZINT \/ (IF item.kind = "int" THEN -(top \div 2) <= n /\ n < top \div 2 ELSE 0 <= n /\ n < top)
\* A number that is unsigned in the string.
Natural(item, n) == IF item.kind = "uint" THEN Unsigned(n) ELSE n

ItemBytes(item, v, little) ==
  CASE item.kind \in {"int", "uint"} -> Bytes(Natural(item, v), item.size, little)
    [] item.kind = "float" -> IF little THEN v ELSE Reverse(v)
    [] item.kind = "char" -> v \o Pads(item.size - Len(v))
    [] item.kind = "string" -> Bytes(Len(v), item.size, little) \o v
    [] item.kind = "zstr" -> v \o <<0>>
Acceptable(item, v) ==
  CASE item.kind \in {"int", "uint"} -> Fits(item, v)
    [] item.kind = "char" -> Len(v) <= item.size
    [] item.kind = "string" -> Len(v) < Byte ^ item.size
    [] item.kind = "zstr" -> 0 \notin ToSet(v)
    [] item.kind = "float" -> TRUE
ItemAlign(item, max) ==
  IF item.kind = "char" \/ item.size = 0 THEN 1 ELSE IF item.size > max THEN max ELSE item.size
Aligned(b, n) == b \o Pads(Min({k \in 0..n : (Len(b) + k) % n = 0}))
\* What a string gives back for v.
Back(item, v) == IF item.kind = "char" THEN v \o Pads(item.size - Len(v)) ELSE v

RECURSIVE Meant(_, _, _, _, _)
Meant(items, vs, max, little, b) ==
  IF items = <<>> THEN b
  ELSE Meant(Tail(items), Tail(vs), max, little,
             Aligned(b, ItemAlign(Head(items), max)) \o ItemBytes(Head(items), Head(vs), little))

\* Values that a format can take are packed as it says, come back, and have the size that
\* was announced; other values are refused. start is the padding before them.
Packs(items, vs, max, little, start, fmt) ==
  LET r == str_pack(fmt, vs)
      legal == \A k \in DOMAIN items : Acceptable(items[k], vs[k]) /\ PowerOf2(ItemAlign(items[k], max))
  IN IF ~ legal THEN r = Error
     ELSE /\ r = Meant(items, vs, max, little, start)
          /\ str_unpack(fmt, r) = <<[k \in DOMAIN vs |-> Back(items[k], vs[k])], Len(r) + 1>>
          /\ (\A k \in DOMAIN items : items[k].kind \notin {"string", "zstr"}) => str_packsize(fmt) = <<Len(r)>>

\* Whatever the data are, what was taken from them is what packing its values gives.
Unpacks(fmt, data) ==
  LET r == str_unpack(fmt, data)
  IN r # Error => /\ r[2] <= Len(data) + 1
                  /\ str_pack(fmt, r[1]) = SubSeq(data, 1, r[2] - 1)
=============================================================================
