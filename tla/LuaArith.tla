------------------------------ MODULE LuaArith ------------------------------
(* Numbers: integers that wrap around, floats of few digits, the comparisons *)
(* between them, division and shifts (lvm.c, lobject.c), numeric loops, and  *)
(* what lmathlib.c and lbitlib.c compute. A number is an integer, a float,   *)
(* given by twice its value, or NaN.                                         *)
EXTENDS Integers, Sequences, FiniteSets, Bitwise

CONSTANTS
  IntBits,   \* bits of an integer
  NBM,       \* bits of the mantissa of a float
  NBITS      \* bits that the bit library considers (LUA_NBITS)

Int_(n) == <<"int", n>>
Flt(h) == <<"flt", h>>
NaN == <<"nan", 0>>
Inf == 8 * 2 ^ IntBits
isint(x) == x[1] = "int"
isnan(x) == x = NaN
Error(x) == <<"error", x>>

LUA_MAXINTEGER == 2 ^ (IntBits - 1) - 1
LUA_MININTEGER == -(2 ^ (IntBits - 1))
Unsigned(n) == n % 2 ^ IntBits
Wrap(n) == IF Unsigned(n) > LUA_MAXINTEGER THEN Unsigned(n) - 2 ^ IntBits ELSE Unsigned(n)
Abs(n) == IF n < 0 THEN -n ELSE n
Sign(n) == IF n < 0 THEN -1 ELSE 1
\* C division truncates.
quot(m, n) == Sign(m) * Sign(n) * (Abs(m) \div Abs(n))
rem(m, n) == m - n * quot(m, n)

\* The float nearest to h, a tie going to the even mantissa.
cast_num(i) ==
  LET a == Abs(2 * i)
      e == CHOOSE k \in 0..(IntBits + 1) : a < 2 ^ (NBM + k) /\ (k = 0 \/ a >= 2 ^ (NBM + k - 1))
      low == a \div 2 ^ e
      twice == 2 * (a % 2 ^ e)
      up == twice > 2 ^ e \/ (twice = 2 ^ e /\ low % 2 = 1)
  IN Sign(i) * (IF up THEN low + 1 ELSE low) * 2 ^ e
asfloat(x) == IF isint(x) THEN Flt(cast_num(x[2])) ELSE x
floatlt(x, y) == ~ isnan(x) /\ ~ isnan(y) /\ x[2] < y[2]
floatle(x, y) == ~ isnan(x) /\ ~ isnan(y) /\ x[2] <= y[2]

-----------------------------------------------------------------------------
(* Conversions and comparisons *)

\* lua_numbertointeger, for a float with an integral value: the integer, or nothing.
fits(h) == h >= 2 * LUA_MININTEGER /\ h < -2 * LUA_MININTEGER
\* mode 0 takes integral values only, 1 the floor, 2 the ceiling.
luaV_tointeger(x, mode) ==
  LET f == x[2] - (x[2] % 2)
      g == IF f # x[2] /\ mode = 2 THEN f + 2 ELSE f
  IN IF isint(x) THEN {x[2]}
     ELSE IF isnan(x) \/ Abs(x[2]) = Inf \/ (f # x[2] /\ mode = 0) \/ ~ fits(g) THEN {}
     ELSE {g \div 2}

l_intfitsf(i) == Abs(i) <= 2 ^ NBM
LTintfloat_Rounded(i, f) == floatlt(Flt(cast_num(i)), f)
LTintfloat(i, f) ==
  IF l_intfitsf(i) THEN floatlt(Flt(cast_num(i)), f)
  ELSE IF isnan(f) THEN FALSE
  ELSE IF f[2] >= -2 * LUA_MININTEGER THEN TRUE
  ELSE f[2] > 2 * LUA_MININTEGER /\ i < quot(f[2], 2)
LEintfloat(i, f) ==
  IF l_intfitsf(i) THEN floatle(Flt(cast_num(i)), f)
  ELSE IF isnan(f) THEN FALSE
  ELSE IF f[2] >= -2 * LUA_MININTEGER THEN TRUE
  ELSE f[2] >= 2 * LUA_MININTEGER /\ i <= quot(f[2], 2)
LTnum(l, r) ==
  CASE isint(l) /\ isint(r) -> l[2] < r[2]
    [] isint(l) /\ ~ isint(r) -> LTintfloat(l[2], r)
    [] ~ isint(l) /\ ~ isint(r) -> floatlt(l, r)
    [] ~ isint(l) /\ isint(r) -> ~ isnan(l) /\ ~ LEintfloat(r[2], l)
LEnum(l, r) ==
  CASE isint(l) /\ isint(r) -> l[2] <= r[2]
    [] isint(l) /\ ~ isint(r) -> LEintfloat(l[2], r)
    [] ~ isint(l) /\ ~ isint(r) -> floatle(l, r)
    [] ~ isint(l) /\ isint(r) -> ~ isnan(l) /\ ~ LTintfloat(r[2], l)
luaV_equalobj(x, y) ==
  IF x[1] = y[1] THEN x = y /\ ~ isnan(x)
  ELSE luaV_tointeger(x, 0) # {} /\ luaV_tointeger(x, 0) = luaV_tointeger(y, 0)

-----------------------------------------------------------------------------
(* Integer arithmetic *)

luaV_div(m, n) ==
  CASE n = 0 -> Error("zero") [] n = -1 -> Int_(Wrap(-m))
    [] OTHER -> Int_(quot(m, n) - (IF Sign(m) # Sign(n) /\ rem(m, n) # 0 THEN 1 ELSE 0))
luaV_mod(m, n) ==
  CASE n = 0 -> Error("zero") [] n = -1 -> Int_(0)
    [] OTHER -> Int_(rem(m, n) + (IF rem(m, n) # 0 /\ Sign(m) # Sign(n) THEN n ELSE 0))
luaV_shiftl(x, y) ==
  CASE Abs(y) >= IntBits -> 0
    [] y < 0 /\ y > -IntBits -> Wrap(Unsigned(x) \div 2 ^ (-y))
    [] OTHER -> Wrap(x * 2 ^ y)

\* Numbers that are integers go to the integer operation, whatever their representation
\* when it is bitwise.
intarith(op, a, b) ==
  CASE op = "+" -> Int_(Wrap(a + b)) [] op = "-" -> Int_(Wrap(a - b)) [] op = "*" -> Int_(Wrap(a * b))
    [] op = "%" -> luaV_mod(a, b) [] op = "//" -> luaV_div(a, b)
    [] op = "&" -> Int_(Wrap(Unsigned(a) & Unsigned(b)))
    [] op = "|" -> Int_(Wrap(Unsigned(a) | Unsigned(b)))
    [] op = "~" -> Int_(Wrap(Unsigned(a) ^^ Unsigned(b)))
    [] op = "<<" -> Int_(luaV_shiftl(a, b)) [] op = ">>" -> Int_(luaV_shiftl(a, Wrap(-b)))
Bitwises == {"&", "|", "~", "<<", ">>"}
luaO_arith(op, x, y) ==
  IF op \in Bitwises
  THEN IF luaV_tointeger(x, 0) = {} \/ luaV_tointeger(y, 0) = {} THEN Error("integer")
       ELSE intarith(op, CHOOSE i \in luaV_tointeger(x, 0) : TRUE, CHOOSE i \in luaV_tointeger(y, 0) : TRUE)
  ELSE IF isint(x) /\ isint(y) THEN intarith(op, x[2], y[2])
  ELSE <<"float", asfloat(x), asfloat(y)>>

-----------------------------------------------------------------------------
(* The numeric loop with integer control variable *)

\* The limit as an integer, and whether the loop is not to run at all.
forlimit(limit, step) ==
  LET i == luaV_tointeger(limit, IF step < 0 THEN 2 ELSE 1)
      large == floatlt(Flt(0), limit)
  IN IF i # {} THEN [limit |-> CHOOSE n \in i : TRUE, stopnow |-> FALSE]
     ELSE IF large THEN [limit |-> LUA_MAXINTEGER, stopnow |-> step < 0]
     ELSE [limit |-> LUA_MININTEGER, stopnow |-> step >= 0]
OP_FORPREP(init, limit, step) ==
  Wrap((IF forlimit(limit, step).stopnow THEN 0 ELSE init) - step)
\* The values of the control variable, n at most.
RECURSIVE OP_FORLOOP(_, _, _, _)
OP_FORLOOP(ra, limit, step, n) ==
  LET idx == Wrap(ra + step)
      again == IF 0 < step THEN idx <= limit ELSE limit <= idx
  IN IF n = 0 \/ ~ again THEN <<>> ELSE <<idx>> \o OP_FORLOOP(idx, limit, step, n - 1)
Loop(init, limit, step, n) ==
  OP_FORLOOP(OP_FORPREP(init, limit, step), forlimit(limit, step).limit, step, n)

-----------------------------------------------------------------------------
(* lmathlib.c *)

\* f is twice an integer: an integer when it fits.
pushnumint(f) == IF Abs(f) # Inf /\ fits(f) THEN Int_(f \div 2) ELSE Flt(f)
floor(h) == IF Abs(h) = Inf THEN h ELSE h - (h % 2)
math_abs(x) == IF isint(x) THEN Int_(IF x[2] < 0 THEN Wrap(-x[2]) ELSE x[2]) ELSE Flt(Abs(x[2]))
math_toint(x) == luaV_tointeger(x, 0)
math_floor(x) == IF isint(x) THEN x ELSE pushnumint(floor(x[2]))
math_ceil(x) == IF isint(x) THEN x ELSE pushnumint(-floor(-x[2]))
math_modf(x) ==
  LET ip == IF x[2] < 0 THEN -floor(-x[2]) ELSE floor(x[2])
  IN IF isint(x) THEN <<x, Flt(0)>>
     ELSE <<pushnumint(ip), Flt(IF x[2] = ip THEN 0 ELSE x[2] - ip)>>
\* Of integers.
math_fmod(m, n) ==
  CASE n = 0 -> Error("zero") [] n = -1 -> Int_(0) [] OTHER -> Int_(rem(m, n))
math_ult(m, n) == Unsigned(m) < Unsigned(n)
math_max(x, y) == IF LTnum(x, y) THEN y ELSE x
math_min(x, y) == IF LTnum(y, x) THEN y ELSE x

-----------------------------------------------------------------------------
(* lbitlib.c, on unsigned integers *)

ALLONES == 2 ^ NBITS - 1
trim(r) == r & ALLONES
complement(r) == 2 ^ IntBits - 1 - r
left(r, i) == Unsigned(r * 2 ^ i)
right(r, i) == r \div 2 ^ i
mask(n) == complement(left(left(ALLONES, 1), n - 1))
b_and(r, s) == trim(r & s)
b_or(r, s) == trim(r | s)
b_xor(r, s) == trim(r ^^ s)
b_not(r) == trim(complement(r))
b_shift(r, i) ==
  CASE i < 0 -> IF -i >= NBITS THEN 0 ELSE right(trim(r), -i)
    [] i >= 0 -> IF i >= NBITS THEN 0 ELSE trim(left(r, i))
b_arshift(r, i) ==
  IF i < 0 \/ (r & 2 ^ (NBITS - 1)) = 0 THEN b_shift(r, -i)
  ELSE IF i >= NBITS THEN ALLONES
  ELSE trim(right(r, i) | complement(right(trim(2 ^ IntBits - 1), i)))
b_rot(r, d) ==
  LET i == Unsigned(d) & (NBITS - 1)
      s == trim(r)
  IN trim(IF i # 0 THEN left(s, i) | right(s, NBITS - i) ELSE s)
fieldargs(f, w) == 0 <= f /\ 0 < w /\ f + w <= NBITS
b_extract(r, f, w) == right(trim(r), f) & mask(w)
b_replace(r, v, f, w) ==
  (trim(r) & complement(left(mask(w), f))) | left(trim(v) & mask(w), f)

-----------------------------------------------------------------------------
(* What the operations are meant to be, on the numbers themselves *)

Twice(x) == IF isint(x) THEN 2 * x[2] ELSE x[2]
Ordered(x, y) == ~ isnan(x) /\ ~ isnan(y)
\* An integer and a float compare as the numbers that they are, though the integer may
\* have no float.
ComparesExactly(x, y) ==
  /\ LTnum(x, y) <=> Ordered(x, y) /\ Twice(x) < Twice(y)
  /\ LEnum(x, y) <=> Ordered(x, y) /\ Twice(x) <= Twice(y)
  /\ luaV_equalobj(x, y) <=> Ordered(x, y) /\ Twice(x) = Twice(y)
  /\ Ordered(x, y) => /\ Twice(math_max(x, y)) = (IF Twice(x) < Twice(y) THEN Twice(y) ELSE Twice(x))
                      /\ Twice(math_min(x, y)) = (IF Twice(x) < Twice(y) THEN Twice(x) ELSE Twice(y))

Floor(m, n) == IF n > 0 THEN m \div n ELSE (-m) \div (-n)
\* Division rounds down, also at the least integer, and the remainder has the sign of
\* the divisor.
Divides(m, n) ==
  IF n = 0 THEN luaV_div(m, n) = Error("zero") /\ luaV_mod(m, n) = Error("zero")
  ELSE /\ luaV_div(m, n) = Int_(Wrap(Floor(m, n)))
       /\ luaV_mod(m, n) = Int_(m - n * Floor(m, n))
       /\ math_fmod(m, n) = Int_(rem(m, n))
Bit(r, b) == (r \div 2 ^ b) % 2
Shifts(m, n) ==
  /\ \A b \in 0..(IntBits - 1) :
       Bit(Unsigned(luaV_shiftl(m, n)), b) = (IF b - n \in 0..(IntBits - 1) THEN Bit(Unsigned(m), b - n) ELSE 0)
  /\ m # LUA_MININTEGER => math_abs(Int_(m)) = Int_(Abs(m))
  /\ math_ult(m, n) <=> (IF (m < 0) = (n < 0) THEN m < n ELSE n < 0)
Rounds(x) ==
  LET whole(y, h) == Twice(y) = h
      h == x[2]
  IN ~ isint(x) /\ ~ isnan(x) /\ Abs(h) # Inf =>
       /\ whole(math_floor(x), 2 * (h \div 2)) /\ whole(math_ceil(x), -2 * ((-h) \div 2))
       /\ isint(math_floor(x)) <=> (h \div 2 \in LUA_MININTEGER..LUA_MAXINTEGER)
       /\ Twice(math_modf(x)[1]) + math_modf(x)[2][2] = h /\ Abs(math_modf(x)[2][2]) < 2
       /\ math_toint(x) = (IF h % 2 = 0 /\ h \div 2 \in LUA_MININTEGER..LUA_MAXINTEGER
                           THEN {h \div 2} ELSE {})

\* The bitwise operations take any number that is an integer, the others keep integers.
Whole(x) == ~ isnan(x) /\ Twice(x) % 2 = 0 /\ Twice(x) \div 2 \in LUA_MININTEGER..LUA_MAXINTEGER
Coerces(x, y) ==
  /\ \A op \in Bitwises : luaO_arith(op, x, y) =
       IF Whole(x) /\ Whole(y) THEN intarith(op, Twice(x) \div 2, Twice(y) \div 2) ELSE Error("integer")
  /\ \A op \in {"+", "-", "*"} : luaO_arith(op, x, y)[1] = IF isint(x) /\ isint(y) THEN "int" ELSE "float"

\* A loop goes through the values that var = var + step gives until var passes the limit,
\* a float if need be.
RECURSIVE Steps(_, _, _, _)
Steps(var, limit, step, n) ==
  LET passed == IF step >= 0 THEN 2 * var > Twice(limit) ELSE 2 * var < Twice(limit)
  IN IF n = 0 \/ passed THEN <<>> ELSE <<var>> \o Steps(Wrap(var + step), limit, step, n - 1)
Loops(limit, step) ==
  step # 0 /\ ~ isnan(limit) =>
    \A init \in {LUA_MININTEGER, LUA_MININTEGER + 1, -3, 0, 2, LUA_MAXINTEGER - 1, LUA_MAXINTEGER} :
      Loop(init, limit, step, 12) = Steps(init, limit, step, 12)

\* The bit operations, bit by bit, on the bits that they consider.
BitsOf(r) == {b \in 0..(NBITS - 1) : Bit(r, b) = 1}
High == NBITS - 1
BitOperations(m, n) ==
  LET r == Unsigned(m)
      s == Unsigned(n)
      All == 0..High
  IN /\ BitsOf(b_and(r, s)) = BitsOf(r) \cap BitsOf(s) /\ BitsOf(b_or(r, s)) = BitsOf(r) \cup BitsOf(s)
     /\ BitsOf(b_not(r)) = All \ BitsOf(r)
     /\ BitsOf(b_xor(r, s)) = (BitsOf(r) \cup BitsOf(s)) \ (BitsOf(r) \cap BitsOf(s))
     /\ n # LUA_MININTEGER =>
          /\ BitsOf(b_shift(r, n)) = {b \in All : b - n \in BitsOf(r)}
          /\ BitsOf(b_arshift(r, n)) = {b \in All : IF n >= 0 /\ b + n > High THEN High \in BitsOf(r) ELSE b + n \in BitsOf(r)}
     /\ BitsOf(b_rot(r, n)) = {b \in All : (b - n) % NBITS \in BitsOf(r)}
     /\ \A f, w \in 0..NBITS : fieldargs(f, w) =>
          /\ BitsOf(b_extract(r, f, w)) = {b \in 0..(w - 1) : b + f \in BitsOf(r)}
          /\ BitsOf(b_replace(r, s, f, w)) =
               {b \in All : IF b \in f..(f + w - 1) THEN b - f \in BitsOf(s) ELSE b \in BitsOf(r)}
     /\ \A x \in {b_and(r, s), b_or(r, s), b_not(r), b_xor(r, s), b_shift(r, n), b_rot(r, n)} : x <= ALLONES
=============================================================================
