-------------------------- MODULE LuaString_proofs --------------------------
(* Short strings: the inductive invariant of the string table, its chains,   *)
(* the cache and the colors, for any contents, hashes and number of strings. *)
EXTENDS LuaString, FiniteSetTheorems, SequenceTheorems, TLAPS

-----------------------------------------------------------------------------
(* Numbers and recursion                                                     *)

\* Induction.
LEMMA AllNumbers ==
  ASSUME NEW S, 0 \in S, \A n \in Nat : n \in S => n + 1 \in S
  PROVE  Nat \subseteq S
<1> DEFINE R == Nat \ S
<1> SUFFICES ASSUME R # {} PROVE FALSE
  OBVIOUS
<1>1. PICK x \in R : \A y \in R : ~ (<<y, x>> \in OpToRel(<, Nat))
  BY NatLessThanWellFounded, WFMin
<1>2. \A y \in R : ~ (y < x)
  BY <1>1 DEF OpToRel
<1>3. x \in Nat \ {0} /\ x \notin S
  OBVIOUS
<1>4. x - 1 \in Nat /\ x - 1 < x /\ (x - 1) + 1 = x
  BY <1>3
<1>5. x - 1 \in S
  BY <1>2, <1>4
<1>6. QED
  BY <1>3, <1>4, <1>5

LEMMA UpTo ==
  ASSUME NEW n \in Nat, NEW P, 0 \in P, \A k \in 1 .. n : k - 1 \in P => k \in P
  PROVE  \A k \in 0 .. n : k \in P
<1> DEFINE S == {k \in Nat : k <= n => k \in P}
<1>1. 0 \in S
  OBVIOUS
<1>2. ASSUME NEW m \in Nat, m \in S PROVE m + 1 \in S
  <2>1. CASE m + 1 <= n
    <3>1. m <= n /\ m + 1 \in 1 .. n /\ (m + 1) - 1 = m
      BY <2>1
    <3>2. QED
      BY <1>2, <3>1
  <2>2. CASE ~ (m + 1 <= n)
    BY <2>2
  <2>3. QED
    BY <2>1, <2>2
<1> HIDE DEF S
<1>3. Nat \subseteq S
  BY <1>1, <1>2, AllNumbers
<1>4. QED
  BY <1>3 DEF S

\* A least number.
LEMMA Least ==
  ASSUME NEW R \in SUBSET Nat, R # {}
  PROVE  Min(R) \in R /\ \A i \in R : Min(R) <= i
<1>1. PICK x \in R : \A y \in R : ~ (<<y, x>> \in OpToRel(<, Nat))
  BY NatLessThanWellFounded, WFMin
<1>2. \A y \in R : ~ (y < x)
  BY <1>1 DEF OpToRel
<1>3. \A y \in R : x <= y
  <2>1. \A y \in R : y \in Int
    OBVIOUS
  <2>2. QED
    BY <1>2, <2>1
<1>4. QED
  BY <1>3 DEF Min

\* f has what n steps make of b; St[k] is the k-th step.
Iterates(n, b, St, f) == f = [k \in 0 .. n |-> IF k = 0 THEN b ELSE St[k][f[k - 1]]]

LEMMA IterationExists ==
  ASSUME NEW n \in Nat, NEW b, NEW St
  PROVE  \E f : Iterates(n, b, St, f)
<1> DEFINE S == {m \in Nat : \E f : Iterates(m, b, St, f)}
<1>1. 0 \in S
  <2>1. PICK f : f = [k \in 0 .. 0 |-> b]
    OBVIOUS
  <2>2. \A k \in 0 .. 0 : k = 0
    OBVIOUS
  <2>3. Iterates(0, b, St, f)
    BY <2>1, <2>2 DEF Iterates
  <2>4. QED
    BY <2>3
<1>2. ASSUME NEW m \in Nat, m \in S PROVE m + 1 \in S
  <2>1. PICK f : Iterates(m, b, St, f)
    BY <1>2
  <2>2. PICK h : h = [k \in 0 .. m + 1 |-> IF k = m + 1 THEN St[m + 1][f[m]] ELSE f[k]]
    OBVIOUS
  <2>3. ASSUME NEW k \in 0 .. m + 1
        PROVE  h[k] = IF k = 0 THEN b ELSE St[k][h[k - 1]]
    <3>1. CASE k = m + 1
      <4>1. m \in 0 .. m + 1 /\ m # m + 1 /\ k - 1 = m /\ k # 0
        BY <3>1
      <4>2. h[m] = f[m] /\ h[k] = St[k][f[m]]
        BY <2>2, <3>1, <4>1
      <4>3. QED
        BY <4>1, <4>2
    <3>2. CASE k # m + 1
      <4>1. k \in 0 .. m
        BY <3>2
      <4>2. h[k] = f[k] /\ f[k] = IF k = 0 THEN b ELSE St[k][f[k - 1]]
        BY <2>1, <2>2, <3>2, <4>1 DEF Iterates
      <4>3. CASE k # 0
        <5>1. k - 1 \in 0 .. m + 1 /\ k - 1 # m + 1
          BY <4>1, <4>3
        <5>2. h[k - 1] = f[k - 1]
          BY <2>2, <5>1
        <5>3. QED
          BY <4>2, <5>2
      <4>4. QED
        BY <4>2, <4>3
    <3>3. QED
      BY <3>1, <3>2
  <2>4. h = [k \in 0 .. m + 1 |-> h[k]]
    BY <2>2
  <2>5. Iterates(m + 1, b, St, h)
    BY <2>3, <2>4 DEF Iterates
  <2>6. QED
    BY <2>5
<1> HIDE DEF S
<1>3. Nat \subseteq S
  BY <1>1, <1>2, AllNumbers
<1>4. QED
  BY <1>3 DEF S

-----------------------------------------------------------------------------
(* Sequences without repetitions                                             *)

\* s has the elements of X, each once.
Lists(s, X, S) == s \in Seq(S) /\ IsInjective(s) /\ ToSet(s) = X

LEMMA Joined ==
  ASSUME NEW S, NEW a \in Seq(S), NEW b \in Seq(S)
  PROVE  /\ a \o b \in Seq(S) /\ Len(a \o b) = Len(a) + Len(b)
         /\ \A i \in 1 .. Len(a) : (a \o b)[i] = a[i]
         /\ \A i \in 1 .. Len(b) : (a \o b)[Len(a) + i] = b[i]
OBVIOUS

LEMMA ListsNothing ==
  ASSUME NEW S
  PROVE  Lists(<<>>, {}, S)
BY DEF Lists, IsInjective, ToSet

LEMMA ListsBoth ==
  ASSUME NEW S, NEW a, NEW b, NEW X, NEW Y, Lists(a, X, S), Lists(b, Y, S), X \cap Y = {}
  PROVE  Lists(a \o b, X \cup Y, S)
<1>1. PICK t, m, n : t = a \o b /\ m = Len(a) /\ n = Len(b)
  OBVIOUS
<1>2. a \in Seq(S) /\ b \in Seq(S) /\ m \in Nat /\ n \in Nat /\ DOMAIN a = 1 .. m /\ DOMAIN b = 1 .. n
  BY <1>1 DEF Lists
<1>3. /\ t \in Seq(S) /\ Len(t) = m + n
      /\ \A i \in 1 .. m : t[i] = a[i]
      /\ \A i \in 1 .. n : t[m + i] = b[i]
  <2>1. /\ a \o b \in Seq(S) /\ Len(a \o b) = Len(a) + Len(b)
        /\ \A i \in 1 .. Len(a) : (a \o b)[i] = a[i]
        /\ \A i \in 1 .. Len(b) : (a \o b)[Len(a) + i] = b[i]
    BY <1>2, Joined
  <2>2. QED
    BY <1>1, <2>1, Zenon
<1>4. DOMAIN t = 1 .. m + n
  BY <1>3
<1>5. ASSUME NEW i \in 1 .. m + n
      PROVE  i \in 1 .. m \/ \E j \in 1 .. n : i = m + j
  <2>1. CASE ~ (i <= m)
    <3>1. i - m \in 1 .. n /\ i = m + (i - m)
      BY <1>2, <2>1
    <3>2. QED
      BY <3>1
  <2>2. QED
    BY <1>2, <2>1
<1>6. \A i \in 1 .. m : a[i] \in X
  BY <1>2 DEF Lists, ToSet
<1>7. \A i \in 1 .. n : b[i] \in Y
  BY <1>2 DEF Lists, ToSet
<1>8. ASSUME NEW i \in 1 .. m + n, NEW j \in 1 .. m + n, t[i] = t[j] PROVE i = j
  <2>1. CASE i \in 1 .. m /\ j \in 1 .. m
    BY <1>2, <1>3, <1>8, <2>1 DEF Lists, IsInjective
  <2>2. CASE \E k, l \in 1 .. n : i = m + k /\ j = m + l
    <3>1. PICK k, l \in 1 .. n : i = m + k /\ j = m + l
      BY <2>2
    <3>2. b[k] = b[l]
      BY <1>3, <1>8, <3>1
    <3>3. k = l
      BY <1>2, <3>2 DEF Lists, IsInjective
    <3>4. QED
      BY <3>1, <3>3
  <2>3. ASSUME NEW x \in 1 .. m, NEW k \in 1 .. n, t[x] = t[m + k] PROVE FALSE
    BY <1>3, <1>6, <1>7, <2>3
  <2>4. QED
    BY <1>5, <1>8, <2>1, <2>2, <2>3
<1>9. ToSet(t) = X \cup Y
  <2>1. \A i \in 1 .. m + n : t[i] \in X \cup Y
    <3>1. ASSUME NEW i \in 1 .. m + n PROVE t[i] \in X \cup Y
      <4>1. CASE i \in 1 .. m
        BY <1>3, <1>6, <4>1
      <4>2. CASE \E j \in 1 .. n : i = m + j
        BY <1>3, <1>7, <4>2
      <4>3. QED
        BY <1>5, <4>1, <4>2
    <3>2. QED
      BY <3>1
  <2>2. \A x \in X : \E i \in 1 .. m + n : t[i] = x
    <3>1. ASSUME NEW x \in X PROVE \E i \in 1 .. m + n : t[i] = x
      <4>1. PICK i \in 1 .. m : a[i] = x
        BY <1>2 DEF Lists, ToSet
      <4>2. i \in 1 .. m + n
        BY <1>2
      <4>3. QED
        BY <1>3, <4>1, <4>2
    <3>2. QED
      BY <3>1
  <2>3. \A x \in Y : \E i \in 1 .. m + n : t[i] = x
    <3>1. ASSUME NEW x \in Y PROVE \E i \in 1 .. m + n : t[i] = x
      <4>1. PICK i \in 1 .. n : b[i] = x
        BY <1>2 DEF Lists, ToSet
      <4>2. m + i \in 1 .. m + n
        BY <1>2
      <4>3. QED
        BY <1>3, <4>1, <4>2
    <3>2. QED
      BY <3>1
  <2>4. QED
    BY <1>4, <2>1, <2>2, <2>3 DEF ToSet
<1>10. IsInjective(t)
  BY <1>4, <1>8 DEF IsInjective
<1>11. Lists(t, X \cup Y, S)
  BY <1>3, <1>9, <1>10 DEF Lists
<1>12. QED
  BY <1>1, <1>11, Zenon

LEMMA ListsOneMore ==
  ASSUME NEW S, NEW s, NEW X, Lists(s, X, S), NEW x \in S, x \notin X
  PROVE  Lists(<<x>> \o s, X \cup {x}, S)
<1>1. Lists(<<x>>, {x}, S)
  BY DEF Lists, IsInjective, ToSet
<1>2. {x} \cap X = {}
  OBVIOUS
<1>3. Lists(<<x>> \o s, {x} \cup X, S)
  BY <1>1, <1>2, ListsBoth
<1>4. {x} \cup X = X \cup {x}
  OBVIOUS
<1>5. QED
  BY <1>3, <1>4

\* The first place of I, 0 if there is none.
FirstOf(I) == IF I # {} THEN Min(I) ELSE 0

LEMMA FirstIs ==
  ASSUME NEW n \in Nat, NEW I \in SUBSET (1 .. n)
  PROVE  \/ I = {} /\ FirstOf(I) = 0
         \/ FirstOf(I) \in I /\ FirstOf(I) \in 1 .. n /\ FirstOf(I) # 0
<1>1. CASE I = {}
  BY <1>1 DEF FirstOf
<1>2. CASE I # {}
  <2>1. I \in SUBSET Nat
    OBVIOUS
  <2>2. Min(I) \in I
    BY <1>2, <2>1, Least
  <2>3. FirstOf(I) = Min(I)
    BY <1>2 DEF FirstOf
  <2>4. FirstOf(I) \in I /\ FirstOf(I) \in 1 .. n
    BY <2>2, <2>3
  <2>5. \A i \in 1 .. n : i # 0
    OBVIOUS
  <2>6. QED
    BY <2>4, <2>5
<1>3. QED
  BY <1>1, <1>2

LEMMA ListsOneLess ==
  ASSUME NEW S, NEW s, NEW X, Lists(s, X, S), NEW x
  PROVE  Lists(RemoveFirst(s, x), X \ {x}, S)
<1>1. PICK n, I, at : n = Len(s) /\ I = {i \in 1 .. Len(s) : s[i] = x} /\ at = FirstOf(I)
  OBVIOUS
<1>2. s \in Seq(S) /\ n \in Nat /\ DOMAIN s = 1 .. n /\ I \in SUBSET (1 .. n)
  BY <1>1 DEF Lists
<1>3. \A i, j \in 1 .. n : s[i] = s[j] => i = j
  BY <1>2 DEF Lists, IsInjective
<1>4. X = {s[i] : i \in 1 .. n}
  BY <1>2 DEF Lists, ToSet
<1>5. CASE I = {}
  <2>1. RemoveFirst(s, x) = s
    BY <1>1, <1>5 DEF RemoveFirst
  <2>2. X \ {x} = X
    BY <1>1, <1>4, <1>5
  <2>3. QED
    BY <2>1, <2>2
<1>6. CASE I # {}
  <2>1. at \in 1 .. n /\ s[at] = x
    <3>1. at \in I
      BY <1>1, <1>2, <1>6, FirstIs
    <3>2. QED
      BY <1>1, <3>1
  <2>2. SelectInSeq(s, LAMBDA v : v = x) = at
    BY <1>1 DEF SelectInSeq, FirstOf
  <2>3. RemoveFirst(s, x) = RemoveAt(s, at)
    BY <1>1, <1>6, <2>2 DEF RemoveFirst
  <2>4. PICK a, c : a = SubSeq(s, 1, at - 1) /\ c = SubSeq(s, at + 1, n)
    OBVIOUS
  <2>5. /\ a \in Seq(S) /\ DOMAIN a = 1 .. at - 1
        /\ \A i \in 1 .. at - 1 : a[i] = s[i]
    BY <1>2, <2>1, <2>4
  <2>6. /\ c \in Seq(S) /\ DOMAIN c = 1 .. n - at
        /\ \A i \in 1 .. n - at : c[i] = s[at + i]
    BY <1>2, <2>1, <2>4
  <2>7. PICK Y, Z : Y = {s[i] : i \in 1 .. at - 1} /\ Z = {s[at + i] : i \in 1 .. n - at}
    OBVIOUS
  <2>8. Lists(a, Y, S)
    <3>1. \A i \in 1 .. at - 1 : i \in 1 .. n
      BY <1>2, <2>1
    <3>2. IsInjective(a)
      BY <1>3, <2>5, <3>1 DEF IsInjective
    <3>3. ToSet(a) = Y
      BY <2>5, <2>7 DEF ToSet
    <3>4. QED
      BY <2>5, <3>2, <3>3 DEF Lists
  <2>9. Lists(c, Z, S)
    <3>1. \A i \in 1 .. n - at : at + i \in 1 .. n
      BY <1>2, <2>1
    <3>2. ASSUME NEW i \in 1 .. n - at, NEW j \in 1 .. n - at, c[i] = c[j] PROVE i = j
      <4>1. s[at + i] = s[at + j]
        BY <2>6, <3>2
      <4>2. at + i = at + j
        BY <1>3, <3>1, <4>1
      <4>3. QED
        BY <1>2, <2>1, <4>2
    <3>3. IsInjective(c)
      BY <2>6, <3>2 DEF IsInjective
    <3>4. ToSet(c) = Z
      BY <2>6, <2>7 DEF ToSet
    <3>5. QED
      BY <2>6, <3>3, <3>4 DEF Lists
  <2>10. Y \cap Z = {}
    <3>1. ASSUME NEW i \in 1 .. at - 1, NEW j \in 1 .. n - at PROVE s[i] # s[at + j]
      <4>1. i \in 1 .. n /\ at + j \in 1 .. n /\ i # at + j
        BY <1>2, <2>1
      <4>2. QED
        BY <1>3, <4>1
    <3>2. QED
      BY <2>7, <3>1
  <2>11. Y \cup Z = X \ {x}
    <3>1. ASSUME NEW i \in 1 .. n, i # at PROVE s[i] \in Y \cup Z
      <4>1. CASE i < at
        <5>1. i \in 1 .. at - 1
          BY <1>2, <2>1, <4>1
        <5>2. QED
          BY <2>7, <5>1
      <4>2. CASE ~ (i < at)
        <5>1. i - at \in 1 .. n - at /\ at + (i - at) = i
          BY <1>2, <2>1, <3>1, <4>2
        <5>2. QED
          BY <2>7, <5>1
      <4>3. QED
        BY <4>1, <4>2
    <3>2. \A i \in 1 .. at - 1 : i \in 1 .. n /\ i # at
      BY <1>2, <2>1
    <3>3. \A i \in 1 .. n - at : at + i \in 1 .. n /\ at + i # at
      BY <1>2, <2>1
    <3>4. \A v \in Y \cup Z : \E i \in 1 .. n : i # at /\ v = s[i]
      BY <2>7, <3>2, <3>3
    <3>5. \A v \in Y \cup Z : v \in X \ {x}
      BY <1>3, <1>4, <2>1, <3>4
    <3>6. \A v \in X \ {x} : v \in Y \cup Z
      BY <1>4, <2>1, <3>1
    <3>7. QED
      BY <3>5, <3>6
  <2>12. Lists(a \o c, Y \cup Z, S)
    BY <2>8, <2>9, <2>10, ListsBoth
  <2>13. RemoveAt(s, at) = a \o c
    BY <1>1, <2>4 DEF RemoveAt
  <2>14. QED
    BY <2>3, <2>11, <2>12, <2>13, Zenon
<1>7. QED
  BY <1>5, <1>6

\* The elements of the first k sets of X.
FirstOnes(X, k) == {x \in UNION {X[j] : j \in DOMAIN X} : \E j \in 1 .. k : x \in X[j]}
Flattens(h, f) == f = [i \in 1 .. Len(h) |-> IF i = 1 THEN h[i] ELSE f[i - 1] \o h[i]]

LEMMA FlattenExists ==
  ASSUME NEW S, NEW h \in Seq(Seq(S)), Len(h) # 0
  PROVE  \E f : Flattens(h, f)
<1>1. PICK n : n = Len(h)
  OBVIOUS
<1>2. n \in Nat \ {0} /\ n - 1 \in Nat
  BY <1>1
<1>3. \A i \in 1 .. n : h[i] \in Seq(S)
  BY <1>1
<1>4. PICK St : St = [k \in 1 .. n - 1 |-> [d \in Seq(S) |-> d \o h[k + 1]]]
  OBVIOUS
<1>5. PICK e : Iterates(n - 1, h[1], St, e)
  BY <1>2, IterationExists
<1>6. ASSUME NEW k \in 0 .. n - 1 PROVE e[k] = IF k = 0 THEN h[1] ELSE St[k][e[k - 1]]
  BY <1>5 DEF Iterates
<1>7. \A k \in 0 .. n - 1 : e[k] \in Seq(S)
  <2> DEFINE P == {k \in 0 .. n - 1 : e[k] \in Seq(S)}
  <2>1. 0 \in P
    <3>1. 0 \in 0 .. n - 1 /\ 1 \in 1 .. n
      BY <1>2
    <3>2. QED
      BY <1>3, <1>6, <3>1
  <2>2. ASSUME NEW k \in 1 .. n - 1, k - 1 \in P PROVE k \in P
    <3>1. k \in 0 .. n - 1 /\ k # 0 /\ k + 1 \in 1 .. n
      BY <1>2
    <3>2. e[k] = e[k - 1] \o h[k + 1]
      BY <1>4, <1>6, <2>2, <3>1
    <3>3. e[k - 1] \in Seq(S) /\ h[k + 1] \in Seq(S)
      BY <1>3, <2>2, <3>1
    <3>4. e[k] \in Seq(S)
      BY <3>2, <3>3
    <3>5. QED
      BY <3>1, <3>4
  <2> HIDE DEF P
  <2>3. \A k \in 0 .. n - 1 : k \in P
    BY <1>2, <2>1, <2>2, UpTo
  <2>4. QED
    BY <2>3 DEF P
<1>8. PICK f : f = [i \in 1 .. n |-> e[i - 1]]
  OBVIOUS
<1>9. ASSUME NEW i \in 1 .. n PROVE f[i] = IF i = 1 THEN h[i] ELSE f[i - 1] \o h[i]
  <2>1. i - 1 \in 0 .. n - 1
    BY <1>2
  <2>2. f[i] = e[i - 1]
    BY <1>8
  <2>3. CASE i = 1
    BY <1>6, <2>1, <2>2, <2>3
  <2>4. CASE i # 1
    <3>1. i - 1 \in 1 .. n - 1 /\ i - 1 \in 1 .. n /\ (i - 1) - 1 \in 0 .. n - 1 /\ (i - 1) + 1 = i
      BY <1>2, <2>4
    <3>2. f[i - 1] = e[(i - 1) - 1]
      BY <1>8, <3>1
    <3>3. e[i - 1] = St[i - 1][e[(i - 1) - 1]]
      BY <1>6, <2>1, <3>1
    <3>4. St[i - 1][e[(i - 1) - 1]] = e[(i - 1) - 1] \o h[(i - 1) + 1]
      BY <1>4, <1>7, <3>1
    <3>5. QED
      BY <2>2, <2>4, <3>1, <3>2, <3>3, <3>4
  <2>5. QED
    BY <2>3, <2>4
<1>10. f = [i \in 1 .. n |-> f[i]]
  BY <1>8
<1>11. f = [i \in 1 .. n |-> IF i = 1 THEN h[i] ELSE f[i - 1] \o h[i]]
  BY <1>9, <1>10, Zenon
<1>12. QED
  BY <1>1, <1>11, Zenon DEF Flattens

LEMMA FlattenLists ==
  ASSUME NEW S, NEW h \in Seq(Seq(S)), Len(h) # 0, NEW X, DOMAIN X = 1 .. Len(h),
         \A i \in 1 .. Len(h) : Lists(h[i], X[i], S),
         \A i, j \in 1 .. Len(h) : i # j => X[i] \cap X[j] = {}
  PROVE  Lists(FlattenSeq(h), UNION {X[i] : i \in 1 .. Len(h)}, S)
<1>1. PICK n, f : n = Len(h) /\ f = CHOOSE e : Flattens(h, e)
  OBVIOUS
<1>2. n \in Nat \ {0} /\ n - 1 \in Nat /\ n \in 1 .. n
  BY <1>1
<1>3. Flattens(h, f)
  BY <1>1, FlattenExists
<1>4. FlattenSeq(h) = f[n]
  BY <1>1 DEF FlattenSeq, Flattens
<1>5. ASSUME NEW i \in 1 .. n PROVE f[i] = IF i = 1 THEN h[i] ELSE f[i - 1] \o h[i]
  <2>1. \A k \in 1 .. n : f[k] = IF k = 1 THEN h[k] ELSE f[k - 1] \o h[k]
    BY <1>1, <1>3, Zenon DEF Flattens
  <2>2. QED
    BY <2>1
<1> DEFINE P == {k \in 0 .. n - 1 : Lists(f[k + 1], FirstOnes(X, k + 1), S)}
<1>6. 0 \in P
  <2>1. 0 \in 0 .. n - 1 /\ 1 \in 1 .. n /\ 0 + 1 = 1 /\ 1 .. 1 = {1}
    BY <1>2
  <2>2. f[1] = h[1]
    BY <1>5, <2>1
  <2>3. FirstOnes(X, 1) = X[1]
    BY <1>1, <2>1 DEF FirstOnes
  <2>4. Lists(f[0 + 1], FirstOnes(X, 0 + 1), S)
    BY <1>1, <2>1, <2>2, <2>3
  <2>5. QED
    BY <2>1, <2>4
<1>7. ASSUME NEW k \in 1 .. n - 1, k - 1 \in P PROVE k \in P
  <2>1. k \in 0 .. n - 1 /\ k \in 1 .. n /\ k + 1 \in 1 .. n /\ k + 1 # 1 /\ (k + 1) - 1 = k /\ (k - 1) + 1 = k
    BY <1>2
  <2>2. Lists(f[k], FirstOnes(X, k), S)
    <3>1. Lists(f[(k - 1) + 1], FirstOnes(X, (k - 1) + 1), S)
      BY <1>7
    <3>2. QED
      BY <2>1, <3>1
  <2>3. f[k + 1] = f[k] \o h[k + 1]
    BY <1>5, <2>1
  <2>4. Lists(h[k + 1], X[k + 1], S)
    BY <1>1, <2>1
  <2>5. FirstOnes(X, k) \cap X[k + 1] = {}
    <3>1. \A j \in 1 .. k : j \in 1 .. n /\ j # k + 1
      BY <1>2, <2>1
    <3>2. \A j \in 1 .. k : X[j] \cap X[k + 1] = {}
      BY <1>1, <2>1, <3>1
    <3>3. QED
      BY <3>2 DEF FirstOnes
  <2>6. FirstOnes(X, k + 1) = FirstOnes(X, k) \cup X[k + 1]
    <3>1. \A j : j \in 1 .. k + 1 <=> j \in 1 .. k \/ j = k + 1
      BY <2>1
    <3>2. QED
      BY <1>1, <2>1, <3>1 DEF FirstOnes
  <2>7. Lists(f[k] \o h[k + 1], FirstOnes(X, k) \cup X[k + 1], S)
    BY <2>2, <2>4, <2>5, ListsBoth
  <2>8. Lists(f[k + 1], FirstOnes(X, k + 1), S)
    BY <2>3, <2>6, <2>7, Zenon
  <2>9. QED
    BY <2>1, <2>8
<1> HIDE DEF P
<1>8. \A k \in 0 .. n - 1 : k \in P
  BY <1>2, <1>6, <1>7, UpTo
<1>9. Lists(f[n], FirstOnes(X, n), S)
  <2>1. n - 1 \in 0 .. n - 1 /\ (n - 1) + 1 = n
    BY <1>2
  <2>2. Lists(f[(n - 1) + 1], FirstOnes(X, (n - 1) + 1), S)
    BY <1>8, <2>1 DEF P
  <2>3. QED
    BY <2>1, <2>2
<1>10. FirstOnes(X, n) = UNION {X[i] : i \in 1 .. n}
  BY <1>1 DEF FirstOnes
<1>11. QED
  BY <1>1, <1>4, <1>9, <1>10, Zenon

-----------------------------------------------------------------------------
(* The inductive invariant                                                   *)

Contents == DOMAIN Hash
Colors == {"white", "dead", "black", "free"}
States == [hash : Seq(Seq(Objects)), content : [Objects -> Contents \cup {Nothing}], color : [Objects -> Colors],
           cache : [Rows -> [1 .. 2 -> Objects]], gcstate : {"propagate", "sweep"}, unswept : SUBSET Objects]
InUse(s) == {o \in Objects : s.color[o] # "free"}

\* Equal strings are one object, and what is free has no content.
Single(s) ==
  /\ \A o \in Objects : o \in InUse(s) <=> s.content[o] \in Contents
  /\ \A o, p \in InUse(s) : s.content[o] = s.content[p] => o = p
\* The n chains of h have the strings X, with contents C, each once and where its hash says.
At(C, o, n) == lmod(Hash[C[o]], n)
ChainOf(X, C, n, i) == {o \in X : At(C, o, n) = i}
Chains(h, n, X, C) ==
  /\ h \in [1 .. n -> Seq(Objects)]
  /\ \A i \in 1 .. n : Lists(h[i], ChainOf(X, C, n, i), Objects)
Chained(s) == Len(s.hash) # 0 /\ Chains(s.hash, Len(s.hash), InUse(s), s.content)
\* What the collector made of colors.
Hued(s) ==
  /\ s.color[msg] = "black" /\ msg \notin s.unswept /\ s.unswept \subseteq InUse(s)
  /\ s.gcstate = "propagate" => s.unswept = {} /\ \A o \in Objects : s.color[o] # "dead"
  /\ s.gcstate = "sweep" => \A o \in Objects \ {msg} : s.color[o] \in {"dead", "black"} => o \in s.unswept
Alive(s) == {o \in Objects : s.color[o] \in {"white", "black"}}
CacheKept(s) == \A r \in Rows : \A j \in 1 .. 2 : s.cache[r][j] \in Alive(s)

\* R are the strings that the program holds.
Good(s, R) ==
  /\ s \in States /\ Single(s) /\ Chained(s) /\ Hued(s) /\ CacheKept(s) /\ R \subseteq Alive(s)

StrInv == Good(g, held)

-----------------------------------------------------------------------------
(* Chains                                                                    *)

LEMMA AtIs ==
  ASSUME NEW C, NEW o, C[o] \in Contents, NEW n \in Nat \ {0}
  PROVE  At(C, o, n) \in 1 .. n
<1>1. PICK a : a = Hash[C[o]]
  OBVIOUS
<1>2. a \in Nat
  BY <1>1, StringAssumption DEF Contents
<1>3. a % n \in 0 .. n - 1
  BY <1>2
<1>4. 1 + (a % n) \in 1 .. n
  BY <1>3
<1>5. QED
  BY <1>1, <1>4 DEF At, lmod

LEMMA PositionIs ==
  ASSUME NEW s, NEW o, NEW n
  PROVE  position(s, o, n) = At(s.content, o, n)
BY DEF position, At

LEMMA ChainsSeq ==
  ASSUME NEW n \in Nat, NEW h, NEW X, NEW C, Chains(h, n, X, C)
  PROVE  h \in Seq(Seq(Objects)) /\ Len(h) = n
BY DEF Chains

LEMMA ChainMore ==
  ASSUME NEW n \in Nat \ {0}, NEW h, NEW X, NEW C, Chains(h, n, X, C), NEW o \in Objects, o \notin X,
         NEW p \in 1 .. n, p = At(C, o, n)
  PROVE  Chains([h EXCEPT ![p] = <<o>> \o @], n, X \cup {o}, C)
<1>1. PICK t : t = <<o>> \o h[p]
  OBVIOUS
<1>2. Lists(h[p], ChainOf(X, C, n, p), Objects)
  BY DEF Chains
<1>3. o \notin ChainOf(X, C, n, p)
  BY DEF ChainOf
<1>4. Lists(t, ChainOf(X, C, n, p) \cup {o}, Objects)
  BY <1>1, <1>2, <1>3, ListsOneMore
<1>5. PICK k : k = [h EXCEPT ![p] = t]
  OBVIOUS
<1>6. h \in [1 .. n -> Seq(Objects)] /\ t \in Seq(Objects)
  BY <1>4 DEF Chains, Lists
<1>7. ASSUME NEW i \in 1 .. n PROVE Lists(k[i], ChainOf(X \cup {o}, C, n, i), Objects)
  <2>1. CASE i = p
    <3>1. ChainOf(X \cup {o}, C, n, i) = ChainOf(X, C, n, p) \cup {o}
      BY <2>1 DEF ChainOf
    <3>2. k[i] = t
      BY <1>5, <1>6, <2>1
    <3>3. QED
      BY <1>4, <3>1, <3>2
  <2>2. CASE i # p
    <3>1. ChainOf(X \cup {o}, C, n, i) = ChainOf(X, C, n, i)
      BY <2>2 DEF ChainOf
    <3>2. k[i] = h[i]
      BY <1>5, <1>6, <2>2
    <3>3. Lists(h[i], ChainOf(X, C, n, i), Objects)
      BY DEF Chains
    <3>4. QED
      BY <3>1, <3>2, <3>3
  <2>3. QED
    BY <2>1, <2>2
<1>8. k \in [1 .. n -> Seq(Objects)]
  BY <1>5, <1>6
<1>9. Chains(k, n, X \cup {o}, C)
  BY <1>7, <1>8 DEF Chains
<1>10. QED
  BY <1>1, <1>5, <1>9

LEMMA ChainLess ==
  ASSUME NEW n \in Nat \ {0}, NEW h, NEW X, NEW C, Chains(h, n, X, C), NEW o,
         NEW p \in 1 .. n, p = At(C, o, n)
  PROVE  Chains([h EXCEPT ![p] = RemoveFirst(@, o)], n, X \ {o}, C)
<1>1. PICK t : t = RemoveFirst(h[p], o)
  OBVIOUS
<1>2. Lists(h[p], ChainOf(X, C, n, p), Objects)
  BY DEF Chains
<1>3. Lists(t, ChainOf(X, C, n, p) \ {o}, Objects)
  BY <1>1, <1>2, ListsOneLess
<1>4. PICK k : k = [h EXCEPT ![p] = t]
  OBVIOUS
<1>5. h \in [1 .. n -> Seq(Objects)] /\ t \in Seq(Objects)
  BY <1>3 DEF Chains, Lists
<1>6. ASSUME NEW i \in 1 .. n PROVE Lists(k[i], ChainOf(X \ {o}, C, n, i), Objects)
  <2>1. CASE i = p
    <3>1. ChainOf(X \ {o}, C, n, i) = ChainOf(X, C, n, p) \ {o}
      BY <2>1 DEF ChainOf
    <3>2. k[i] = t
      BY <1>4, <1>5, <2>1
    <3>3. QED
      BY <1>3, <3>1, <3>2
  <2>2. CASE i # p
    <3>1. ChainOf(X \ {o}, C, n, i) = ChainOf(X, C, n, i)
      BY <2>2 DEF ChainOf
    <3>2. k[i] = h[i]
      BY <1>4, <1>5, <2>2
    <3>3. Lists(h[i], ChainOf(X, C, n, i), Objects)
      BY DEF Chains
    <3>4. QED
      BY <3>1, <3>2, <3>3
  <2>3. QED
    BY <2>1, <2>2
<1>7. k \in [1 .. n -> Seq(Objects)]
  BY <1>4, <1>5
<1>8. Chains(k, n, X \ {o}, C)
  BY <1>6, <1>7 DEF Chains
<1>9. QED
  BY <1>1, <1>4, <1>8

LEMMA ChainsSame ==
  ASSUME NEW n, NEW h, NEW X, NEW C, NEW D, Chains(h, n, X, C), \A o \in X : C[o] = D[o]
  PROVE  Chains(h, n, X, D)
<1>1. \A i \in 1 .. n : ChainOf(X, D, n, i) = ChainOf(X, C, n, i)
  BY DEF ChainOf, At
<1>2. QED
  BY <1>1 DEF Chains

LEMMA NoChains ==
  ASSUME NEW n \in Nat, NEW C
  PROVE  Chains([i \in 1 .. n |-> <<>>], n, {}, C)
<1>1. \A i \in 1 .. n : ChainOf({}, C, n, i) = {}
  BY DEF ChainOf
<1>2. Lists(<<>>, {}, Objects)
  BY ListsNothing
<1>3. QED
  BY <1>1, <1>2 DEF Chains

\* The strings of all chains, each once.
LEMMA Nodes ==
  ASSUME NEW m \in Nat \ {0}, NEW h, NEW X, NEW C, Chains(h, m, X, C), \A o \in X : C[o] \in Contents
  PROVE  Lists(FlattenSeq(h), X, Objects)
<1>1. h \in Seq(Seq(Objects)) /\ Len(h) = m /\ m # 0
  BY ChainsSeq
<1>2. PICK Y : Y = [i \in 1 .. m |-> ChainOf(X, C, m, i)]
  OBVIOUS
<1>3. DOMAIN Y = 1 .. m /\ \A i \in 1 .. m : Y[i] = ChainOf(X, C, m, i)
  BY <1>2
<1>4. \A i \in 1 .. m : Lists(h[i], Y[i], Objects)
  BY <1>3 DEF Chains
<1>5. \A i, j \in 1 .. m : i # j => Y[i] \cap Y[j] = {}
  BY <1>3 DEF ChainOf
<1>6. Lists(FlattenSeq(h), UNION {Y[i] : i \in 1 .. Len(h)}, Objects)
  BY <1>1, <1>3, <1>4, <1>5, FlattenLists
<1>7. UNION {Y[i] : i \in 1 .. m} = X
  <2>1. \A o \in X : At(C, o, m) \in 1 .. m
    BY AtIs
  <2>2. \A o \in X : \E i \in 1 .. m : o \in Y[i]
    BY <1>3, <2>1 DEF ChainOf
  <2>3. \A i \in 1 .. m : Y[i] \subseteq X
    BY <1>3 DEF ChainOf
  <2>4. QED
    BY <2>2, <2>3
<1>8. QED
  BY <1>1, <1>6, <1>7

-----------------------------------------------------------------------------
(* Resizing                                                                  *)

\* 'lists' of rehashed.
Rehashes(s, n, nodes, f) ==
  f = [k \in 0 .. Len(nodes) |->
         IF k = 0 THEN [i \in 1 .. n |-> <<>>]
         ELSE [f[k - 1] EXCEPT ![position(s, nodes[k], n)] = <<nodes[k]>> \o @]]
\* One step of it.
Put(d, o, p) == [d EXCEPT ![p] = <<o>> \o @]

LEMMA RehashExists ==
  ASSUME NEW s, NEW n \in Nat, NEW nodes \in Seq(Objects)
  PROVE  \E f : Rehashes(s, n, nodes, f)
<1>1. PICK m, D, b : m = Len(nodes) /\ D = [1 .. n -> Seq(Objects)] /\ b = [i \in 1 .. n |-> <<>>]
  OBVIOUS
<1>2. m \in Nat /\ \A k \in 1 .. m : nodes[k] \in Objects
  BY <1>1
<1>3. PICK St : St = [k \in 1 .. m |-> [d \in D |-> Put(d, nodes[k], position(s, nodes[k], n))]]
  OBVIOUS
<1>4. PICK f : Iterates(m, b, St, f)
  BY <1>2, IterationExists
<1>5. \A k \in 0 .. m : f[k] = IF k = 0 THEN b ELSE St[k][f[k - 1]]
  BY <1>4 DEF Iterates
<1>6. ASSUME NEW k \in 1 .. m, f[k - 1] \in D
      PROVE  f[k] = Put(f[k - 1], nodes[k], position(s, nodes[k], n)) /\ f[k] \in D
  <2>1. k \in 0 .. m /\ k # 0
    BY <1>2
  <2>2. f[k] = St[k][f[k - 1]]
    BY <1>5, <2>1
  <2>3. f[k] = Put(f[k - 1], nodes[k], position(s, nodes[k], n))
    BY <1>3, <1>6, <2>2
  <2>4. PICK d, o, p : d = f[k - 1] /\ o = nodes[k] /\ p = position(s, nodes[k], n)
    OBVIOUS
  <2>5. d \in [1 .. n -> Seq(Objects)] /\ o \in Objects
    BY <1>1, <1>2, <1>6, <2>4
  <2>6. [d EXCEPT ![p] = <<o>> \o @] \in [1 .. n -> Seq(Objects)]
    <3>1. ASSUME p \in 1 .. n PROVE <<o>> \o d[p] \in Seq(Objects)
      BY <2>5, <3>1
    <3>2. QED
      BY <2>5, <3>1
  <2>7. QED
    BY <1>1, <2>3, <2>4, <2>6 DEF Put
<1>7. \A k \in 0 .. m : f[k] \in D
  <2> DEFINE P == {k \in 0 .. m : f[k] \in D}
  <2>1. 0 \in P
    <3>1. 0 \in 0 .. m
      BY <1>2
    <3>2. b \in D
      BY <1>1
    <3>3. QED
      BY <1>5, <3>1, <3>2
  <2>2. ASSUME NEW k \in 1 .. m, k - 1 \in P PROVE k \in P
    <3>1. f[k] \in D
      BY <1>6, <2>2
    <3>2. k \in 0 .. m
      BY <1>2
    <3>3. QED
      BY <3>1, <3>2
  <2> HIDE DEF P
  <2>3. \A k \in 0 .. m : k \in P
    BY <1>2, <2>1, <2>2, UpTo
  <2>4. QED
    BY <2>3 DEF P
<1>8. ASSUME NEW k \in 0 .. m
      PROVE  f[k] = IF k = 0 THEN b ELSE Put(f[k - 1], nodes[k], position(s, nodes[k], n))
  <2>1. CASE k = 0
    BY <1>5, <2>1
  <2>2. CASE k # 0
    <3>1. k \in 1 .. m /\ k - 1 \in 0 .. m
      BY <1>2, <2>2
    <3>2. QED
      BY <1>6, <1>7, <2>2, <3>1
  <2>3. QED
    BY <2>1, <2>2
<1>9. f = [k \in 0 .. m |-> f[k]]
  BY <1>4 DEF Iterates
<1>10. f = [k \in 0 .. m |-> IF k = 0 THEN b ELSE Put(f[k - 1], nodes[k], position(s, nodes[k], n))]
  BY <1>8, <1>9, Zenon
<1>11. m = Len(nodes) /\ b = [i \in 1 .. n |-> <<>>]
  BY <1>1
<1>12. f = [k \in 0 .. Len(nodes) |-> IF k = 0 THEN [i \in 1 .. n |-> <<>>]
                                      ELSE Put(f[k - 1], nodes[k], position(s, nodes[k], n))]
  BY <1>10, <1>11, Zenon
<1>13. QED
  BY <1>12, Zenon DEF Rehashes, Put

LEMMA RehashedIs ==
  ASSUME NEW s, Chained(s), \A o \in InUse(s) : s.content[o] \in Contents, NEW n \in Nat \ {0}
  PROVE  Chains(rehashed(s, n), n, InUse(s), s.content)
<1>1. PICK nodes, C, X : nodes = FlattenSeq(s.hash) /\ C = s.content /\ X = InUse(s)
  OBVIOUS
<1>2. Lists(nodes, X, Objects)
  <2>1. Len(s.hash) \in Nat \ {0}
    <3>1. DOMAIN s.hash = 1 .. Len(s.hash) /\ Len(s.hash) # 0
      BY DEF Chained, Chains
    <3>2. Len(s.hash) \in Nat
      BY <3>1
    <3>3. QED
      BY <3>1, <3>2
  <2>2. Chains(s.hash, Len(s.hash), X, C)
    BY <1>1 DEF Chained
  <2>3. \A o \in X : C[o] \in Contents
    BY <1>1
  <2>4. QED
    BY <1>1, <2>1, <2>2, <2>3, Nodes
<1>3. PICK m, f : m = Len(nodes) /\ f = CHOOSE e : Rehashes(s, n, nodes, e)
  OBVIOUS
<1>4. m \in Nat /\ nodes \in Seq(Objects) /\ DOMAIN nodes = 1 .. m
  BY <1>2, <1>3 DEF Lists
<1>5. Rehashes(s, n, nodes, f)
  BY <1>3, <1>4, RehashExists
<1>6. rehashed(s, n) = f[m]
  BY <1>1, <1>3 DEF rehashed, Rehashes
<1>7. \A k \in 0 .. m : f[k] = IF k = 0 THEN [i \in 1 .. n |-> <<>>] ELSE Put(f[k - 1], nodes[k], position(s, nodes[k], n))
  BY <1>3, <1>5, Zenon DEF Rehashes, Put
<1>8. X = {nodes[k] : k \in 1 .. m} /\ \A i, j \in 1 .. m : nodes[i] = nodes[j] => i = j
  BY <1>2, <1>4 DEF Lists, IsInjective, ToSet
<1> DEFINE Seen(k) == {nodes[j] : j \in 1 .. k}
           P == {k \in 0 .. m : Chains(f[k], n, Seen(k), C)}
<1>9. 0 \in P
  <2>1. 0 \in 0 .. m /\ Seen(0) = {}
    BY <1>4
  <2>2. f[0] = [i \in 1 .. n |-> <<>>]
    BY <1>7, <2>1
  <2>3. Chains(f[0], n, Seen(0), C)
    BY <2>1, <2>2, NoChains
  <2>4. QED
    BY <2>1, <2>3
<1>10. ASSUME NEW k \in 1 .. m, k - 1 \in P PROVE k \in P
  <2>1. k \in 0 .. m /\ k # 0 /\ k \in Nat
    BY <1>4
  <2>2. PICK o, p, d : o = nodes[k] /\ p = At(C, nodes[k], n) /\ d = f[k - 1]
    OBVIOUS
  <2>3. o \in Objects /\ o \in X
    BY <1>4, <1>8, <2>2
  <2>4. p \in 1 .. n
    <3>1. C[o] \in Contents
      BY <1>1, <2>3
    <3>2. QED
      BY <2>2, <3>1, AtIs
  <2>5. Chains(d, n, Seen(k - 1), C)
    BY <1>10, <2>2
  <2>6. o \notin Seen(k - 1)
    <3>1. \A j \in 1 .. k - 1 : j \in 1 .. m /\ j # k
      BY <1>4, <2>1
    <3>2. QED
      BY <1>8, <2>2, <3>1
  <2>7. Seen(k) = Seen(k - 1) \cup {o}
    <3>1. \A j : j \in 1 .. k <=> j \in 1 .. k - 1 \/ j = k
      BY <2>1
    <3>2. QED
      BY <2>2, <3>1
  <2>8. f[k] = [d EXCEPT ![p] = <<o>> \o @]
    <3>1. f[k] = Put(f[k - 1], nodes[k], position(s, nodes[k], n))
      BY <1>7, <2>1
    <3>2. position(s, nodes[k], n) = p
      BY <1>1, <2>2, PositionIs
    <3>3. QED
      BY <2>2, <3>1, <3>2, Zenon DEF Put
  <2> HIDE DEF Seen
  <2>9. Chains([d EXCEPT ![p] = <<o>> \o @], n, Seen(k - 1) \cup {o}, C)
    BY <2>2, <2>3, <2>4, <2>5, <2>6, ChainMore
  <2>10. Chains(f[k], n, Seen(k), C)
    BY <2>7, <2>8, <2>9, Zenon
  <2>11. QED
    BY <2>1, <2>10
<1> HIDE DEF P
<1>11. \A k \in 0 .. m : k \in P
  BY <1>4, <1>9, <1>10, UpTo
<1>12. m \in P
  BY <1>4, <1>11
<1>13. Chains(f[m], n, Seen(m), C)
  BY <1>12 DEF P
<1>14. QED
  BY <1>1, <1>6, <1>8, <1>13, Zenon

LEMMA GoodChains ==
  ASSUME NEW s, NEW R, Good(s, R)
  PROVE  /\ Len(s.hash) \in Nat \ {0}
         /\ Chains(s.hash, Len(s.hash), InUse(s), s.content)
         /\ \A o \in InUse(s) : s.content[o] \in Contents /\ At(s.content, o, Len(s.hash)) \in 1 .. Len(s.hash)
<1>1. s \in States /\ Single(s) /\ Chained(s)
  BY DEF Good
<1>2. Len(s.hash) \in Nat \ {0}
  <2>1. s.hash \in Seq(Seq(Objects))
    BY <1>1 DEF States
  <2>2. QED
    BY <1>1, <2>1 DEF Chained
<1>3. \A o \in InUse(s) : s.content[o] \in Contents
  BY <1>1 DEF Single, InUse
<1>4. QED
  BY <1>1, <1>2, <1>3, AtIs DEF Chained

\* From s to t nothing changed but the chains.
SameStrings(s, t) ==
  /\ t.content = s.content /\ t.color = s.color /\ t.cache = s.cache
  /\ t.gcstate = s.gcstate /\ t.unswept = s.unswept

LEMMA ResizeGood ==
  ASSUME NEW s, NEW R, Good(s, R), NEW n \in Nat \ {0}, NEW t, t = luaS_resize(s, n)
  PROVE  Good(t, R) /\ Len(t.hash) = n /\ SameStrings(s, t)
<1>1. s \in States /\ Single(s) /\ Chained(s) /\ Hued(s) /\ CacheKept(s) /\ R \subseteq Alive(s)
  BY DEF Good
<1>2. PICK h : h = rehashed(s, n)
  OBVIOUS
<1>3. \A o \in InUse(s) : s.content[o] \in Contents
  BY GoodChains
<1>4. Chains(h, n, InUse(s), s.content)
  BY <1>1, <1>2, <1>3, RehashedIs
<1>5. h \in Seq(Seq(Objects)) /\ Len(h) = n
  BY <1>4, ChainsSeq
<1>6. t = [s EXCEPT !.hash = h]
  BY <1>2 DEF luaS_resize
<1>7. t \in States /\ t.hash = h /\ SameStrings(s, t)
  BY <1>1, <1>5, <1>6 DEF States, SameStrings
<1>8. InUse(t) = InUse(s) /\ Alive(t) = Alive(s)
  BY <1>7 DEF InUse, Alive, SameStrings
<1>9. Single(t)
  BY <1>1, <1>7, <1>8 DEF Single, SameStrings
<1>10. Chained(t)
  BY <1>4, <1>5, <1>7, <1>8 DEF Chained, SameStrings
<1>11. Hued(t) /\ CacheKept(t)
  BY <1>1, <1>7, <1>8 DEF Hued, CacheKept, SameStrings
<1>12. QED
  BY <1>1, <1>5, <1>7, <1>8, <1>9, <1>10, <1>11 DEF Good

-----------------------------------------------------------------------------
(* The collector                                                             *)

\* From s to t strings were freed, and no more.
Fewer(s, t) ==
  /\ Len(t.hash) = Len(s.hash)
  /\ \A o \in InUse(t) : o \in InUse(s) /\ t.content[o] = s.content[o]

LEMMA FewerStill ==
  ASSUME NEW s, NEW t, NEW u, Fewer(s, t), Fewer(t, u)
  PROVE  Fewer(s, u)
BY DEF Fewer

LEMMA SweepDead ==
  ASSUME NEW s, NEW R, Good(s, R), s.gcstate = "sweep", NEW o \in s.unswept, s.color[o] = "dead", NEW t, t = sweep(s, o)
  PROVE  Good(t, R) /\ t.gcstate = "sweep" /\ t.unswept = s.unswept \ {o} /\ Fewer(s, t)
<1>1. s \in States /\ Single(s) /\ Chained(s) /\ Hued(s) /\ CacheKept(s) /\ R \subseteq Alive(s)
  BY DEF Good
<1>2. PICK n, p, h : n = Len(s.hash) /\ p = At(s.content, o, n) /\ h = [s.hash EXCEPT ![p] = RemoveFirst(@, o)]
  OBVIOUS
<1>3. o \in Objects /\ o \in InUse(s) /\ o # msg
  BY <1>1 DEF States, Hued, InUse
<1>4. n \in Nat \ {0} /\ p \in 1 .. n /\ Chains(s.hash, n, InUse(s), s.content)
  BY <1>2, <1>3, GoodChains
<1>5. Chains(h, n, InUse(s) \ {o}, s.content)
  BY <1>2, <1>4, ChainLess
<1>6. t = [[[s EXCEPT !.unswept = @ \ {o}] EXCEPT !.hash = h] EXCEPT !.color[o] = "free", !.content[o] = Nothing]
  <2>1. PICK r : r = [s EXCEPT !.unswept = @ \ {o}]
    OBVIOUS
  <2>2. r.hash = s.hash /\ r.content = s.content
    BY <1>1, <2>1 DEF States
  <2>3. position(r, o, size(r)) = p
    BY <1>2, <2>2, PositionIs DEF size
  <2>4. luaS_remove(r, o) = [r EXCEPT !.hash[p] = RemoveFirst(@, o)]
    BY <2>3 DEF luaS_remove
  <2>5. [r EXCEPT !.hash[p] = RemoveFirst(@, o)] = [r EXCEPT !.hash = h]
    BY <1>2, <2>2
  <2>6. t = [luaS_remove(r, o) EXCEPT !.color[o] = "free", !.content[o] = Nothing]
    BY <2>1 DEF sweep
  <2>7. QED
    BY <2>1, <2>4, <2>5, <2>6, Zenon
<1>7. /\ t.hash = h /\ t.cache = s.cache /\ t.gcstate = s.gcstate /\ t.unswept = s.unswept \ {o}
      /\ t.color = [s.color EXCEPT ![o] = "free"] /\ t.content = [s.content EXCEPT ![o] = Nothing]
  BY <1>1, <1>6 DEF States
<1>8. h \in Seq(Seq(Objects)) /\ Len(h) = n
  BY <1>4, <1>5, ChainsSeq
<1>9. t \in States
  <2>1. /\ t.color \in [Objects -> Colors] /\ t.content \in [Objects -> Contents \cup {Nothing}]
    BY <1>1, <1>7 DEF States, Colors
  <2>2. t.hash \in Seq(Seq(Objects)) /\ t.unswept \in SUBSET Objects
    BY <1>1, <1>7, <1>8 DEF States
  <2>3. QED
    BY <1>1, <1>6, <1>7, <2>1, <2>2 DEF States
<1>10. \A q \in Objects : q # o => t.color[q] = s.color[q] /\ t.content[q] = s.content[q]
  BY <1>1, <1>7 DEF States
<1>11. t.color[o] = "free" /\ t.content[o] = Nothing
  BY <1>1, <1>3, <1>7 DEF States
<1>12. InUse(t) = InUse(s) \ {o} /\ Alive(s) = Alive(t)
  BY <1>10, <1>11 DEF InUse, Alive
<1>13. Single(t)
  <2>1. Nothing \notin Contents
    BY StringAssumption DEF Contents
  <2>2. o \notin InUse(t)
    BY <1>12
  <2>3. ASSUME NEW q \in Objects PROVE q \in InUse(t) <=> t.content[q] \in Contents
    <3>1. CASE q = o
      BY <1>11, <2>1, <2>2, <3>1
    <3>2. CASE q # o
      <4>1. q \in InUse(s) <=> s.content[q] \in Contents
        BY <1>1 DEF Single
      <4>2. QED
        BY <1>10, <1>12, <3>2, <4>1
    <3>3. QED
      BY <3>1, <3>2
  <2>4. ASSUME NEW q \in InUse(t), NEW r \in InUse(t), t.content[q] = t.content[r] PROVE q = r
    <3>1. q \in Objects /\ r \in Objects /\ q \in InUse(s) /\ r \in InUse(s) /\ q # o /\ r # o
      BY <1>12 DEF InUse
    <3>2. s.content[q] = s.content[r]
      BY <1>10, <2>4, <3>1
    <3>3. QED
      BY <1>1, <3>1, <3>2 DEF Single
  <2>5. QED
    BY <2>3, <2>4 DEF Single
<1>14. Chained(t)
  <2>1. \A q \in InUse(s) \ {o} : s.content[q] = t.content[q]
    BY <1>10 DEF InUse
  <2>2. Chains(h, n, InUse(s) \ {o}, t.content)
    BY <1>5, <2>1, ChainsSame
  <2>3. QED
    BY <1>4, <1>7, <1>8, <1>12, <2>2 DEF Chained
<1>15. Hued(t)
  <2>1. msg \in Objects
    BY StringAssumption DEF msg
  <2>2. t.color[msg] = "black"
    BY <1>1, <1>3, <1>10, <2>1 DEF Hued
  <2>3. msg \notin t.unswept /\ t.unswept \subseteq InUse(t)
    BY <1>1, <1>7, <1>12 DEF Hued
  <2>4. t.gcstate # "propagate"
    BY <1>7
  <2>5. ASSUME NEW q \in Objects \ {msg}, t.color[q] \in {"dead", "black"} PROVE q \in t.unswept
    <3>1. q # o
      BY <1>11, <2>5
    <3>2. s.color[q] \in {"dead", "black"}
      BY <1>10, <2>5, <3>1
    <3>3. q \in s.unswept
      BY <1>1, <3>2 DEF Hued
    <3>4. QED
      BY <1>7, <3>1, <3>3
  <2>6. QED
    BY <2>2, <2>3, <2>4, <2>5 DEF Hued
<1>16. CacheKept(t) /\ R \subseteq Alive(t)
  BY <1>1, <1>7, <1>12 DEF CacheKept
<1>17. Fewer(s, t)
  BY <1>2, <1>7, <1>8, <1>10, <1>12 DEF Fewer, InUse
<1>18. QED
  BY <1>7, <1>9, <1>13, <1>14, <1>15, <1>16, <1>17 DEF Good

LEMMA SweepLive ==
  ASSUME NEW s, NEW R, Good(s, R), s.gcstate = "sweep", NEW o \in s.unswept, s.color[o] # "dead", NEW t, t = sweep(s, o)
  PROVE  Good(t, R) /\ t.gcstate = "sweep" /\ t.unswept = s.unswept \ {o} /\ Fewer(s, t)
<1>1. s \in States /\ Single(s) /\ Chained(s) /\ Hued(s) /\ CacheKept(s) /\ R \subseteq Alive(s)
  BY DEF Good
<1>2. o \in Objects /\ o \in InUse(s) /\ o # msg
  BY <1>1 DEF States, Hued, InUse
<1>3. t = [[s EXCEPT !.unswept = @ \ {o}] EXCEPT !.color[o] = "white"]
  BY DEF sweep
<1>4. /\ t.hash = s.hash /\ t.content = s.content /\ t.cache = s.cache /\ t.gcstate = s.gcstate
      /\ t.unswept = s.unswept \ {o} /\ t.color = [s.color EXCEPT ![o] = "white"]
  BY <1>1, <1>3 DEF States
<1>5. t \in States
  <2>1. t.color \in [Objects -> Colors]
    BY <1>1, <1>4 DEF States, Colors
  <2>2. QED
    BY <1>1, <1>3, <1>4, <2>1 DEF States
<1>6. t.color[o] = "white" /\ \A q \in Objects : q # o => t.color[q] = s.color[q]
  BY <1>1, <1>2, <1>4 DEF States
<1>7. InUse(t) = InUse(s) /\ Alive(s) \subseteq Alive(t)
  BY <1>2, <1>6 DEF InUse, Alive
<1>8. Single(t)
  BY <1>1, <1>4, <1>7 DEF Single
<1>9. Chained(t)
  BY <1>1, <1>4, <1>7 DEF Chained
<1>10. Hued(t)
  <2>1. msg \in Objects
    BY StringAssumption DEF msg
  <2>2. QED
    BY <1>1, <1>2, <1>4, <1>6, <1>7, <2>1 DEF Hued
<1>11. CacheKept(t) /\ R \subseteq Alive(t)
  BY <1>1, <1>4, <1>7 DEF CacheKept
<1>12. Fewer(s, t)
  BY <1>4, <1>7 DEF Fewer
<1>13. QED
  BY <1>4, <1>5, <1>8, <1>9, <1>10, <1>11, <1>12 DEF Good

LEMMA SweepGood ==
  ASSUME NEW s, NEW R, Good(s, R), s.gcstate = "sweep", NEW o \in s.unswept, NEW t, t = sweep(s, o)
  PROVE  Good(t, R) /\ t.gcstate = "sweep" /\ t.unswept = s.unswept \ {o} /\ Fewer(s, t)
BY SweepDead, SweepLive

LEMMA SetListed ==
  ASSUME NEW X, IsFiniteSet(X)
  PROVE  Lists(SetToSeq(X), X, X)
<1>1. PICK n, f : n = Cardinality(X) /\ f = SetToSeq(X)
  OBVIOUS
<1>2. n \in Nat /\ ExistsBijection(1 .. n, X)
  BY <1>1, FS_CardinalityType
<1>3. \E e \in [1 .. n -> X] : IsInjective(e)
  BY <1>2 DEF ExistsBijection, Bijection, Injection
<1>4. f \in [1 .. n -> X] /\ IsInjective(f)
  BY <1>1, <1>3 DEF SetToSeq
<1>5. f \in Injection(1 .. n, X)
  BY <1>4 DEF Injection
<1>6. Cardinality(1 .. n) = n
  BY <1>2, FS_Interval
<1>7. f \in Surjection(1 .. n, X)
  BY <1>1, <1>5, <1>6, FS_Injection
<1>8. f \in Seq(X) /\ DOMAIN f = 1 .. n
  BY <1>2, <1>4
<1>9. ToSet(f) = X
  BY <1>4, <1>7 DEF Surjection, ToSet
<1>10. QED
  BY <1>1, <1>4, <1>8, <1>9 DEF Lists

LEMMA FewerNone ==
  ASSUME NEW s
  PROVE  Fewer(s, s)
BY DEF Fewer

\* 'after' of swept.
Sweeps(s, list, f) == f = [k \in 0 .. Len(list) |-> IF k = 0 THEN s ELSE sweep(f[k - 1], list[k])]
\* What the first k sweeps of a list make of s.
Swept(s, R, list, k, t) ==
  /\ Good(t, R) /\ t.gcstate = "sweep" /\ Fewer(s, t)
  /\ t.unswept = s.unswept \ {list[j] : j \in 1 .. k}

LEMMA SweepsStart ==
  ASSUME NEW s, NEW R, Good(s, R), s.gcstate = "sweep", NEW list
  PROVE  Swept(s, R, list, 0, s)
<1>1. {list[j] : j \in 1 .. 0} = {}
  OBVIOUS
<1>2. QED
  BY <1>1, FewerNone DEF Swept

LEMMA SweepsStep ==
  ASSUME NEW s, NEW R, NEW list, Lists(list, s.unswept, Objects), NEW k \in 1 .. Len(list),
         NEW d, Swept(s, R, list, k - 1, d)
  PROVE  Swept(s, R, list, k, sweep(d, list[k]))
<1>1. PICK m, o, t : m = Len(list) /\ o = list[k] /\ t = sweep(d, list[k])
  OBVIOUS
<1>2. m \in Nat /\ DOMAIN list = 1 .. m /\ s.unswept = {list[j] : j \in 1 .. m} /\ IsInjective(list)
  BY <1>1 DEF Lists, ToSet
<1>3. k \in 1 .. m /\ k \in Nat
  BY <1>1, <1>2
<1>4. Good(d, R) /\ d.gcstate = "sweep" /\ Fewer(s, d) /\ d.unswept = s.unswept \ {list[j] : j \in 1 .. k - 1}
  BY DEF Swept
<1>5. o \in d.unswept
  <2>1. o \in s.unswept
    BY <1>1, <1>2, <1>3
  <2>2. ASSUME NEW j \in 1 .. k - 1 PROVE list[j] # o
    <3>1. j \in 1 .. m /\ j # k
      BY <1>2, <1>3
    <3>2. QED
      BY <1>1, <1>2, <1>3, <3>1 DEF IsInjective
  <2>3. QED
    BY <1>4, <2>1, <2>2
<1>6. Good(t, R) /\ t.gcstate = "sweep" /\ t.unswept = d.unswept \ {o} /\ Fewer(d, t)
  BY <1>1, <1>4, <1>5, SweepGood
<1>7. {list[j] : j \in 1 .. k} = {list[j] : j \in 1 .. k - 1} \cup {o}
  <2>1. \A j : j \in 1 .. k <=> j \in 1 .. k - 1 \/ j = k
    BY <1>3
  <2>2. QED
    BY <1>1, <2>1
<1>8. t.unswept = s.unswept \ {list[j] : j \in 1 .. k}
  BY <1>4, <1>6, <1>7
<1>9. Fewer(s, t)
  BY <1>4, <1>6, FewerStill
<1>10. QED
  BY <1>1, <1>6, <1>8, <1>9 DEF Swept

LEMMA SweepsExist ==
  ASSUME NEW s, NEW R, Good(s, R), s.gcstate = "sweep", NEW list, Lists(list, s.unswept, Objects)
  PROVE  \E f : Sweeps(s, list, f)
<1>1. PICK m : m = Len(list)
  OBVIOUS
<1>2. m \in Nat
  BY <1>1 DEF Lists
<1>3. PICK St : St = [k \in 1 .. m |-> [d \in States |-> sweep(d, list[k])]]
  OBVIOUS
<1>4. PICK f : Iterates(m, s, St, f)
  BY <1>2, IterationExists
<1>5. \A k \in 0 .. m : f[k] = IF k = 0 THEN s ELSE St[k][f[k - 1]]
  BY <1>4 DEF Iterates
<1> DEFINE P == {k \in 0 .. m : Swept(s, R, list, k, f[k])}
<1>6. 0 \in P
  <2>1. 0 \in 0 .. m /\ f[0] = s
    BY <1>2, <1>5
  <2>2. Swept(s, R, list, 0, f[0])
    BY <2>1, SweepsStart
  <2>3. QED
    BY <2>1, <2>2
<1>7. ASSUME NEW k \in 1 .. m, Swept(s, R, list, k - 1, f[k - 1])
      PROVE  f[k] = sweep(f[k - 1], list[k])
  <2>1. k \in 0 .. m /\ k # 0
    BY <1>2
  <2>2. f[k - 1] \in States
    BY <1>7 DEF Swept, Good
  <2>3. f[k] = St[k][f[k - 1]]
    BY <1>5, <2>1
  <2>4. QED
    BY <1>3, <2>2, <2>3
<1>8. ASSUME NEW k \in 1 .. m, k - 1 \in P PROVE k \in P
  <2>1. k \in 0 .. m
    BY <1>2
  <2>2. Swept(s, R, list, k - 1, f[k - 1])
    BY <1>8
  <2>3. f[k] = sweep(f[k - 1], list[k])
    BY <1>7, <2>2
  <2>4. PICK d : d = f[k - 1]
    OBVIOUS
  <2>5. k \in 1 .. Len(list) /\ Swept(s, R, list, k - 1, d)
    BY <1>1, <2>2, <2>4
  <2>6. Swept(s, R, list, k, sweep(d, list[k]))
    BY <2>5, SweepsStep
  <2>7. Swept(s, R, list, k, f[k])
    BY <2>3, <2>4, <2>6, Zenon
  <2>8. QED
    BY <2>1, <2>7
<1> HIDE DEF P
<1>9. \A k \in 0 .. m : k \in P
  BY <1>2, <1>6, <1>8, UpTo
<1>10. ASSUME NEW k \in 0 .. m PROVE f[k] = IF k = 0 THEN s ELSE sweep(f[k - 1], list[k])
  <2>1. CASE k = 0
    BY <1>5, <2>1
  <2>2. CASE k # 0
    <3>1. k \in 1 .. m /\ k - 1 \in 0 .. m
      BY <1>2, <2>2
    <3>2. Swept(s, R, list, k - 1, f[k - 1])
      BY <1>9, <3>1 DEF P
    <3>3. f[k] = sweep(f[k - 1], list[k])
      BY <1>7, <3>1, <3>2
    <3>4. QED
      BY <2>2, <3>3
  <2>3. QED
    BY <2>1, <2>2
<1>11. f = [k \in 0 .. m |-> f[k]]
  BY <1>4 DEF Iterates
<1>12. f = [k \in 0 .. m |-> IF k = 0 THEN s ELSE sweep(f[k - 1], list[k])]
  BY <1>10, <1>11, Zenon
<1>13. QED
  BY <1>1, <1>12, Zenon DEF Sweeps

LEMMA SweptGood ==
  ASSUME NEW s, NEW R, Good(s, R), s.gcstate = "sweep", NEW t, t = swept(s)
  PROVE  Good(t, R) /\ t.gcstate = "sweep" /\ t.unswept = {} /\ Fewer(s, t)
<1>1. PICK list : list = SetToSeq(s.unswept)
  OBVIOUS
<1>2. Lists(list, s.unswept, Objects)
  <2>1. s.unswept \in SUBSET Objects
    BY DEF Good, States
  <2>2. IsFiniteSet(s.unswept)
    BY <2>1, StringAssumption, FS_Subset
  <2>3. Lists(list, s.unswept, s.unswept)
    BY <1>1, <2>2, SetListed
  <2>4. \A q \in Seq(s.unswept) : q \in Seq(Objects)
    BY <2>1
  <2>5. QED
    BY <2>3, <2>4 DEF Lists
<1>3. PICK m, f : m = Len(list) /\ f = CHOOSE e : Sweeps(s, list, e)
  OBVIOUS
<1>4. m \in Nat /\ s.unswept = {list[j] : j \in 1 .. m}
  BY <1>2, <1>3 DEF Lists, ToSet
<1>5. Sweeps(s, list, f)
  BY <1>2, <1>3, SweepsExist
<1>6. t = f[m]
  BY <1>1, <1>3 DEF swept, Sweeps
<1>7. \A k \in 0 .. m : f[k] = IF k = 0 THEN s ELSE sweep(f[k - 1], list[k])
  BY <1>3, <1>5, Zenon DEF Sweeps
<1> DEFINE P == {k \in 0 .. m : Swept(s, R, list, k, f[k])}
<1>8. 0 \in P
  <2>1. 0 \in 0 .. m /\ f[0] = s
    BY <1>4, <1>7
  <2>2. Swept(s, R, list, 0, f[0])
    BY <2>1, SweepsStart
  <2>3. QED
    BY <2>1, <2>2
<1>9. ASSUME NEW k \in 1 .. m, k - 1 \in P PROVE k \in P
  <2>1. k \in 0 .. m /\ k # 0
    BY <1>4
  <2>2. f[k] = sweep(f[k - 1], list[k])
    BY <1>7, <2>1
  <2>3. PICK d : d = f[k - 1]
    OBVIOUS
  <2>4. k \in 1 .. Len(list) /\ Swept(s, R, list, k - 1, d)
    BY <1>3, <1>9, <2>3
  <2>5. Swept(s, R, list, k, sweep(d, list[k]))
    BY <1>2, <2>4, SweepsStep
  <2>6. Swept(s, R, list, k, f[k])
    BY <2>2, <2>3, <2>5, Zenon
  <2>7. QED
    BY <2>1, <2>6
<1> HIDE DEF P
<1>10. \A k \in 0 .. m : k \in P
  BY <1>4, <1>8, <1>9, UpTo
<1>11. m \in P
  BY <1>4, <1>10
<1>12. Swept(s, R, list, m, f[m])
  BY <1>11 DEF P
<1>13. QED
  BY <1>4, <1>6, <1>12 DEF Swept

\* No string waits for its death.
NoneDead(s) == \A o \in Objects : s.color[o] # "dead"

LEMMA NothingUnswept ==
  ASSUME NEW s, NEW R, Good(s, R), s.unswept = {}
  PROVE  NoneDead(s)
<1>1. s.color[msg] = "black" /\ s.gcstate \in {"propagate", "sweep"}
  BY DEF Good, Hued, States
<1>2. s.gcstate = "propagate" => NoneDead(s)
  BY DEF Good, Hued, NoneDead
<1>3. ASSUME s.gcstate = "sweep" PROVE NoneDead(s)
  <2>1. \A o \in Objects \ {msg} : s.color[o] # "dead"
    BY <1>3 DEF Good, Hued
  <2>2. QED
    BY <1>1, <2>1 DEF NoneDead
<1>4. QED
  BY <1>1, <1>2, <1>3

LEMMA AtomicGood ==
  ASSUME NEW s, NEW R, Good(s, R), NoneDead(s), NEW t, t = atomic(s, R)
  PROVE  Good(t, R) /\ t.gcstate = "sweep" /\ Fewer(s, t)
<1>1. s \in States /\ Single(s) /\ Chained(s) /\ Hued(s) /\ CacheKept(s) /\ R \subseteq Alive(s)
  BY DEF Good
<1>2. PICK B, u, K, c, D, U :
        /\ B = [o \in Objects |-> IF o \in R THEN "black" ELSE s.color[o]]
        /\ u = [s EXCEPT !.color = B]
        /\ K = [r \in Rows |-> [j \in 1 .. 2 |-> cleared(u, u.cache[r][j])]]
        /\ c = [u EXCEPT !.cache = K]
        /\ D = [o \in Objects |-> IF c.color[o] = "white" THEN "dead" ELSE c.color[o]]
        /\ U = {o \in Objects : c.color[o] # "free"} \ {msg}
  OBVIOUS
<1>3. t = [c EXCEPT !.color = D, !.gcstate = "sweep", !.unswept = U]
  BY <1>2 DEF atomic, luaS_clearcache, STRCACHE_M
<1>4. c.color = B /\ u.color = B /\ u.cache = s.cache /\ c.hash = s.hash /\ c.content = s.content
  BY <1>1, <1>2 DEF States
<1>5. t.hash = s.hash /\ t.content = s.content /\ t.cache = K /\ t.gcstate = "sweep" /\ t.unswept = U /\ t.color = D
  BY <1>1, <1>2, <1>3 DEF States
<1>6. msg \in Objects
  BY StringAssumption DEF msg
<1>7. ASSUME NEW o \in Objects
      PROVE  /\ B[o] = IF o \in R THEN "black" ELSE s.color[o]
             /\ D[o] = IF B[o] = "white" THEN "dead" ELSE B[o]
             /\ s.color[o] \in {"white", "black", "free"}
  BY <1>1, <1>2, <1>4 DEF States, Colors, NoneDead
<1>8. InUse(t) = InUse(s) /\ U = InUse(s) \ {msg}
  <2>1. \A o \in R : o \in Objects /\ s.color[o] # "free"
    BY <1>1 DEF Alive
  <2>2. \A o \in Objects : (B[o] = "free" <=> s.color[o] = "free") /\ (D[o] = "free" <=> s.color[o] = "free")
    BY <1>7, <2>1
  <2>3. QED
    BY <1>2, <1>4, <1>5, <2>2 DEF InUse
<1>9. \A o \in Objects : B[o] = "black" => o \in Alive(t)
  BY <1>5, <1>7 DEF Alive
<1>10. s.color[msg] = "black" /\ B[msg] = "black" /\ D[msg] = "black"
  BY <1>1, <1>6, <1>7 DEF Hued
<1>11. ASSUME NEW r \in Rows, NEW j \in 1 .. 2 PROVE K[r][j] \in Alive(t)
  <2>1. K[r][j] = cleared(u, s.cache[r][j])
    BY <1>2, <1>4
  <2>2. s.cache[r][j] \in Alive(s)
    BY <1>1 DEF CacheKept
  <2>3. PICK o : o = s.cache[r][j]
    OBVIOUS
  <2>4. o \in Objects /\ B[o] \in {"white", "black"}
    BY <1>7, <2>2, <2>3 DEF Alive
  <2>5. K[r][j] = IF B[o] = "white" THEN msg ELSE o
    BY <1>4, <2>1, <2>3 DEF cleared
  <2>6. QED
    BY <1>6, <1>9, <1>10, <2>4, <2>5
<1>12. t \in States
  <2>1. K \in [Rows -> [1 .. 2 -> Objects]]
    <3>1. \A r \in Rows : \A j \in 1 .. 2 : K[r][j] \in Objects
      BY <1>11 DEF Alive
    <3>2. QED
      BY <1>2, <3>1
  <2>2. D \in [Objects -> Colors]
    <3>1. \A o \in Objects : D[o] \in Colors
      BY <1>7 DEF Colors
    <3>2. QED
      BY <1>2, <3>1
  <2>3. U \in SUBSET Objects
    BY <1>2
  <2>4. QED
    BY <1>1, <1>2, <1>3, <2>1, <2>2, <2>3 DEF States
<1>13. Single(t) /\ Chained(t)
  BY <1>1, <1>5, <1>8 DEF Single, Chained
<1>14. Hued(t)
  <2>1. t.color[msg] = "black" /\ msg \notin t.unswept /\ t.unswept \subseteq InUse(t) /\ t.gcstate # "propagate"
    BY <1>5, <1>8, <1>10
  <2>2. ASSUME NEW o \in Objects \ {msg}, t.color[o] \in {"dead", "black"} PROVE o \in t.unswept
    <3>1. o \in InUse(t)
      BY <2>2 DEF InUse
    <3>2. QED
      BY <1>5, <1>8, <3>1
  <2>3. QED
    BY <2>1, <2>2 DEF Hued
<1>15. CacheKept(t)
  BY <1>5, <1>11 DEF CacheKept
<1>16. R \subseteq Alive(t)
  <2>1. \A o \in R : o \in Objects
    BY <1>1 DEF Alive
  <2>2. QED
    BY <1>7, <1>9, <2>1
<1>17. Fewer(s, t)
  BY <1>5, <1>8 DEF Fewer
<1>18. QED
  BY <1>5, <1>12, <1>13, <1>14, <1>15, <1>16, <1>17 DEF Good

\* Marking undone: what is in use is white.
Whitened(s) == [s EXCEPT !.color = [o \in Objects |-> IF @[o] = "free" \/ o = msg THEN @[o] ELSE "white"]]

LEMMA WhitenedGood ==
  ASSUME NEW s, NEW R, Good(s, R), s.gcstate # "sweep", NEW t, t = Whitened(s)
  PROVE  Good(t, R) /\ NoneDead(t) /\ Fewer(s, t)
<1>1. s \in States /\ Single(s) /\ Chained(s) /\ Hued(s) /\ CacheKept(s) /\ R \subseteq Alive(s)
  BY DEF Good
<1>2. PICK W : W = [o \in Objects |-> IF s.color[o] = "free" \/ o = msg THEN s.color[o] ELSE "white"]
  OBVIOUS
<1>3. t = [s EXCEPT !.color = W]
  BY <1>2 DEF Whitened
<1>4. /\ t.hash = s.hash /\ t.content = s.content /\ t.cache = s.cache /\ t.gcstate = s.gcstate
      /\ t.unswept = s.unswept /\ t.color = W
  BY <1>1, <1>3 DEF States
<1>5. s.gcstate = "propagate" /\ s.unswept = {} /\ s.color[msg] = "black" /\ msg \in Objects
  BY <1>1, StringAssumption DEF Hued, States, msg
<1>6. ASSUME NEW o \in Objects
      PROVE  /\ W[o] = IF s.color[o] = "free" \/ o = msg THEN s.color[o] ELSE "white"
             /\ s.color[o] \in {"white", "black", "free"}
  BY <1>1, <1>2, <1>5 DEF States, Colors, Hued
<1>7. InUse(t) = InUse(s) /\ Alive(s) \subseteq Alive(t)
  BY <1>4, <1>6 DEF InUse, Alive
<1>8. t \in States
  <2>1. W \in [Objects -> Colors]
    <3>1. \A o \in Objects : W[o] \in Colors
      BY <1>6 DEF Colors
    <3>2. QED
      BY <1>2, <3>1
  <2>2. QED
    BY <1>1, <1>3, <2>1 DEF States
<1>9. Single(t) /\ Chained(t)
  BY <1>1, <1>4, <1>7 DEF Single, Chained
<1>10. NoneDead(t)
  BY <1>4, <1>5, <1>6 DEF NoneDead
<1>11. Hued(t)
  <2>1. t.color[msg] = "black"
    BY <1>4, <1>5, <1>6
  <2>2. QED
    BY <1>4, <1>5, <1>10, <2>1 DEF Hued, NoneDead
<1>12. CacheKept(t) /\ R \subseteq Alive(t)
  BY <1>1, <1>4, <1>7 DEF CacheKept
<1>13. Fewer(s, t)
  BY <1>4, <1>7 DEF Fewer
<1>14. QED
  BY <1>8, <1>9, <1>10, <1>11, <1>12, <1>13 DEF Good

\* A collection that ends.
LEMMA EndedGood ==
  ASSUME NEW s, NEW R, Good(s, R), s.unswept = {}, NEW t, t = [s EXCEPT !.gcstate = "propagate"]
  PROVE  Good(t, R) /\ t.gcstate = "propagate" /\ Fewer(s, t)
<1>1. s \in States /\ Single(s) /\ Chained(s) /\ Hued(s) /\ CacheKept(s) /\ R \subseteq Alive(s)
  BY DEF Good
<1>2. /\ t.hash = s.hash /\ t.content = s.content /\ t.cache = s.cache /\ t.gcstate = "propagate"
      /\ t.unswept = {} /\ t.color = s.color
  BY <1>1 DEF States
<1>3. t \in States
  BY <1>1 DEF States
<1>4. InUse(t) = InUse(s) /\ Alive(t) = Alive(s)
  BY <1>2 DEF InUse, Alive
<1>5. Single(t) /\ Chained(t) /\ CacheKept(t) /\ R \subseteq Alive(t)
  BY <1>1, <1>2, <1>4 DEF Single, Chained, CacheKept
<1>6. NoneDead(s)
  BY NothingUnswept
<1>7. Hued(t)
  <2>1. t.color[msg] = "black"
    BY <1>1, <1>2 DEF Hued
  <2>2. QED
    BY <1>2, <1>6, <2>1 DEF Hued, NoneDead
<1>8. Fewer(s, t)
  BY <1>2, <1>4 DEF Fewer
<1>9. QED
  BY <1>2, <1>3, <1>5, <1>7, <1>8 DEF Good

LEMMA FullGood ==
  ASSUME NEW s, Good(s, held), NEW t, t = luaC_fullgc(s)
  PROVE  Good(t, held) /\ Fewer(s, t)
<1>1. PICK w : w = IF s.gcstate = "sweep" THEN swept(s) ELSE Whitened(s)
  OBVIOUS
<1>2. PICK a, d : a = atomic(w, held) /\ d = swept(a)
  OBVIOUS
<1>3. t = [d EXCEPT !.gcstate = "propagate"]
  BY <1>1, <1>2 DEF luaC_fullgc, Whitened
<1>4. Good(w, held) /\ NoneDead(w) /\ Fewer(s, w)
  <2>1. CASE s.gcstate = "sweep"
    <3>1. w = swept(s)
      BY <1>1, <2>1
    <3>2. Good(w, held) /\ w.unswept = {} /\ Fewer(s, w)
      BY <2>1, <3>1, SweptGood
    <3>3. QED
      BY <3>2, NothingUnswept
  <2>2. CASE s.gcstate # "sweep"
    <3>1. w = Whitened(s)
      BY <1>1, <2>2
    <3>2. QED
      BY <2>2, <3>1, WhitenedGood
  <2>3. QED
    BY <2>1, <2>2
<1>5. Good(a, held) /\ a.gcstate = "sweep" /\ Fewer(w, a)
  BY <1>2, <1>4, AtomicGood
<1>6. Good(d, held) /\ d.unswept = {} /\ Fewer(a, d)
  BY <1>2, <1>5, SweptGood
<1>7. Good(t, held) /\ Fewer(d, t)
  BY <1>3, <1>6, EndedGood
<1>8. Fewer(s, a)
  BY <1>4, <1>5, FewerStill
<1>9. Fewer(s, d)
  BY <1>6, <1>8, FewerStill
<1>10. QED
  BY <1>7, <1>9, FewerStill

-----------------------------------------------------------------------------
(* Making strings                                                            *)

\* The object with the content c that a list has.
Finds(list, C, c, i) == i = SelectInSeq(list, LAMBDA o : C[o] = c)

LEMMA Found ==
  ASSUME NEW list \in Seq(Objects), NEW C, NEW c, NEW i, Finds(list, C, c, i)
  PROVE  /\ i # 0 => i \in DOMAIN list /\ C[list[i]] = c
         /\ i = 0 => \A o \in ToSet(list) : C[o] # c
<1>1. PICK n, I : n = Len(list) /\ I = {k \in 1 .. n : C[list[k]] = c}
  OBVIOUS
<1>2. n \in Nat /\ DOMAIN list = 1 .. n
  BY <1>1
<1>3. i = IF I # {} THEN Min(I) ELSE 0
  BY <1>1 DEF Finds, SelectInSeq
<1>4. ASSUME I # {} PROVE i \in I /\ i # 0
  <2>1. I \in SUBSET Nat
    BY <1>1, <1>2
  <2>2. Min(I) \in I
    BY <1>4, <2>1, Least
  <2>3. QED
    BY <1>1, <1>3, <1>4, <2>2
<1>5. i # 0 => i \in I
  BY <1>3, <1>4
<1>6. i = 0 => \A k \in 1 .. n : C[list[k]] # c
  BY <1>1, <1>4
<1>7. QED
  BY <1>1, <1>2, <1>5, <1>6 DEF ToSet

\* No string has the content c.
Absent(s, c) == \A o \in InUse(s) : s.content[o] # c

LEMMA FewerAbsent ==
  ASSUME NEW s, NEW t, Fewer(s, t), NEW c, Absent(s, c)
  PROVE  Absent(t, c)
BY DEF Fewer, Absent

LEMMA FewerRoom ==
  ASSUME NEW s, NEW t, Fewer(s, t), Room(s)
  PROVE  Room(t)
BY DEF Fewer, Room, InUse

LEMMA CreateGood ==
  ASSUME NEW s, NEW R, Good(s, R), NEW c \in Contents, Absent(s, c), Room(s), NEW r, r = createstrobj(s, c)
  PROVE  Good(r.s, R \cup {r.o}) /\ r.s.cache = s.cache
<1>1. s \in States /\ Single(s) /\ Chained(s) /\ Hued(s) /\ CacheKept(s) /\ R \subseteq Alive(s)
  BY DEF Good
<1>2. PICK n, o, C, K : /\ n = Len(s.hash) /\ o = Min({p \in Objects : s.color[p] = "free"})
                        /\ C = [s.content EXCEPT ![o] = c] /\ K = [s.color EXCEPT ![o] = "white"]
  OBVIOUS
<1>3. o \in Objects /\ s.color[o] = "free"
  <2>1. PICK F : F = {p \in Objects : s.color[p] = "free"}
    OBVIOUS
  <2>2. F \in SUBSET Nat /\ F # {}
    BY <2>1, StringAssumption DEF Room
  <2>3. Min(F) \in F
    BY <2>2, Least
  <2>4. QED
    BY <1>2, <2>1, <2>3
<1>4. C[o] = c /\ K[o] = "white" /\ \A q \in Objects : q # o => C[q] = s.content[q] /\ K[q] = s.color[q]
  BY <1>1, <1>2, <1>3 DEF States
<1>5. n \in Nat \ {0} /\ Chains(s.hash, n, InUse(s), s.content)
  BY <1>2, GoodChains
<1>6. PICK p, h : p = At(C, o, n) /\ h = [s.hash EXCEPT ![p] = <<o>> \o @]
  OBVIOUS
<1>7. p \in 1 .. n
  BY <1>4, <1>5, <1>6, AtIs
<1>8. o \notin InUse(s)
  BY <1>3 DEF InUse
<1>9. Chains(h, n, InUse(s) \cup {o}, C)
  <2>1. \A q \in InUse(s) : s.content[q] = C[q]
    BY <1>4, <1>8 DEF InUse
  <2>2. Chains(s.hash, n, InUse(s), C)
    BY <1>5, <2>1, ChainsSame
  <2>3. QED
    BY <1>3, <1>5, <1>6, <1>7, <1>8, <2>2, ChainMore
<1>10. PICK t : t = [s EXCEPT !.content[o] = c, !.color[o] = "white"]
  OBVIOUS
<1>11. t.hash = s.hash /\ t.content = C
  BY <1>1, <1>2, <1>10 DEF States
<1>12. r.o = o /\ r.s = [t EXCEPT !.hash = h]
  <2>1. r = [s |-> [t EXCEPT !.hash[position(t, o, size(t))] = <<o>> \o @], o |-> o]
    BY <1>2, <1>10 DEF createstrobj
  <2>2. position(t, o, size(t)) = p
    BY <1>2, <1>6, <1>11, PositionIs DEF size
  <2>3. [t EXCEPT !.hash[p] = <<o>> \o @] = [t EXCEPT !.hash = h]
    BY <1>6, <1>11
  <2>4. QED
    BY <2>1, <2>2, <2>3
<1>13. PICK u : u = r.s
  OBVIOUS
<1>14. /\ u.hash = h /\ u.content = C /\ u.color = K /\ u.cache = s.cache
       /\ u.gcstate = s.gcstate /\ u.unswept = s.unswept
  BY <1>1, <1>2, <1>10, <1>12, <1>13 DEF States
<1>15. h \in Seq(Seq(Objects)) /\ Len(h) = n
  BY <1>5, <1>9, ChainsSeq
<1>16. u \in States
  <2>1. C \in [Objects -> Contents \cup {Nothing}] /\ K \in [Objects -> Colors]
    BY <1>1, <1>2 DEF States, Colors
  <2>2. QED
    BY <1>1, <1>2, <1>10, <1>12, <1>13, <1>15, <2>1 DEF States
<1>17. InUse(u) = InUse(s) \cup {o} /\ Alive(u) = Alive(s) \cup {o}
  BY <1>3, <1>4, <1>14 DEF InUse, Alive
<1>18. Single(u)
  <2>1. ASSUME NEW q \in Objects PROVE q \in InUse(u) <=> u.content[q] \in Contents
    <3>1. CASE q = o
      BY <1>4, <1>14, <1>17, <3>1
    <3>2. CASE q # o
      <4>1. q \in InUse(s) <=> s.content[q] \in Contents
        BY <1>1 DEF Single
      <4>2. QED
        BY <1>4, <1>14, <1>17, <3>2, <4>1
    <3>3. QED
      BY <3>1, <3>2
  <2>2. \A q \in InUse(s) : q \in Objects /\ q # o /\ C[q] = s.content[q] /\ C[q] # c
    BY <1>4, <1>8 DEF Absent, InUse
  <2>3. ASSUME NEW q \in InUse(u), NEW v \in InUse(u), C[q] = C[v] PROVE q = v
    <3>1. (q = o \/ q \in InUse(s)) /\ (v = o \/ v \in InUse(s))
      BY <1>17
    <3>2. CASE q = o \/ v = o
      BY <1>4, <2>2, <2>3, <3>1, <3>2
    <3>3. CASE q # o /\ v # o
      <4>1. q \in InUse(s) /\ v \in InUse(s) /\ s.content[q] = s.content[v]
        BY <2>2, <2>3, <3>1, <3>3
      <4>2. QED
        BY <1>1, <4>1 DEF Single
    <3>4. QED
      BY <3>2, <3>3
  <2>4. QED
    BY <1>14, <2>1, <2>3 DEF Single
<1>19. Chained(u)
  BY <1>5, <1>9, <1>14, <1>15, <1>17 DEF Chained
<1>20. Hued(u)
  <2>1. msg \in Objects /\ s.color[msg] = "black" /\ msg # o
    BY <1>1, <1>3, StringAssumption DEF msg, Hued
  <2>2. u.color[msg] = "black" /\ msg \notin u.unswept /\ u.unswept \subseteq InUse(u)
    BY <1>1, <1>4, <1>14, <1>17, <2>1 DEF Hued
  <2>3. ASSUME u.gcstate = "propagate" PROVE u.unswept = {} /\ \A q \in Objects : u.color[q] # "dead"
    <3>1. s.unswept = {} /\ \A q \in Objects : s.color[q] # "dead"
      BY <1>1, <1>14, <2>3 DEF Hued
    <3>2. QED
      BY <1>4, <1>14, <3>1
  <2>4. ASSUME u.gcstate = "sweep", NEW q \in Objects \ {msg}, u.color[q] \in {"dead", "black"} PROVE q \in u.unswept
    <3>1. q # o
      BY <1>4, <1>14, <2>4
    <3>2. s.color[q] \in {"dead", "black"}
      BY <1>4, <1>14, <2>4, <3>1
    <3>3. q \in s.unswept
      BY <1>1, <1>14, <2>4, <3>2 DEF Hued
    <3>4. QED
      BY <1>14, <3>3
  <2>5. QED
    BY <2>2, <2>3, <2>4 DEF Hued
<1>21. CacheKept(u)
  BY <1>1, <1>14, <1>17 DEF CacheKept
<1>22. R \cup {o} \subseteq Alive(u)
  BY <1>1, <1>17
<1>23. Good(u, R \cup {o})
  BY <1>16, <1>18, <1>19, <1>20, <1>21, <1>22 DEF Good
<1>24. QED
  BY <1>12, <1>13, <1>14, <1>23

LEMMA ReviveGood ==
  ASSUME NEW s, NEW R, Good(s, R), NEW o \in InUse(s), NEW t, t = revived(s, o)
  PROVE  Good(t, R \cup {o}) /\ t.cache = s.cache
<1>1. s \in States /\ Single(s) /\ Chained(s) /\ Hued(s) /\ CacheKept(s) /\ R \subseteq Alive(s)
  BY DEF Good
<1>2. o \in Objects /\ s.color[o] \in {"white", "dead", "black"}
  BY <1>1 DEF States, Colors, InUse
<1>3. CASE s.color[o] # "dead"
  <2>1. t = s /\ o \in Alive(s)
    BY <1>2, <1>3 DEF revived, Alive
  <2>2. QED
    BY <1>1, <2>1 DEF Good
<1>4. CASE s.color[o] = "dead"
  <2>1. PICK K : K = [s.color EXCEPT ![o] = "white"]
    OBVIOUS
  <2>2. t = [s EXCEPT !.color = K]
    BY <1>4, <2>1 DEF revived
  <2>3. /\ t.hash = s.hash /\ t.content = s.content /\ t.cache = s.cache /\ t.gcstate = s.gcstate
        /\ t.unswept = s.unswept /\ t.color = K
    BY <1>1, <2>2 DEF States
  <2>4. K[o] = "white" /\ \A q \in Objects : q # o => K[q] = s.color[q]
    BY <1>1, <1>2, <2>1 DEF States
  <2>5. InUse(t) = InUse(s) /\ Alive(t) = Alive(s) \cup {o}
    BY <1>2, <2>3, <2>4 DEF InUse, Alive
  <2>6. t \in States
    <3>1. K \in [Objects -> Colors]
      BY <1>1, <2>1 DEF States, Colors
    <3>2. QED
      BY <1>1, <2>2, <3>1 DEF States
  <2>7. Single(t) /\ Chained(t)
    BY <1>1, <2>3, <2>5 DEF Single, Chained
  <2>8. Hued(t)
    <3>1. msg \in Objects /\ s.color[msg] = "black" /\ msg # o
      BY <1>1, <1>4, StringAssumption DEF msg, Hued
    <3>2. t.color[msg] = "black" /\ msg \notin t.unswept /\ t.unswept \subseteq InUse(t)
      BY <1>1, <2>3, <2>4, <2>5, <3>1 DEF Hued
    <3>3. t.gcstate # "propagate"
      BY <1>1, <1>2, <1>4, <2>3 DEF Hued
    <3>4. ASSUME t.gcstate = "sweep", NEW q \in Objects \ {msg}, t.color[q] \in {"dead", "black"} PROVE q \in t.unswept
      <4>1. q # o
        BY <2>3, <2>4, <3>4
      <4>2. s.color[q] \in {"dead", "black"}
        BY <2>3, <2>4, <3>4, <4>1
      <4>3. QED
        BY <1>1, <2>3, <3>4, <4>2 DEF Hued
    <3>5. QED
      BY <3>2, <3>3, <3>4 DEF Hued
  <2>9. CacheKept(t) /\ R \cup {o} \subseteq Alive(t)
    BY <1>1, <2>3, <2>5 DEF CacheKept
  <2>10. QED
    BY <2>3, <2>6, <2>7, <2>8, <2>9 DEF Good
<1>5. QED
  BY <1>3, <1>4

LEMMA CollectedGood ==
  ASSUME NEW s, Good(s, held), NEW emergency, NEW t, t = collected(s, emergency)
  PROVE  Good(t, held) /\ Fewer(s, t)
<1>1. CASE emergency
  <2>1. t = luaC_fullgc(s)
    BY <1>1 DEF collected
  <2>2. QED
    BY <2>1, FullGood
<1>2. CASE ~ emergency
  <2>1. t = s
    BY <1>2 DEF collected
  <2>2. QED
    BY <2>1, FewerNone
<1>3. QED
  BY <1>1, <1>2

LEMMA GoodFewer ==
  ASSUME NEW s, NEW R, NEW Q, Good(s, R), Q \subseteq R
  PROVE  Good(s, Q)
BY DEF Good

LEMMA InternGood ==
  ASSUME NEW s, Good(s, held), NEW c \in Contents, Room(s), NEW growing, NEW creating,
         NEW r, r = internshrstr(s, c, growing, creating)
  PROVE  Good(r.s, held \cup {r.o})
<1>1. PICK n, l, list, found, G :
        /\ n = Len(s.hash) /\ l = lmod(Hash[c], size(s)) /\ list = s.hash[l]
        /\ found = SelectInSeq(list, LAMBDA o : s.content[o] = c)
        /\ G = IF nuse(s) >= size(s) THEN luaS_resize(collected(s, growing), 2 * size(s)) ELSE s
  OBVIOUS
<1>2. r = IF found # 0 THEN [s |-> revived(s, list[found]), o |-> list[found]]
          ELSE createstrobj(collected(G, creating), c)
  BY <1>1 DEF internshrstr
<1>3. n \in Nat \ {0} /\ Chains(s.hash, n, InUse(s), s.content)
  BY <1>1, GoodChains
<1>4. l \in 1 .. n
  <2>1. PICK C : C = [q \in {0} |-> c]
    OBVIOUS
  <2>2. C[0] = c
    BY <2>1
  <2>3. At(C, 0, n) \in 1 .. n
    BY <1>3, <2>2, AtIs
  <2>4. QED
    BY <1>1, <2>2, <2>3 DEF At, size
<1>5. Lists(list, ChainOf(InUse(s), s.content, n, l), Objects)
  BY <1>1, <1>3, <1>4 DEF Chains
<1>6. list \in Seq(Objects) /\ ToSet(list) = ChainOf(InUse(s), s.content, n, l)
  BY <1>5 DEF Lists
<1>7. /\ found # 0 => found \in DOMAIN list /\ s.content[list[found]] = c
      /\ found = 0 => \A o \in ToSet(list) : s.content[o] # c
  <2>1. PICK C : C = s.content
    OBVIOUS
  <2>2. Finds(list, C, c, found)
    BY <1>1, <2>1 DEF Finds
  <2>3. /\ found # 0 => found \in DOMAIN list /\ C[list[found]] = c
        /\ found = 0 => \A o \in ToSet(list) : C[o] # c
    BY <1>6, <2>2, Found
  <2>4. QED
    BY <2>1, <2>3
<1>8. CASE found # 0
  <2>1. PICK o, t : o = list[found] /\ t = revived(s, list[found])
    OBVIOUS
  <2>2. o \in InUse(s)
    BY <1>6, <1>7, <1>8, <2>1 DEF ToSet, ChainOf
  <2>3. Good(t, held \cup {o})
    BY <2>1, <2>2, ReviveGood
  <2>4. r.s = t /\ r.o = o
    BY <1>2, <1>8, <2>1
  <2>5. QED
    BY <2>3, <2>4
<1>9. CASE found = 0
  <2>1. Absent(s, c)
    <3>1. ASSUME NEW o \in InUse(s), s.content[o] = c PROVE FALSE
      <4>1. At(s.content, o, n) = l
        BY <1>1, <3>1 DEF At, size
      <4>2. o \in ToSet(list)
        BY <1>6, <4>1 DEF ChainOf
      <4>3. QED
        BY <1>7, <1>9, <3>1, <4>2
    <3>2. QED
      BY <3>1 DEF Absent
  <2>2. Good(G, held) /\ Absent(G, c) /\ Room(G)
    <3>1. CASE nuse(s) >= size(s)
      <4>1. PICK k, m : k = collected(s, growing) /\ m = 2 * size(s)
        OBVIOUS
      <4>2. G = luaS_resize(k, m) /\ m \in Nat \ {0}
        BY <1>1, <1>3, <3>1, <4>1 DEF size
      <4>3. Good(k, held) /\ Fewer(s, k)
        BY <4>1, CollectedGood
      <4>4. Absent(k, c) /\ Room(k)
        BY <2>1, <4>3, FewerAbsent, FewerRoom
      <4>5. Good(G, held) /\ SameStrings(k, G)
        BY <4>2, <4>3, ResizeGood
      <4>6. Absent(G, c)
        BY <4>4, <4>5 DEF Absent, SameStrings, InUse
      <4>7. Room(G)
        BY <4>4, <4>5 DEF Room, SameStrings
      <4>8. QED
        BY <4>5, <4>6, <4>7
    <3>2. CASE ~ (nuse(s) >= size(s))
      <4>1. G = s
        BY <1>1, <3>2
      <4>2. QED
        BY <2>1, <4>1
    <3>3. QED
      BY <3>1, <3>2
  <2>3. PICK d : d = collected(G, creating)
    OBVIOUS
  <2>4. Good(d, held) /\ Fewer(G, d)
    BY <2>2, <2>3, CollectedGood
  <2>5. Absent(d, c) /\ Room(d)
    BY <2>2, <2>4, FewerAbsent, FewerRoom
  <2>6. r = createstrobj(d, c)
    BY <1>2, <1>9, <2>3
  <2>7. Good(r.s, held \cup {r.o}) /\ r.s.cache = d.cache
    BY <2>4, <2>5, <2>6, CreateGood
  <2>8. QED
    BY <2>7
<1>10. QED
  BY <1>8, <1>9

\* Another cache, of strings that live.
LEMMA CacheGood ==
  ASSUME NEW s, NEW R, Good(s, R), NEW K \in [Rows -> [1 .. 2 -> Objects]],
         \A r \in Rows : \A j \in 1 .. 2 : K[r][j] \in Alive(s), NEW t, t = [s EXCEPT !.cache = K]
  PROVE  Good(t, R) /\ Fewer(s, t)
<1>1. s \in States /\ Single(s) /\ Chained(s) /\ Hued(s) /\ CacheKept(s) /\ R \subseteq Alive(s)
  BY DEF Good
<1>2. /\ t.hash = s.hash /\ t.content = s.content /\ t.color = s.color /\ t.cache = K
      /\ t.gcstate = s.gcstate /\ t.unswept = s.unswept
  BY <1>1 DEF States
<1>3. t \in States
  BY <1>1 DEF States
<1>4. InUse(t) = InUse(s) /\ Alive(t) = Alive(s)
  BY <1>2 DEF InUse, Alive
<1>5. Single(t) /\ Chained(t)
  BY <1>1, <1>2, <1>4 DEF Single, Chained
<1>6. Hued(t)
  BY <1>1, <1>2, <1>4 DEF Hued
<1>7. CacheKept(t) /\ R \subseteq Alive(t)
  BY <1>1, <1>2, <1>4 DEF CacheKept
<1>8. Fewer(s, t)
  BY <1>2, <1>4 DEF Fewer
<1>9. QED
  BY <1>3, <1>5, <1>6, <1>7, <1>8 DEF Good

LEMMA MovedGood ==
  ASSUME NEW s, NEW R, Good(s, R), NEW row \in Rows, NEW t, t = moved(s, row)
  PROVE  Good(t, R) /\ Fewer(s, t)
<1>1. s \in States /\ CacheKept(s)
  BY DEF Good
<1>2. PICK q, e : q = s.cache[row] /\ e = <<q[1]>> \o SubSeq(q, 1, STRCACHE_M - 1)
  OBVIOUS
<1>3. q \in [1 .. 2 -> Objects]
  BY <1>1, <1>2 DEF States
<1>4. e \in Seq(Alive(s)) /\ Len(e) = 2
  <2>1. PICK A, x, z : A = Alive(s) /\ x = q[1] /\ z = SubSeq(q, 1, 1)
    OBVIOUS
  <2>2. x \in A
    BY <1>1, <1>2, <2>1 DEF CacheKept
  <2>3. \A i \in 1 .. 1 : q[i] \in A
    BY <2>1, <2>2
  <2>4. /\ SubSeq(q, 1, 1) \in Seq(A)
        /\ Len(SubSeq(q, 1, 1)) = IF 1 <= 1 THEN 1 - 1 + 1 ELSE 0
    BY <2>3, SubSeqProperties
  <2>5. z \in Seq(A) /\ Len(z) = 1 /\ <<x>> \in Seq(A) /\ Len(<<x>>) = 1
    BY <2>1, <2>2, <2>4
  <2>6. <<x>> \o z \in Seq(A) /\ Len(<<x>> \o z) = 2
    BY <2>5, Joined
  <2>7. e = <<x>> \o z
    BY <1>2, <2>1 DEF STRCACHE_M
  <2>8. QED
    BY <2>1, <2>6, <2>7
<1>5. PICK K : K = [s.cache EXCEPT ![row] = e]
  OBVIOUS
<1>6. t = [s EXCEPT !.cache = K]
  BY <1>1, <1>2, <1>5 DEF moved, States
<1>7. \A j \in 1 .. 2 : e[j] \in Alive(s)
  BY <1>4
<1>8. e \in [1 .. 2 -> Objects]
  <2>1. e \in [1 .. 2 -> Alive(s)]
    BY <1>4, LenProperties
  <2>2. QED
    BY <2>1 DEF Alive
<1>9. K \in [Rows -> [1 .. 2 -> Objects]]
  BY <1>1, <1>5, <1>8 DEF States
<1>10. ASSUME NEW r \in Rows, NEW j \in 1 .. 2 PROVE K[r][j] \in Alive(s)
  <2>1. K[r] = IF r = row THEN e ELSE s.cache[r]
    BY <1>1, <1>5 DEF States
  <2>2. QED
    BY <1>1, <1>7, <2>1 DEF CacheKept
<1>11. QED
  BY <1>6, <1>9, <1>10, CacheGood

-----------------------------------------------------------------------------
(* The invariant                                                             *)

LEMMA StartGood ==
  ASSUME NEW n \in Nat \ {0}, NEW s, s = luaS_init(n)
  PROVE  Good(s, {})
<1>1. msg \in Objects /\ msg = 1 /\ MEMERRMSG \in Contents /\ Nothing \notin Contents
  BY StringAssumption DEF msg, Contents
<1>2. PICK l, h, C, K, Q : /\ l = lmod(Hash[MEMERRMSG], n)
                           /\ h = [i \in 1 .. n |-> IF i = l THEN <<msg>> ELSE <<>>]
                           /\ C = [o \in Objects |-> IF o = msg THEN MEMERRMSG ELSE Nothing]
                           /\ K = [o \in Objects |-> IF o = msg THEN "black" ELSE "free"]
                           /\ Q = [r \in Rows |-> [j \in 1 .. 2 |-> msg]]
  OBVIOUS
<1>3. s = [hash |-> h, content |-> C, color |-> K, cache |-> Q, gcstate |-> "propagate", unswept |-> {}]
  BY <1>2 DEF luaS_init, STRCACHE_M
<1>4. /\ s.hash = h /\ s.content = C /\ s.color = K /\ s.cache = Q /\ s.gcstate = "propagate" /\ s.unswept = {}
  BY <1>3
<1>5. C[msg] = MEMERRMSG /\ K[msg] = "black" /\ \A o \in Objects : o # msg => C[o] = Nothing /\ K[o] = "free"
  BY <1>1, <1>2
<1>6. l \in 1 .. n /\ At(C, msg, n) = l
  <2>1. At(C, msg, n) \in 1 .. n
    BY <1>1, <1>5, AtIs
  <2>2. QED
    BY <1>2, <1>5, <2>1 DEF At
<1>7. InUse(s) = {msg} /\ Alive(s) = {msg}
  BY <1>1, <1>4, <1>5 DEF InUse, Alive
<1>8. Chains(h, n, {msg}, C)
  <2>1. PICK z : z = [i \in 1 .. n |-> <<>>]
    OBVIOUS
  <2>2. Chains(z, n, {}, C)
    BY <2>1, NoChains
  <2>3. Chains([z EXCEPT ![l] = <<msg>> \o @], n, {} \cup {msg}, C)
    BY <1>1, <1>6, <2>2, ChainMore
  <2>4. [z EXCEPT ![l] = <<msg>> \o @] = h
    <3>1. <<msg>> \o <<>> = <<msg>>
      BY <1>1
    <3>2. z[l] = <<>>
      BY <1>6, <2>1
    <3>3. QED
      BY <1>2, <1>6, <2>1, <3>1, <3>2
  <2>5. QED
    BY <2>3, <2>4
<1>9. h \in Seq(Seq(Objects)) /\ Len(h) = n
  BY <1>8, ChainsSeq
<1>10. s \in States
  <2>1. C \in [Objects -> Contents \cup {Nothing}] /\ K \in [Objects -> Colors] /\ Q \in [Rows -> [1 .. 2 -> Objects]]
    BY <1>1, <1>2 DEF Colors
  <2>2. QED
    BY <1>3, <1>9, <2>1 DEF States
<1>11. Single(s)
  BY <1>1, <1>4, <1>5, <1>7 DEF Single
<1>12. Chained(s)
  BY <1>4, <1>7, <1>8, <1>9 DEF Chained
<1>13. Hued(s)
  <2>1. \A o \in Objects : s.color[o] # "dead"
    BY <1>4, <1>5
  <2>2. QED
    BY <1>4, <1>5, <2>1 DEF Hued
<1>14. CacheKept(s)
  <2>1. \A r \in Rows : \A j \in 1 .. 2 : Q[r][j] = msg
    BY <1>2
  <2>2. QED
    BY <1>4, <1>7, <2>1 DEF CacheKept
<1>15. QED
  BY <1>10, <1>11, <1>12, <1>13, <1>14 DEF Good

LEMMA MarkGood ==
  ASSUME NEW s, NEW R, Good(s, R), NEW o \in Objects, s.gcstate = "propagate", s.color[o] = "white",
         NEW t, t = [s EXCEPT !.color[o] = "black"]
  PROVE  Good(t, R)
<1>1. s \in States /\ Single(s) /\ Chained(s) /\ Hued(s) /\ CacheKept(s) /\ R \subseteq Alive(s)
  BY DEF Good
<1>2. PICK K : K = [s.color EXCEPT ![o] = "black"]
  OBVIOUS
<1>3. t = [s EXCEPT !.color = K]
  BY <1>2
<1>4. /\ t.hash = s.hash /\ t.content = s.content /\ t.cache = s.cache /\ t.gcstate = s.gcstate
      /\ t.unswept = s.unswept /\ t.color = K
  BY <1>1, <1>3 DEF States
<1>5. K[o] = "black" /\ \A q \in Objects : q # o => K[q] = s.color[q]
  BY <1>1, <1>2 DEF States
<1>6. InUse(t) = InUse(s) /\ Alive(t) = Alive(s)
  BY <1>4, <1>5 DEF InUse, Alive
<1>7. t \in States
  <2>1. K \in [Objects -> Colors]
    BY <1>1, <1>2 DEF States, Colors
  <2>2. QED
    BY <1>1, <1>3, <2>1 DEF States
<1>8. Single(t) /\ Chained(t)
  BY <1>1, <1>4, <1>6 DEF Single, Chained
<1>9. Hued(t)
  <2>1. s.unswept = {} /\ \A q \in Objects : s.color[q] # "dead"
    BY <1>1 DEF Hued
  <2>2. msg \in Objects /\ t.color[msg] = "black"
    BY <1>1, <1>4, <1>5, StringAssumption DEF Hued, msg
  <2>3. \A q \in Objects : t.color[q] # "dead"
    BY <1>4, <1>5, <2>1
  <2>4. QED
    BY <1>4, <2>1, <2>2, <2>3 DEF Hued
<1>10. CacheKept(t) /\ R \subseteq Alive(t)
  BY <1>1, <1>4, <1>6 DEF CacheKept
<1>11. QED
  BY <1>7, <1>8, <1>9, <1>10 DEF Good

LEMMA CheckedGood ==
  ASSUME NEW s, NEW R, Good(s, R), NEW t, t = checkSizes(s)
  PROVE  Good(t, R) /\ t.unswept = s.unswept
<1>1. CASE nuse(s) < size(s) \div 4
  <2>1. PICK n : n = Len(s.hash)
    OBVIOUS
  <2>2. n \in Nat
    BY <2>1, GoodChains
  <2>3. nuse(s) \in Nat
    <3>1. {o \in Objects : s.color[o] # "free"} \in SUBSET Objects
      OBVIOUS
    <3>2. IsFiniteSet({o \in Objects : s.color[o] # "free"})
      BY <3>1, StringAssumption, FS_Subset
    <3>3. QED
      BY <3>2, FS_CardinalityType DEF nuse
  <2>4. n \div 4 > 0
    <3>1. PICK a, u : a = n \div 4 /\ u = nuse(s)
      OBVIOUS
    <3>2. a \in Int /\ u \in Nat
      BY <2>2, <2>3, <3>1
    <3>3. u < a
      BY <1>1, <2>1, <3>1 DEF size
    <3>4. QED
      BY <3>1, <3>2, <3>3
  <2>5. n \div 2 \in Nat \ {0}
    BY <2>2, <2>4
  <2>6. t = luaS_resize(s, n \div 2)
    BY <1>1, <2>1 DEF checkSizes, size
  <2>7. Good(t, R) /\ SameStrings(s, t)
    BY <2>5, <2>6, ResizeGood
  <2>8. QED
    BY <2>7 DEF SameStrings
<1>2. CASE ~ (nuse(s) < size(s) \div 4)
  BY <1>2 DEF checkSizes
<1>3. QED
  BY <1>1, <1>2

LEMMA InvHolds == StrInit => StrInv
<1> SUFFICES ASSUME StrInit PROVE StrInv
  OBVIOUS
<1>1. PICK n \in Sizes : g = luaS_init(n)
  BY DEF StrInit
<1>2. n \in Nat \ {0}
  BY StringAssumption
<1>3. Good(g, {})
  BY <1>1, <1>2, StartGood
<1>4. QED
  BY <1>3 DEF StrInit, StrInv

LEMMA NewlstrKeeps ==
  ASSUME StrInv, NEW c \in Contents, NEW growing, NEW creating, luaS_newlstr(c, growing, creating)
  PROVE  StrInv'
<1>1. PICK s, r : s = g /\ r = internshrstr(g, c, growing, creating)
  OBVIOUS
<1>2. Good(s, held) /\ Room(s) /\ r = internshrstr(s, c, growing, creating)
  BY <1>1, Zenon DEF StrInv, luaS_newlstr
<1>3. Good(r.s, held \cup {r.o})
  BY <1>2, InternGood
<1>4. g' = r.s /\ held' = held \cup {r.o}
  BY <1>1, Zenon DEF luaS_newlstr
<1>5. QED
  BY <1>3, <1>4 DEF StrInv

LEMMA NewKeeps ==
  ASSUME StrInv, NEW row \in Rows, NEW c \in Contents, NEW growing, NEW creating, luaS_new(row, c, growing, creating)
  PROVE  StrInv'
<1>1. PICK s, R, list, hit, m, r :
        /\ s = g /\ R = held /\ list = g.cache[row]
        /\ hit = SelectInSeq(g.cache[row], LAMBDA o : g.content[o] = c)
        /\ m = moved(g, row) /\ r = internshrstr(moved(g, row), c, growing, creating)
  OBVIOUS
<1>2. Good(s, R) /\ s \in States /\ CacheKept(s)
  BY <1>1 DEF StrInv, Good
<1>3. CASE hit # 0
  <2>1. held' = R \cup {list[hit]} /\ g' = s
    BY <1>1, <1>3, Zenon DEF luaS_new
  <2>2. list \in [1 .. 2 -> Objects]
    BY <1>1, <1>2 DEF States
  <2>3. list \in Seq(Objects) /\ DOMAIN list = 1 .. 2
    <3>1. PICK n : n = 2
      OBVIOUS
    <3>2. n \in Nat /\ list \in [1 .. n -> Objects]
      BY <2>2, <3>1
    <3>3. list \in Seq(Objects)
      BY <3>2
    <3>4. QED
      BY <2>2, <3>3
  <2>4. hit \in 1 .. 2
    <3>1. PICK C : C = s.content
      OBVIOUS
    <3>2. Finds(list, C, c, hit)
      BY <1>1, <3>1 DEF Finds
    <3>3. hit # 0 => hit \in DOMAIN list /\ C[list[hit]] = c
      BY <2>3, <3>2, Found
    <3>4. QED
      BY <1>3, <2>3, <3>3
  <2>5. list[hit] \in Alive(s)
    BY <1>1, <1>2, <2>4 DEF CacheKept
  <2>6. Good(s, R \cup {list[hit]})
    BY <1>2, <2>5 DEF Good
  <2>7. QED
    BY <2>1, <2>6 DEF StrInv
<1>4. CASE hit = 0
  <2>1. Room(s) /\ g' = [r.s EXCEPT !.cache[row][1] = r.o] /\ held' = R \cup {r.o}
    BY <1>1, <1>4, Zenon DEF luaS_new
  <2>2. Good(m, R) /\ Fewer(s, m)
    BY <1>1, <1>2, MovedGood
  <2>3. Room(m)
    BY <2>1, <2>2, FewerRoom
  <2>4. Good(r.s, held \cup {r.o})
    <3>1. Good(m, held) /\ r = internshrstr(m, c, growing, creating)
      BY <1>1, <2>2
    <3>2. QED
      BY <2>3, <3>1, InternGood
  <2>5. PICK u, o, Q : u = r.s /\ o = r.o /\ Q = R \cup {r.o}
    OBVIOUS
  <2>6. Good(u, Q) /\ u \in States /\ CacheKept(u) /\ o \in Alive(u)
    BY <1>1, <2>4, <2>5 DEF Good
  <2>7. PICK K : K = [u.cache EXCEPT ![row][1] = o]
    OBVIOUS
  <2>8. K \in [Rows -> [1 .. 2 -> Objects]] /\ \A i \in Rows : \A j \in 1 .. 2 : K[i][j] \in Alive(u)
    <3>1. u.cache \in [Rows -> [1 .. 2 -> Objects]] /\ o \in Objects
      BY <2>6 DEF States, Alive
    <3>2. ASSUME NEW i \in Rows, NEW j \in 1 .. 2 PROVE K[i][j] \in Alive(u)
      <4>1. K[i][j] = o \/ K[i][j] = u.cache[i][j]
        BY <2>7, <3>1
      <4>2. QED
        BY <2>6, <4>1 DEF CacheKept
    <3>3. K \in [Rows -> [1 .. 2 -> Objects]]
      BY <2>7, <3>1
    <3>4. QED
      BY <3>2, <3>3
  <2>9. PICK t : t = [u EXCEPT !.cache = K]
    OBVIOUS
  <2>10. Good(t, Q)
    BY <2>6, <2>8, <2>9, CacheGood
  <2>11. g' = t
    BY <2>1, <2>5, <2>7, <2>9
  <2>12. QED
    BY <2>1, <2>5, <2>10, <2>11 DEF StrInv
<1>5. QED
  BY <1>3, <1>4

LEMMA NewFailsKeeps ==
  ASSUME StrInv, NEW row \in Rows, NEW c, luaS_new_fails(row, c)
  PROVE  StrInv'
<1>1. PICK s, m, t : s = g /\ m = moved(g, row) /\ t = luaC_fullgc(moved(g, row))
  OBVIOUS
<1>2. Good(s, held)
  BY <1>1 DEF StrInv
<1>3. Good(m, held)
  BY <1>1, <1>2, MovedGood
<1>4. t = luaC_fullgc(m)
  BY <1>1
<1>5. Good(t, held)
  BY <1>3, <1>4, FullGood
<1>6. g' = t /\ held' = held
  BY <1>1, Zenon DEF luaS_new_fails
<1>7. QED
  BY <1>5, <1>6 DEF StrInv

LEMMA ProgramKeeps ==
  ASSUME StrInv, NEW o \in Objects, drop(o) \/ mark(o) \/ sweepstep(o)
  PROVE  StrInv'
<1>1. PICK s, R : s = g /\ R = held
  OBVIOUS
<1>2. Good(s, R) /\ s \in States /\ Hued(s)
  BY <1>1 DEF StrInv, Good
<1>3. CASE drop(o)
  <2>1. g' = s /\ held' = R \ {o}
    BY <1>1, <1>3 DEF drop
  <2>2. Good(s, R \ {o})
    BY <1>2 DEF Good
  <2>3. QED
    BY <2>1, <2>2 DEF StrInv
<1>4. CASE mark(o)
  <2>1. PICK t : t = [s EXCEPT !.color[o] = "black"]
    OBVIOUS
  <2>2. g' = t /\ held' = R /\ s.gcstate = "propagate" /\ s.color[o] = "white"
    BY <1>1, <1>4, <2>1 DEF mark
  <2>3. Good(t, R)
    BY <1>2, <2>1, <2>2, MarkGood
  <2>4. QED
    BY <2>2, <2>3 DEF StrInv
<1>5. CASE sweepstep(o)
  <2>1. PICK t : t = sweep(s, o)
    OBVIOUS
  <2>2. g' = t /\ held' = R /\ o \in s.unswept
    BY <1>1, <1>5, <2>1 DEF sweepstep
  <2>3. s.gcstate = "sweep"
    BY <1>2, <2>2 DEF Hued, States
  <2>4. Good(t, R)
    BY <1>2, <2>1, <2>2, <2>3, SweepGood
  <2>5. QED
    BY <2>2, <2>4 DEF StrInv
<1>6. QED
  BY <1>3, <1>4, <1>5

LEMMA CollectorKeeps ==
  ASSUME StrInv, endmark \/ endsweep
  PROVE  StrInv'
<1>1. PICK s : s = g
  OBVIOUS
<1>2. Good(s, held) /\ Hued(s)
  BY <1>1 DEF StrInv, Good
<1>3. CASE endmark
  <2>1. PICK t : t = atomic(s, held)
    OBVIOUS
  <2>2. g' = t /\ held' = held /\ s.gcstate = "propagate"
    BY <1>1, <1>3, <2>1 DEF endmark
  <2>3. NoneDead(s)
    BY <1>2, <2>2 DEF Hued, NoneDead
  <2>4. Good(t, held)
    BY <1>2, <2>1, <2>3, AtomicGood
  <2>5. QED
    BY <2>2, <2>4 DEF StrInv
<1>4. CASE endsweep
  <2>1. PICK d, t : d = checkSizes(s) /\ t = [checkSizes(s) EXCEPT !.gcstate = "propagate"]
    OBVIOUS
  <2>2. g' = t /\ held' = held /\ s.unswept = {}
    BY <1>1, <1>4, <2>1 DEF endsweep
  <2>3. Good(d, held) /\ d.unswept = {}
    BY <1>2, <2>1, <2>2, CheckedGood
  <2>4. t = [d EXCEPT !.gcstate = "propagate"]
    BY <2>1
  <2>5. Good(t, held)
    BY <2>3, <2>4, EndedGood
  <2>6. QED
    BY <2>2, <2>5 DEF StrInv
<1>5. QED
  BY <1>3, <1>4

LEMMA InvKept == StrInv /\ [StrNext]_strvars => StrInv'
<1> SUFFICES ASSUME StrInv, [StrNext]_strvars PROVE StrInv'
  OBVIOUS
<1>1. ASSUME NEW c \in DOMAIN Hash, NEW growing \in BOOLEAN, NEW creating \in BOOLEAN,
             \/ luaS_newlstr(c, growing, creating)
             \/ \E row \in Rows : luaS_new(row, c, growing, creating)
      PROVE  StrInv'
  <2>1. c \in Contents
    BY DEF Contents
  <2>2. QED
    BY <1>1, <2>1, NewlstrKeeps, NewKeeps
<1>2. ASSUME NEW row \in Rows, NEW c \in DOMAIN Hash, luaS_new_fails(row, c) PROVE StrInv'
  BY <1>2, NewFailsKeeps
<1>3. ASSUME NEW o \in Objects, drop(o) \/ mark(o) \/ sweepstep(o) PROVE StrInv'
  BY <1>3, ProgramKeeps
<1>4. CASE endmark \/ endsweep
  BY <1>4, CollectorKeeps
<1>5. CASE UNCHANGED strvars
  BY <1>5 DEF strvars, StrInv
<1>6. QED
  BY <1>1, <1>2, <1>3, <1>4, <1>5 DEF StrNext

LEMMA InvIsEnough == StrInv => OneStringEach
<1> SUFFICES ASSUME StrInv PROVE OneStringEach
  OBVIOUS
<1>1. PICK s, R, n : s = g /\ R = held /\ n = Len(g.hash)
  OBVIOUS
<1>2. Good(s, R) /\ s \in States /\ Single(s) /\ Hued(s) /\ CacheKept(s) /\ R \subseteq Alive(s)
  BY <1>1 DEF StrInv, Good
<1>3. n \in Nat \ {0} /\ Chains(s.hash, n, InUse(s), s.content)
  BY <1>1, <1>2, GoodChains
<1>4. ASSUME NEW o \in Objects, NEW p \in Objects, Exists(o), g.content[o] = g.content[p] PROVE o = p
  <2>1. o \in InUse(s) /\ s.content[o] \in Contents /\ s.content[p] = s.content[o]
    BY <1>1, <1>2, <1>4 DEF Exists, InUse, Single
  <2>2. p \in InUse(s)
    BY <1>2, <2>1 DEF Single
  <2>3. QED
    BY <1>2, <2>1, <2>2 DEF Single
<1>5. ASSUME NEW i \in 1 .. size(g)
      PROVE  /\ ToSet(g.hash[i]) = {o \in Objects : Exists(o) /\ position(g, o, size(g)) = i}
             /\ IsInjective(g.hash[i])
  <2>1. i \in 1 .. n /\ size(g) = n
    BY <1>1 DEF size
  <2>2. Lists(g.hash[i], ChainOf(InUse(s), s.content, n, i), Objects)
    BY <1>1, <1>3, <2>1 DEF Chains
  <2>3. \A o \in Objects : position(g, o, n) = At(s.content, o, n)
    BY <1>1, PositionIs
  <2>4. {o \in Objects : Exists(o) /\ position(g, o, n) = i} = ChainOf(InUse(s), s.content, n, i)
    BY <1>1, <2>3 DEF ChainOf, InUse, Exists
  <2>5. QED
    BY <2>1, <2>2, <2>4 DEF Lists
<1>6. ASSUME NEW o \in Kept PROVE g.color[o] \in {"white", "black"}
  <2>1. o \in held \/ o = msg \/ \E r \in Rows : o \in ToSet(g.cache[r])
    BY DEF Kept
  <2>2. CASE o \in held
    BY <1>1, <1>2, <2>2 DEF Alive
  <2>3. CASE o = msg
    BY <1>1, <1>2, <2>3 DEF Hued
  <2>4. CASE \E r \in Rows : o \in ToSet(g.cache[r])
    <3>1. PICK r \in Rows : o \in ToSet(g.cache[r])
      BY <2>4
    <3>2. DOMAIN g.cache[r] = 1 .. 2
      BY <1>1, <1>2 DEF States
    <3>3. PICK j \in 1 .. 2 : o = s.cache[r][j]
      BY <1>1, <3>1, <3>2 DEF ToSet
    <3>4. QED
      BY <1>1, <1>2, <3>3 DEF CacheKept, Alive
  <2>5. QED
    BY <2>1, <2>2, <2>3, <2>4
<1>7. QED
  BY <1>4, <1>5, <1>6 DEF OneStringEach

\* Equal short strings are one object, however many contents, hashes, rows of the cache and
\* places for strings there are: the collector, an emergency in the middle of a creation, a
\* resizing and the cache never let a second object with the same content come to be, lose
\* a string from its chain, or free what the program holds or the cache may give out.
THEOREM OneObjectEach == StrSpec => []OneStringEach
<1>1. StrSpec => []StrInv
  BY InvHolds, InvKept, PTL DEF StrSpec
<1>2. QED
  BY <1>1, InvIsEnough, PTL
=============================================================================
