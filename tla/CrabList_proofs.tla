--------------------------- MODULE CrabList_proofs ---------------------------
(* The lists of crab.c: each has the words of the file whose first character *)
(* has its hash value, longer words first, so that the first that matches is *)
(* the longest, for any file of whole lines, characters and messages.        *)
EXTENDS CrabList, Crab_proofs

-----------------------------------------------------------------------------
(* Lists of words                                                            *)

Word == Seq(WideChars) \ {<<>>}

\* No word is longer than one before it.
Sorted(l) == \A i, j \in 1 .. Len(l) : i < j => Len(l[j]) <= Len(l[i])
ListOf(l, W) == l \in Seq(Word) /\ Sorted(l) /\ ToSet(l) = W
HashedTo(W, h) == {w \in W : _hash(w[1]) = h}

\* The first place of I, 0 if there is none.
FirstOf(I) == IF I # {} THEN Min(I) ELSE 0

LEMMA FirstIs ==
  ASSUME NEW n \in Nat, NEW I \in SUBSET (1 .. n)
  PROVE  \/ I = {} /\ FirstOf(I) = 0
         \/ FirstOf(I) \in I /\ FirstOf(I) \in 1 .. n /\ \A i \in I : FirstOf(I) <= i
<1>1. CASE I = {}
  BY <1>1 DEF FirstOf
<1>2. CASE I # {}
  <2>1. I \in SUBSET Nat
    OBVIOUS
  <2>2. Min(I) \in I /\ \A i \in I : Min(I) <= i
    BY <1>2, <2>1, Least
  <2>3. FirstOf(I) = Min(I)
    BY <1>2 DEF FirstOf
  <2>4. QED
    BY <2>2, <2>3
<1>3. QED
  BY <1>1, <1>2

LEMMA Joined ==
  ASSUME NEW S, NEW a \in Seq(S), NEW b \in Seq(S)
  PROVE  /\ a \o b \in Seq(S) /\ Len(a \o b) = Len(a) + Len(b)
         /\ \A i \in 1 .. Len(a) : (a \o b)[i] = a[i]
         /\ \A i \in 1 .. Len(b) : (a \o b)[Len(a) + i] = b[i]
OBVIOUS

\* s with x at a place of its own.
With(s, at, x, i) == IF i < at THEN s[i] ELSE IF i = at THEN x ELSE s[i - 1]

LEMMA InsertAtIs ==
  ASSUME NEW S, NEW s \in Seq(S), NEW x \in S, NEW at \in 1 .. Len(s) + 1, NEW t, t = InsertAt(s, at, x)
  PROVE  t \in Seq(S) /\ Len(t) = Len(s) + 1 /\ \A i \in 1 .. Len(t) : t[i] = With(s, at, x, i)
<1>1. PICK n : n = Len(s)
  OBVIOUS
<1>2. n \in Nat /\ at \in Nat /\ at >= 1 /\ at <= n + 1
  BY <1>1
<1>3. PICK a, b, c : a = SubSeq(s, 1, at - 1) /\ b = <<x>> /\ c = SubSeq(s, at, n)
  OBVIOUS
<1>4. a \in Seq(S) /\ Len(a) = at - 1 /\ \A i \in 1 .. at - 1 : a[i] = s[i]
  BY <1>1, <1>2, <1>3
<1>5. c \in Seq(S) /\ Len(c) = n - at + 1 /\ \A i \in 1 .. n - at + 1 : c[i] = s[at + i - 1]
  BY <1>1, <1>2, <1>3
<1>6. b \in Seq(S) /\ Len(b) = 1 /\ b[1] = x
  BY <1>3
<1>7. PICK d : d = a \o b
  OBVIOUS
<1>8. /\ d \in Seq(S) /\ Len(d) = at
      /\ \A i \in 1 .. at : d[i] = IF i < at THEN s[i] ELSE x
  <2>1. /\ d \in Seq(S) /\ Len(d) = Len(a) + Len(b)
        /\ \A i \in 1 .. Len(a) : d[i] = a[i]
        /\ \A i \in 1 .. Len(b) : d[Len(a) + i] = b[i]
    <3>1. a \in Seq(S) /\ b \in Seq(S)
      BY <1>4, <1>6
    <3>2. /\ a \o b \in Seq(S) /\ Len(a \o b) = Len(a) + Len(b)
          /\ \A i \in 1 .. Len(a) : (a \o b)[i] = a[i]
          /\ \A i \in 1 .. Len(b) : (a \o b)[Len(a) + i] = b[i]
      BY <3>1, Joined
    <3>3. QED
      BY <1>7, <3>2, Zenon
  <2>2. Len(d) = at
    BY <1>2, <1>4, <1>6, <2>1
  <2>3. ASSUME NEW i \in 1 .. at PROVE d[i] = IF i < at THEN s[i] ELSE x
    <3>1. CASE i < at
      <4>1. i \in 1 .. at - 1
        BY <1>2, <3>1
      <4>2. d[i] = a[i]
        BY <1>4, <1>6, <1>7, <4>1
      <4>3. QED
        BY <1>4, <3>1, <4>1, <4>2
    <3>2. CASE i = at
      <4>1. i = Len(a) + 1 /\ Len(a) \in Nat
        BY <1>2, <1>4, <3>2
      <4>2. d[i] = b[1]
        BY <1>6, <2>1, <4>1
      <4>3. QED
        BY <1>2, <1>6, <3>2, <4>2
    <3>3. QED
      BY <1>2, <3>1, <3>2
  <2>4. QED
    BY <2>1, <2>2, <2>3
<1>9. t = d \o c
  BY <1>1, <1>3, <1>7 DEF InsertAt
<1>10. t \in Seq(S) /\ Len(t) = n + 1
  BY <1>2, <1>5, <1>8, <1>9
<1>11. ASSUME NEW i \in 1 .. n + 1 PROVE t[i] = With(s, at, x, i)
  <2>1. /\ \A k \in 1 .. at : t[k] = d[k]
        /\ \A k \in 1 .. n - at + 1 : t[at + k] = c[k]
    <3>1. Len(d) = at /\ Len(c) = n - at + 1 /\ d \in Seq(S) /\ c \in Seq(S)
      BY <1>5, <1>8
    <3>2. /\ \A k \in 1 .. Len(d) : (d \o c)[k] = d[k]
          /\ \A k \in 1 .. Len(c) : (d \o c)[Len(d) + k] = c[k]
      BY <3>1, Joined
    <3>3. QED
      BY <1>9, <3>1, <3>2, Zenon
  <2>2. CASE i <= at
    <3>1. i \in 1 .. at
      BY <1>2, <2>2
    <3>2. t[i] = IF i < at THEN s[i] ELSE x
      BY <1>8, <2>1, <3>1
    <3>3. QED
      BY <1>2, <2>2, <3>2 DEF With
  <2>3. CASE ~ (i <= at)
    <3>1. i - at \in 1 .. n - at + 1 /\ at + (i - at) - 1 = i - 1 /\ ~ (i < at) /\ i # at
      BY <1>2, <2>3
    <3>2. c[i - at] = s[i - 1]
      BY <1>5, <3>1
    <3>3. t[i] = c[i - at]
      <4>1. at + (i - at) = i
        BY <1>2
      <4>2. t[at + (i - at)] = c[i - at]
        BY <2>1, <3>1
      <4>3. QED
        BY <4>1, <4>2
    <3>4. QED
      BY <3>1, <3>2, <3>3 DEF With
  <2>4. QED
    BY <2>2, <2>3
<1>12. QED
  BY <1>1, <1>10, <1>11

\* A word goes before the first that is shorter.
Shorter(l, w) == {i \in 1 .. Len(l) : Len(l[i]) < Len(w)}
PlaceOf(l, w) == IF FirstOf(Shorter(l, w)) = 0 THEN Len(l) + 1 ELSE FirstOf(Shorter(l, w))

LEMMA PlaceIs ==
  ASSUME NEW l \in Seq(Word), Sorted(l), NEW w \in Word
  PROVE  /\ PlaceOf(l, w) \in 1 .. Len(l) + 1
         /\ \A i \in 1 .. Len(l) : IF i < PlaceOf(l, w) THEN Len(l[i]) >= Len(w) ELSE Len(l[i]) <= Len(w)
<1>1. PICK n, I, f, at : n = Len(l) /\ I = Shorter(l, w) /\ f = FirstOf(I) /\ at = PlaceOf(l, w)
  OBVIOUS
<1>2. n \in Nat /\ I \in SUBSET (1 .. n) /\ at = IF f = 0 THEN n + 1 ELSE f
  BY <1>1 DEF Shorter, PlaceOf
<1>3. \A i \in 1 .. n : l[i] \in Word /\ Len(l[i]) \in Nat /\ (i \in I <=> Len(l[i]) < Len(w))
  BY <1>1 DEF Shorter, Word
<1>4. Len(w) \in Nat
  BY DEF Word
<1>5. \/ I = {} /\ f = 0
      \/ f \in I /\ f \in 1 .. n /\ \A i \in I : f <= i
  BY <1>1, <1>2, FirstIs
<1>6. CASE f = 0
  <2>1. I = {} /\ at = n + 1
    BY <1>2, <1>5, <1>6
  <2>2. \A i \in 1 .. n : Len(l[i]) >= Len(w) /\ i < at
    BY <1>2, <1>3, <1>4, <2>1
  <2>3. n + 1 \in 1 .. n + 1
    BY <1>2
  <2>4. QED
    BY <1>1, <2>1, <2>2, <2>3
<1>7. CASE f # 0
  <2>1. at = f /\ f \in I /\ f \in 1 .. n /\ \A i \in I : f <= i
    BY <1>2, <1>5, <1>7
  <2>2. ASSUME NEW i \in 1 .. n PROVE IF i < at THEN Len(l[i]) >= Len(w) ELSE Len(l[i]) <= Len(w)
    <3>1. CASE i < at
      <4>1. i \notin I
        BY <1>2, <2>1, <3>1
      <4>2. QED
        BY <1>3, <1>4, <3>1, <4>1
    <3>2. CASE ~ (i < at)
      <4>1. Len(l[f]) < Len(w) /\ (i = f \/ f < i)
        BY <1>2, <1>3, <2>1, <3>2
      <4>2. Len(l[i]) <= Len(l[f])
        BY <1>1, <1>3, <2>1, <4>1 DEF Sorted
      <4>3. QED
        BY <1>3, <1>4, <2>1, <3>2, <4>1, <4>2
    <3>3. QED
      BY <3>1, <3>2
  <2>3. at \in 1 .. n + 1
    BY <1>2, <2>1
  <2>4. QED
    BY <1>1, <2>2, <2>3
<1>8. QED
  BY <1>6, <1>7

\* There it keeps the list a list, with one word more.
LEMMA OneMoreWord ==
  ASSUME NEW W, NEW l, ListOf(l, W), NEW w \in Word, NEW t, t = InsertAt(l, PlaceOf(l, w), w)
  PROVE  ListOf(t, W \cup {w})
<1>1. PICK n, at : n = Len(l) /\ at = PlaceOf(l, w)
  OBVIOUS
<1>2. l \in Seq(Word) /\ Sorted(l) /\ ToSet(l) = W
  BY DEF ListOf
<1>3. /\ at \in 1 .. n + 1
      /\ \A i \in 1 .. n : IF i < at THEN Len(l[i]) >= Len(w) ELSE Len(l[i]) <= Len(w)
  BY <1>1, <1>2, PlaceIs
<1>4. n \in Nat /\ Len(w) \in Nat /\ \A i \in 1 .. n : l[i] \in Word /\ Len(l[i]) \in Nat
  BY <1>1, <1>2 DEF Word
<1>5. t \in Seq(Word) /\ Len(t) = n + 1 /\ \A i \in 1 .. n + 1 : t[i] = With(l, at, w, i)
  BY <1>1, <1>2, <1>3, InsertAtIs
<1>6. ASSUME NEW i \in 1 .. n + 1, NEW j \in 1 .. n + 1, i < j PROVE Len(t[j]) <= Len(t[i])
  <2>1. t[i] = With(l, at, w, i) /\ t[j] = With(l, at, w, j)
    BY <1>5
  <2>2. \A a, b \in 1 .. n : a < b => Len(l[b]) <= Len(l[a])
    BY <1>1, <1>2 DEF Sorted
  <2>3. CASE j < at
    <3>1. i < at /\ i \in 1 .. n /\ j \in 1 .. n
      BY <1>3, <1>4, <1>6, <2>3
    <3>2. t[i] = l[i] /\ t[j] = l[j]
      BY <2>1, <2>3, <3>1 DEF With
    <3>3. QED
      BY <1>6, <2>2, <3>1, <3>2
  <2>4. CASE j = at
    <3>1. i < at /\ i \in 1 .. n /\ ~ (j < at)
      BY <1>3, <1>4, <1>6, <2>4
    <3>2. t[i] = l[i] /\ t[j] = w
      BY <2>1, <2>4, <3>1 DEF With
    <3>3. QED
      BY <1>3, <3>1, <3>2
  <2>5. CASE j > at
    <3>1. j - 1 \in 1 .. n /\ ~ (j < at) /\ j # at /\ ~ (j - 1 < at)
      BY <1>3, <1>4, <1>6, <2>5
    <3>2. t[j] = l[j - 1] /\ Len(l[j - 1]) <= Len(w)
      BY <1>3, <2>1, <3>1 DEF With
    <3>3. CASE i < at
      <4>1. i \in 1 .. n /\ i < j - 1
        BY <1>3, <1>4, <2>5, <3>1, <3>3
      <4>2. t[i] = l[i]
        BY <2>1, <3>3 DEF With
      <4>3. QED
        BY <2>2, <3>1, <3>2, <4>1, <4>2
    <3>4. CASE i = at
      <4>1. t[i] = w
        BY <1>3, <2>1, <3>4 DEF With
      <4>2. QED
        BY <3>2, <4>1
    <3>5. CASE i > at
      <4>1. i - 1 \in 1 .. n /\ ~ (i < at) /\ i # at /\ i - 1 < j - 1
        BY <1>3, <1>4, <1>6, <3>5
      <4>2. t[i] = l[i - 1]
        BY <2>1, <4>1 DEF With
      <4>3. QED
        BY <2>2, <3>1, <3>2, <4>1, <4>2
    <3>6. QED
      BY <1>3, <3>3, <3>4, <3>5
  <2>6. QED
    BY <1>3, <2>3, <2>4, <2>5
<1>7. Sorted(t)
  BY <1>5, <1>6 DEF Sorted
<1>8. DOMAIN l = 1 .. n /\ DOMAIN t = 1 .. n + 1
  BY <1>1, <1>2, <1>5
<1>9. ASSUME NEW i \in 1 .. n + 1 PROVE t[i] \in W \cup {w}
  <2>1. t[i] = With(l, at, w, i)
    BY <1>5
  <2>2. \A a \in 1 .. n : l[a] \in W
    BY <1>2, <1>8 DEF ToSet
  <2>3. CASE i < at
    <3>1. i \in 1 .. n
      BY <1>3, <1>4, <2>3
    <3>2. QED
      BY <2>1, <2>2, <2>3, <3>1 DEF With
  <2>4. CASE i = at
    BY <1>3, <2>1, <2>4 DEF With
  <2>5. CASE i > at
    <3>1. i - 1 \in 1 .. n /\ ~ (i < at) /\ i # at
      BY <1>3, <1>4, <2>5
    <3>2. QED
      BY <2>1, <2>2, <3>1 DEF With
  <2>6. QED
    BY <1>3, <2>3, <2>4, <2>5
<1>10. ASSUME NEW v \in W \cup {w} PROVE \E i \in 1 .. n + 1 : t[i] = v
  <2>1. CASE v = w
    <3>1. With(l, at, w, at) = w
      BY <1>3 DEF With
    <3>2. QED
      BY <1>3, <1>5, <2>1, <3>1
  <2>2. CASE v \in W
    <3>1. PICK a \in 1 .. n : l[a] = v
      BY <1>2, <1>8, <2>2 DEF ToSet
    <3>2. CASE a < at
      <4>1. a \in 1 .. n + 1 /\ With(l, at, w, a) = v
        BY <1>4, <3>1, <3>2 DEF With
      <4>2. QED
        BY <1>5, <4>1
    <3>3. CASE ~ (a < at)
      <4>1. a + 1 \in 1 .. n + 1 /\ ~ (a + 1 < at) /\ a + 1 # at /\ (a + 1) - 1 = a
        BY <1>3, <1>4, <3>3
      <4>2. With(l, at, w, a + 1) = v
        BY <3>1, <4>1 DEF With
      <4>3. QED
        BY <1>5, <4>1, <4>2
    <3>4. QED
      BY <3>2, <3>3
  <2>3. QED
    BY <2>1, <2>2
<1>11. ToSet(t) = W \cup {w}
  BY <1>8, <1>9, <1>10 DEF ToSet
<1>12. QED
  BY <1>5, <1>7, <1>11 DEF ListOf

-----------------------------------------------------------------------------
(* The lists hold the words of the file                                      *)

ListsHold(F, l) == DOMAIN l = Hashes /\ \A h \in Hashes : ListOf(l[h], HashedTo(F, h))
ListInv == file \in Seq(Lines \cup {NotUtf8}) /\ ListsHold(Given, words)

LEMMA GivenWords ==
  ASSUME ListInv
  PROVE  Given \subseteq Word
<1>1. Lines \subseteq Seq(WideChars)
  BY ListAssumption
<1>2. ToSet(file) \subseteq Lines \cup {NotUtf8}
  BY DEF ListInv, ToSet
<1>3. QED
  BY <1>1, <1>2 DEF Given, Word

LEMMA OneMoreLine ==
  ASSUME NEW S, NEW s \in Seq(S), NEW x \in S
  PROVE  ToSet(Append(s, x)) = ToSet(s) \cup {x}
<1>1. PICK t, n : t = Append(s, x) /\ n = Len(s)
  OBVIOUS
<1>2. /\ n \in Nat /\ DOMAIN s = 1 .. n /\ DOMAIN t = 1 .. n + 1
      /\ t[n + 1] = x /\ \A i \in 1 .. n : t[i] = s[i]
  BY <1>1
<1>3. \A y \in ToSet(t) : y \in ToSet(s) \cup {x}
  <2>1. \A i \in 1 .. n + 1 : i \in 1 .. n \/ i = n + 1
    BY <1>2
  <2>2. QED
    BY <1>2, <2>1 DEF ToSet
<1>4. \A y \in ToSet(s) \cup {x} : y \in ToSet(t)
  <2>1. n + 1 \in 1 .. n + 1 /\ \A i \in 1 .. n : i \in 1 .. n + 1
    BY <1>2
  <2>2. QED
    BY <1>2, <2>1 DEF ToSet
<1>5. QED
  BY <1>1, <1>3, <1>4

LEMMA HashIn ==
  ASSUME NEW w \in Word
  PROVE  _hash(w[1]) \in Hashes
<1>1. w[1] \in WideChars
  BY DEF Word
<1>2. QED
  BY <1>1, Zenon DEF Hashes

LEMMA AddWordIs ==
  ASSUME NEW lists, NEW w, w # <<>>, NEW h, h = _hash(w[1])
  PROVE  add_word(lists, w) = [lists EXCEPT ![h] = InsertAt(lists[h], PlaceOf(lists[h], w), w)]
<1>1. SelectInSeq(lists[h], LAMBDA v : Len(v) < Len(w)) = FirstOf(Shorter(lists[h], w))
  BY DEF SelectInSeq, FirstOf, Shorter
<1>2. QED
  BY <1>1 DEF add_word, PlaceOf

LEMMA AddWordHolds ==
  ASSUME NEW F, NEW lists, ListsHold(F, lists), NEW w \in Word
  PROVE  ListsHold(F \cup {w}, add_word(lists, w))
<1>1. PICK h : h = _hash(w[1])
  OBVIOUS
<1>2. PICK l, t : l = lists[h] /\ t = InsertAt(l, PlaceOf(l, w), w)
  OBVIOUS
<1>3. h \in Hashes
  BY <1>1, HashIn
<1>4. w # <<>>
  BY DEF Word
<1>5. add_word(lists, w) = [lists EXCEPT ![h] = t]
  BY <1>1, <1>2, <1>4, AddWordIs
<1>6. ListOf(l, HashedTo(F, h))
  BY <1>2, <1>3 DEF ListsHold
<1>7. ListOf(t, HashedTo(F, h) \cup {w})
  BY <1>2, <1>6, OneMoreWord
<1>8. ASSUME NEW k \in Hashes
      PROVE  ListOf([lists EXCEPT ![h] = t][k], HashedTo(F \cup {w}, k))
  <2>1. CASE k = h
    <3>1. HashedTo(F \cup {w}, k) = HashedTo(F, h) \cup {w}
      BY <1>1, <2>1 DEF HashedTo
    <3>2. [lists EXCEPT ![h] = t][k] = t
      BY <1>3, <2>1 DEF ListsHold
    <3>3. QED
      BY <1>7, <3>1, <3>2, Zenon
  <2>2. CASE k # h
    <3>1. HashedTo(F \cup {w}, k) = HashedTo(F, k)
      BY <1>1, <2>2 DEF HashedTo
    <3>2. [lists EXCEPT ![h] = t][k] = lists[k]
      BY <2>2 DEF ListsHold
    <3>3. ListOf(lists[k], HashedTo(F, k))
      BY DEF ListsHold
    <3>4. QED
      BY <3>1, <3>2, <3>3, Zenon
  <2>3. QED
    BY <2>1, <2>2
<1>9. DOMAIN [lists EXCEPT ![h] = t] = Hashes
  BY DEF ListsHold
<1>10. ListsHold(F \cup {w}, [lists EXCEPT ![h] = t])
  BY <1>8, <1>9, Zenon DEF ListsHold
<1>11. QED
  BY <1>5, <1>10, Zenon

LEMMA ListStart ==
  ASSUME ListInit
  PROVE  ListInv
<1>1. Given = {}
  BY DEF ListInit, Given, ToSet
<1>2. file \in Seq(Lines \cup {NotUtf8})
  BY DEF ListInit
<1>3. ASSUME NEW h \in Hashes PROVE ListOf(words[h], HashedTo(Given, h))
  <2>1. words[h] = <<>>
    BY DEF ListInit
  <2>2. HashedTo(Given, h) = {}
    BY <1>1 DEF HashedTo
  <2>3. <<>> \in Seq(Word) /\ Sorted(<<>>) /\ ToSet(<<>>) = {}
    BY DEF Sorted, ToSet
  <2>4. QED
    BY <2>1, <2>2, <2>3, Zenon DEF ListOf
<1>4. DOMAIN words = Hashes
  BY DEF ListInit
<1>5. QED
  BY <1>2, <1>3, <1>4 DEF ListInv, ListsHold

LEMMA ListLine ==
  ASSUME ~ Unended, ListInv, NEW line \in Lines \cup {NotUtf8}, NEW newline \in BOOLEAN, readline(line, newline)
  PROVE  ListInv'
<1>1. newline
  BY DEF readline
<1>2. file \in Seq(Lines \cup {NotUtf8}) /\ ListsHold(Given, words)
  BY DEF ListInv
<1>3. file' = Append(file, line)
  BY DEF readline
<1>4. file' \in Seq(Lines \cup {NotUtf8})
  BY <1>2, <1>3
<1>5. ToSet(file') = ToSet(file) \cup {line}
  BY <1>2, <1>3, OneMoreLine
<1>6. words' = IF line = NotUtf8 THEN words ELSE add_word(words, line)
  BY <1>1 DEF readline, getline
<1>7. CASE line \in {<<>>, NotUtf8}
  <2>1. Given' = Given
    BY <1>5, <1>7 DEF Given
  <2>2. words' = words
    BY <1>6, <1>7 DEF add_word
  <2>3. ListsHold(Given', words')
    BY <1>2, <2>1, <2>2, Zenon
  <2>4. QED
    BY <1>4, <2>3 DEF ListInv
<1>8. CASE line \notin {<<>>, NotUtf8}
  <2>1. Given' = Given \cup {line}
    BY <1>5, <1>8 DEF Given
  <2>2. words' = add_word(words, line)
    BY <1>6, <1>8
  <2>3. line \in Word
    BY <1>8, ListAssumption DEF Word
  <2>4. ListsHold(Given \cup {line}, add_word(words, line))
    BY <1>2, <2>3, AddWordHolds
  <2>5. ListsHold(Given', words')
    BY <2>1, <2>2, <2>4, Zenon
  <2>6. QED
    BY <1>4, <2>5 DEF ListInv
<1>9. QED
  BY <1>7, <1>8

-----------------------------------------------------------------------------
(* The first word that matches is the longest                                *)

LEMMA MemcmpIs ==
  ASSUME NEW msg \in Seq(WideChars), NEW i \in 1 .. Len(msg), NEW w \in Word
  PROVE  memcmp(msg, i, w) <=> Occurs(w, msg, i)
<1>1. PICK n, m, s : n = Len(msg) /\ m = Len(w) /\ s = SubSeq(msg, i, i + Len(w) - 1)
  OBVIOUS
<1>2. n \in Nat /\ m \in Nat \ {0} /\ i \in Nat /\ i >= 1 /\ i <= n
  BY <1>1 DEF Word
<1>3. w \in Seq(WideChars) /\ DOMAIN w = 1 .. m
  BY <1>1 DEF Word
<1>4. CASE i + m - 1 <= n
  <2>1. s \in Seq(WideChars) /\ Len(s) = m /\ \A k \in 1 .. m : s[k] = msg[i + k - 1]
    <3>1. i + m - 1 \in Nat /\ i + m - 1 >= i /\ (i + m - 1) - i + 1 = m
      BY <1>2
    <3>2. QED
      BY <1>1, <1>2, <1>4, <3>1
  <2>2. s = w <=> \A k \in 1 .. m : s[k] = w[k]
    <3>1. ASSUME \A k \in 1 .. m : s[k] = w[k] PROVE s = w
      <4>1. Len(s) = Len(w) /\ \A k \in 1 .. Len(s) : s[k] = w[k]
        BY <1>1, <2>1, <3>1
      <4>2. QED
        BY <1>3, <2>1, <4>1, SeqEqual
    <3>2. QED
      BY <3>1
  <2>3. QED
    BY <1>1, <1>4, <2>1, <2>2 DEF memcmp, Occurs
<1>5. CASE ~ (i + m - 1 <= n)
  BY <1>1, <1>5 DEF memcmp, Occurs
<1>6. QED
  BY <1>4, <1>5

\* The places in list l of the words that are in msg at place i.
Fitting(l, msg, i) == {j \in 1 .. Len(l) : memcmp(msg, i, l[j])}

LEMMA FindIs ==
  ASSUME NEW msg, NEW i, NEW l, l = words[_hash(msg[i])], NEW n, n = FirstOf(Fitting(l, msg, i))
  PROVE  find_word(msg, i) = IF n = 0 THEN <<>> ELSE l[n]
<1>1. SelectInSeq(l, LAMBDA v : memcmp(msg, i, v)) = n
  BY DEF SelectInSeq, FirstOf, Fitting
<1>2. QED
  BY <1>1, Zenon DEF find_word

\* The last character of the word found at place i, 0 if there is none.
FoundTo(msg, i) == IF find_word(msg, i) = <<>> THEN 0 ELSE i + Len(find_word(msg, i)) - 1

LEMMA WordHashed ==
  ASSUME NEW msg \in Seq(WideChars), NEW i \in 1 .. Len(msg), NEW w \in Word, Occurs(w, msg, i)
  PROVE  w[1] = msg[i]
<1>1. i \in Nat /\ 1 \in 1 .. Len(w) /\ i + 1 - 1 = i
  <2>1. Len(w) \in Nat \ {0} /\ Len(msg) \in Nat
    BY DEF Word
  <2>2. QED
    BY <2>1
<1>2. QED
  BY <1>1 DEF Occurs

LEMMA FoundEnding ==
  ASSUME ListInv, NEW msg \in Seq(WideChars), NEW i \in 1 .. Len(msg)
  PROVE  /\ find_word(msg, i) = <<>> \/ find_word(msg, i) \in Word
         /\ Ending(Given, msg, i, FoundTo(msg, i))
<1>1. PICK h, l, m : h = _hash(msg[i]) /\ l = words[h] /\ m = Len(l)
  OBVIOUS
<1>2. PICK I, n, w : I = Fitting(l, msg, i) /\ n = FirstOf(I) /\ w = find_word(msg, i)
  OBVIOUS
<1>3. h \in Hashes
  <2>1. msg[i] \in WideChars
    OBVIOUS
  <2>2. QED
    BY <1>1, <2>1, Zenon DEF Hashes
<1>4. l \in Seq(Word) /\ Sorted(l) /\ ToSet(l) = HashedTo(Given, h)
  BY <1>1, <1>3, Zenon DEF ListInv, ListsHold, ListOf
<1>5. m \in Nat /\ DOMAIN l = 1 .. m /\ \A j \in 1 .. m : l[j] \in Word /\ Len(l[j]) \in Nat \ {0}
  BY <1>1, <1>4 DEF Word
<1>6. i \in Nat /\ i >= 1
  OBVIOUS
<1>7. Given \subseteq Word
  BY GivenWords
<1>8. \A j \in 1 .. m : j \in I <=> Occurs(l[j], msg, i)
  <2>1. \A v \in Word : memcmp(msg, i, v) <=> Occurs(v, msg, i)
    BY MemcmpIs
  <2>2. QED
    BY <1>1, <1>2, <1>5, <2>1 DEF Fitting
<1>9. I \in SUBSET (1 .. m)
  BY <1>1, <1>2 DEF Fitting
<1>10. \/ I = {} /\ n = 0
       \/ n \in I /\ n \in 1 .. m /\ \A j \in I : n <= j
  BY <1>2, <1>5, <1>9, FirstIs
<1>11. w = IF n = 0 THEN <<>> ELSE l[n]
  BY <1>1, <1>2, FindIs
<1>12. ASSUME NEW v \in Given, Occurs(v, msg, i) PROVE \E j \in I : l[j] = v
  <2>1. v[1] = msg[i]
    BY <1>7, <1>12, WordHashed
  <2>2. v \in HashedTo(Given, h)
    BY <1>1, <2>1 DEF HashedTo
  <2>3. PICK j \in 1 .. m : l[j] = v
    BY <1>4, <1>5, <2>2 DEF ToSet
  <2>4. QED
    BY <1>8, <1>12, <2>3
<1>13. \A j \in 1 .. m : l[j] \in Given
  <2>1. \A j \in 1 .. m : l[j] \in HashedTo(Given, h)
    BY <1>4, <1>5 DEF ToSet
  <2>2. QED
    BY <2>1 DEF HashedTo
<1>14. CASE n = 0
  <2>1. I = {} /\ w = <<>>
    BY <1>10, <1>11, <1>14
  <2>2. FoundTo(msg, i) = 0
    BY <1>2, <2>1 DEF FoundTo
  <2>3. \A v \in Given : ~ Occurs(v, msg, i)
    BY <1>12, <2>1
  <2>4. Ending(Given, msg, i, 0)
    BY <2>3 DEF Ending
  <2>5. QED
    BY <1>2, <2>1, <2>2, <2>4, Zenon
<1>15. CASE n # 0
  <2>1. n \in I /\ n \in 1 .. m /\ \A j \in I : n <= j
    BY <1>10, <1>15
  <2>2. w = l[n] /\ w \in Word /\ Len(w) \in Nat \ {0} /\ w \in Given /\ Occurs(w, msg, i)
    BY <1>5, <1>8, <1>11, <1>13, <1>15, <2>1
  <2>3. PICK e : e = i + Len(w) - 1
    OBVIOUS
  <2>4. w # <<>>
    BY <2>2 DEF Word
  <2>5. FoundTo(msg, i) = e
    BY <1>2, <2>3, <2>4 DEF FoundTo
  <2>6. ASSUME NEW v \in Given, Occurs(v, msg, i) PROVE i + Len(v) - 1 <= e
    <3>1. PICK j \in I : l[j] = v
      BY <1>12, <2>6
    <3>2. j \in 1 .. m /\ (n = j \/ n < j)
      BY <1>9, <2>1
    <3>3. Len(v) <= Len(w) /\ Len(v) \in Nat
      BY <1>1, <1>4, <1>5, <2>1, <2>2, <3>1, <3>2 DEF Sorted
    <3>4. QED
      BY <1>6, <2>2, <2>3, <3>3
  <2>7. e \in Nat
    BY <1>6, <2>2, <2>3
  <2>8. Ending(Given, msg, i, e)
    BY <2>2, <2>3, <2>6, <2>7 DEF Ending
  <2>9. QED
    BY <1>2, <2>2, <2>5, <2>8, Zenon
<1>16. QED
  BY <1>14, <1>15

-----------------------------------------------------------------------------
(* The message                                                               *)

\* '_crab' at place i; g is what it returns at another place.
CrabAt(msg, i, g) ==
  IF i > Len(msg) THEN {}
  ELSE LET w == find_word(msg, i)
       IN IF w = <<>> THEN g[i + 1] ELSE i .. i + Len(w) - 1 \cup g[i + Len(w)]
Crabbing(msg, f) == f = [i \in 1 .. Len(msg) + 1 |-> CrabAt(msg, i, f)]

\* e has the ends of the words found.
Finds(msg, e) == e = [i \in 1 .. Len(msg) |-> FoundTo(msg, i)]

LEMMA CrabAtIs ==
  ASSUME ListInv, NEW msg \in Seq(WideChars), NEW e, Finds(msg, e), NEW g, NEW i \in 1 .. Len(msg) + 1
  PROVE  CrabAt(msg, i, g) = SpansAt(Len(msg), e, i, g)
<1>1. PICK n : n = Len(msg)
  OBVIOUS
<1>2. n \in Nat /\ i \in Nat /\ i >= 1 /\ i <= n + 1
  BY <1>1
<1>3. CASE i = n + 1
  <2>1. i > Len(msg)
    BY <1>1, <1>2, <1>3
  <2>2. QED
    BY <1>1, <1>3, <2>1 DEF SpansAt, CrabAt
<1>4. CASE i # n + 1
  <2>1. i \in 1 .. n /\ ~ (i > n)
    BY <1>2, <1>4
  <2>2. PICK w : w = find_word(msg, i)
    OBVIOUS
  <2>3. w = <<>> \/ w \in Word
    BY <1>1, <2>1, <2>2, FoundEnding
  <2>4. e[i] = IF w = <<>> THEN 0 ELSE i + Len(w) - 1
    BY <1>1, <2>1, <2>2 DEF Finds, FoundTo
  <2>5. ~ (i > Len(msg))
    BY <1>1, <2>1, Zenon
  <2>6. CrabAt(msg, i, g) = IF w = <<>> THEN g[i + 1] ELSE i .. i + Len(w) - 1 \cup g[i + Len(w)]
    BY <2>2, <2>5, Zenon DEF CrabAt
  <2>7. CASE w = <<>>
    <3>1. i .. e[i] = {} /\ After(e, i) = i + 1
      BY <1>2, <2>4, <2>7 DEF After
    <3>2. CrabAt(msg, i, g) = g[i + 1]
      BY <2>6, <2>7
    <3>3. QED
      BY <1>1, <1>4, <3>1, <3>2 DEF SpansAt
  <2>8. CASE w # <<>>
    <3>1. Len(w) \in Nat \ {0}
      BY <2>3, <2>8 DEF Word
    <3>2. e[i] = i + Len(w) - 1 /\ e[i] # 0 /\ e[i] + 1 = i + Len(w)
      BY <1>2, <2>4, <2>8, <3>1
    <3>3. After(e, i) = i + Len(w)
      BY <3>2 DEF After
    <3>4. CrabAt(msg, i, g) = i .. e[i] \cup g[After(e, i)]
      BY <2>6, <2>8, <3>2, <3>3, Zenon
    <3>5. QED
      BY <1>1, <1>4, <3>4 DEF SpansAt
  <2>9. QED
    BY <2>7, <2>8
<1>5. QED
  BY <1>3, <1>4

LEMMA CrabIs ==
  ASSUME ListInv, NEW msg \in Seq(WideChars)
  PROVE  _crab(msg) = Starred(Given, msg)
<1>1. PICK n, e, f : /\ n = Len(msg) /\ e = [i \in 1 .. Len(msg) |-> FoundTo(msg, i)]
                     /\ f = CHOOSE g : Crabbing(msg, g)
  OBVIOUS
<1>2. n \in Nat /\ DOMAIN msg = 1 .. n /\ 1 \in 1 .. n + 1
  <2>1. n \in Nat /\ DOMAIN msg = 1 .. n
    BY <1>1
  <2>2. QED
    BY <2>1
<1>3. Finds(msg, e)
  BY <1>1 DEF Finds
<1>4. msg \in Seq(Nat)
  <2>1. WideChars \subseteq Nat
    BY ListAssumption
  <2>2. QED
    BY <2>1, SeqMonotonic
<1>5. Worded(Given)
  BY GivenWords DEF Worded, Word
<1>6. Longests(Given, msg, e)
  <2>1. ASSUME NEW i \in 1 .. Len(msg) PROVE Ending(Given, msg, i, e[i])
    <3>1. e[i] = FoundTo(msg, i)
      BY <1>1
    <3>2. Ending(Given, msg, i, FoundTo(msg, i))
      BY FoundEnding
    <3>3. QED
      BY <3>1, <3>2, Zenon
  <2>2. QED
    BY <2>1 DEF Longests
<1>7. PICK W : W = Given
  OBVIOUS
<1>8. Worded(W) /\ Longests(W, msg, e)
  BY <1>5, <1>6, <1>7, Zenon
<1>9. EndsOf(n, e)
  <2>1. EndsOf(Len(msg), e)
    BY <1>4, <1>8, LongestsEnd
  <2>2. QED
    BY <1>1, <2>1
<1>10. ASSUME NEW g PROVE Crabbing(msg, g) <=> Spanning(n, e, g)
  <2>1. \A i \in 1 .. n + 1 : CrabAt(msg, i, g) = SpansAt(n, e, i, g)
    BY <1>1, <1>3, CrabAtIs
  <2>2. [i \in 1 .. n + 1 |-> CrabAt(msg, i, g)] = [i \in 1 .. n + 1 |-> SpansAt(n, e, i, g)]
    BY <2>1, Zenon
  <2>3. QED
    BY <1>1, <2>2, Zenon DEF Crabbing, Spanning
<1>11. Spanning(n, e, f)
  <2>1. \E g : Spanning(n, e, g)
    BY <1>9, SpanningExists
  <2>2. \E g : Crabbing(msg, g)
    BY <1>10, <2>1
  <2>3. Crabbing(msg, f)
    BY <1>1, <2>2
  <2>4. QED
    BY <1>10, <2>3
<1>12. PICK X : X = Spans(e, PlacesFrom(n, e, 1))
  OBVIOUS
<1>13. f[1] = X
  <2>1. \A i \in 1 .. n + 1 : f[i] = Spans(e, PlacesFrom(n, e, i))
    BY <1>9, <1>11, SpanningIs
  <2>2. QED
    BY <1>2, <1>12, <2>1
<1>14. _crab(msg) = [k \in 1 .. n |-> IF k \in X THEN Star ELSE msg[k]]
  <2>1. _crab(msg) = [k \in DOMAIN msg |-> IF k \in f[1] THEN Star ELSE msg[k]]
    BY <1>1 DEF _crab, Crabbing, CrabAt
  <2>2. QED
    BY <1>2, <1>13, <2>1, Zenon
<1>15. Starred(W, msg) = [k \in 1 .. n |-> IF k \in X THEN Star ELSE msg[k]]
  <2>1. StarsOut(W, msg, X)
    BY <1>1, <1>4, <1>8, <1>12, StarredIs
  <2>2. QED
    BY <1>1, <2>1 DEF StarsOut
<1>16. QED
  BY <1>7, <1>14, <1>15, Zenon

\* Every message comes out with the longest word of the file starred out at each place searched:
\* 'ListFiltersWords', for any file whose lines all end with a newline, any characters, also those
\* that share a hash value, and any message. A list is kept longer words first, so that the first
\* word of it that matches is the longest, and the words that can match are all in one list.
THEOREM ListsFilter ==
  ASSUME ~ Unended
  PROVE  ListSpec => []ListFiltersWords
<1>1. ListInit => ListInv
  BY ListStart
<1>2. ListInv /\ [ListNext]_listvars => ListInv'
  <2> SUFFICES ASSUME ListInv, [ListNext]_listvars PROVE ListInv'
    OBVIOUS
  <2>1. CASE ListNext
    <3>1. PICK line \in Lines \cup {NotUtf8}, newline \in BOOLEAN : readline(line, newline)
      BY <2>1 DEF ListNext
    <3>2. QED
      BY <3>1, ListLine
  <2>2. CASE UNCHANGED listvars
    BY <2>2 DEF listvars, ListInv, Given
  <2>3. QED
    BY <2>1, <2>2
<1>3. ListInv => ListFiltersWords
  <2> SUFFICES ASSUME ListInv, NEW msg \in Sentences PROVE _crab(msg) = Starred(Given, msg)
    BY DEF ListFiltersWords
  <2>1. msg \in Seq(WideChars)
    BY ListAssumption
  <2>2. QED
    BY <2>1, CrabIs
<1>4. QED
  BY <1>1, <1>2, <1>3, PTL DEF ListSpec
=============================================================================
