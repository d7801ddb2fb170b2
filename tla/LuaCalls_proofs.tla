-------------------------- MODULE LuaCalls_proofs --------------------------
(* The inductive invariants of LuaCalls, of the C stack and of the functions *)
(* that it runs, proved for any threads, limits and handlers.                *)
EXTENDS LuaCalls, FiniteSetTheorems, SequenceTheorems, TLAPS

-----------------------------------------------------------------------------
(* The C stack                                                               *)

Limit == MaxCCalls + ExtraCCalls

\* What matters here of a record of the C stack.
Record(r) ==
  /\ r.L \in Threads
  /\ r.op \in {"call", "pcall", "resume", "execute", "body"}
  /\ r.op = "call" => r.noyield \in BOOLEAN /\ r.then \in {"proceed", "unprotect", "throw"}
  /\ r.op = "pcall" => /\ r.gc \in BOOLEAN /\ r.running \in BOOLEAN
                     /\ r.nny \in Nat /\ r.nCcalls \in 0 .. Limit - 1
  /\ r.op = "resume" => r.nny \in Nat /\ r.nCcalls \in 1 .. MaxCCalls - 1
IsStack(S) == (\E X : S \in Seq(X)) /\ \A i \in 1 .. Len(S) : Record(S[i])

Counts(r) == r.op \in {"call", "pcall", "resume"}
Protects(r) == r.op \in {"pcall", "resume"}
Works(r) == r.op \in {"execute", "body"}

\* S[j] is the innermost of the first n records that protects thread t; 0 is none.
ProtectedIn(S, t, n) == {j \in 1 .. n : S[j].L = t /\ Protects(S[j])}
Innermost(S, t, n, j) ==
  IF ProtectedIn(S, t, n) = {} THEN j = 0
  ELSE j \in ProtectedIn(S, t, n) /\ \A i \in ProtectedIn(S, t, n) : i <= j

CountedIn(S, n) == {j \in 1 .. n : Counts(S[j])}
WallsIn(S, t, n) == {j \in 1 .. n : S[j].L = t /\ Walls(S[j])}
Own(t) == IF t = Main THEN 1 ELSE 0

Has(S, t) == \E j \in 1 .. Len(S) : S[j].L = t
Latest(S, t, j) == j \in 1 .. Len(S) /\ S[j].L = t /\ \A i \in j + 1 .. Len(S) : S[i].L # t

\* Where a thread's records end, those of a thread it resumed begin.
Stacked(S) ==
  /\ IsStack(S)
  /\ S # <<>> => S[1].op = "pcall" /\ S[1].L = Main /\ ~ S[1].gc
  /\ \A i, k \in 1 .. Len(S) :
       i < k /\ S[i].L # S[k].L => \E m \in i + 1 .. k : S[m].op = "resume" /\ S[m].L = S[k].L
  /\ \A i, k \in 1 .. Len(S) : i < k /\ S[k].op = "resume" => S[i].L # S[k].L
  /\ \A j \in 2 .. Len(S) : S[j].op = "resume" => S[j - 1].op = "body"

\* What a record keeps is what was the case when it was pushed.
Saved(S, j) ==
  /\ Protects(S[j]) => Innermost(S, S[j].L, j - 1, S[j].previous)
  /\ S[j].op = "pcall" => /\ S[j].nCcalls = Cardinality(CountedIn(S, j - 1))
                          /\ S[j].nny = Own(S[j].L) + Cardinality(WallsIn(S, S[j].L, j - 1))
  /\ S[j].op = "resume" => S[j].nCcalls = Cardinality(CountedIn(S, j))

\* C stack S, with e, nn and nc for errorJmp, nny and nCcalls.
Jumps(S, e) == \A t \in Threads : Innermost(S, t, Len(S), e[t])
YieldsCounted(S, nn) ==
  \A t \in Threads : Has(S, t) => nn[t] = Own(t) + Cardinality(WallsIn(S, t, Len(S)))
CCallsCounted(S, nc) ==
  \A t \in Threads, j \in 1 .. Len(S) : Latest(S, t, j) => nc[t] = Cardinality(CountedIn(S, j))
Good(S, e, nn, nc) ==
  /\ Stacked(S)
  /\ \A j \in 1 .. Len(S) : Saved(S, j)
  /\ Jumps(S, e) /\ YieldsCounted(S, nn) /\ CCallsCounted(S, nc)

\* T is S with one record more; or cut to its first n.
Pushed(S, T, r) ==
  /\ IsStack(T) /\ Len(T) = Len(S) + 1 /\ T[Len(S) + 1] = r
  /\ \A i \in 1 .. Len(S) : T[i] = S[i]
Cut(S, T, n) ==
  /\ IsStack(T) /\ Len(T) = n /\ n <= Len(S)
  /\ \A i \in 1 .. n : T[i] = S[i]

\* The length of a C stack.
LEMMA StackFacts ==
  ASSUME NEW S, IsStack(S)
  PROVE  Len(S) \in Nat /\ (S = <<>> <=> Len(S) = 0)
<1>1. PICK X : S \in Seq(X)
  BY DEF IsStack
<1>2. QED
  BY <1>1, LenProperties, EmptySeq

\* Append pushes a record.
LEMMA PushedIs ==
  ASSUME NEW S, IsStack(S), NEW r, Record(r)
  PROVE  Pushed(S, Append(S, r), r)
<1> DEFINE T == Append(S, r)
<1>1. PICK X : S \in Seq(X)
  BY DEF IsStack
<1>2. S \in Seq(X \cup {r}) /\ r \in X \cup {r}
  BY <1>1, SeqMonotonic
<1>3. /\ T \in Seq(X \cup {r}) /\ Len(T) = Len(S) + 1 /\ T[Len(S) + 1] = r
      /\ \A i \in 1 .. Len(S) : T[i] = S[i]
  BY <1>2, AppendProperties
<1>4. Len(S) \in Nat
  BY StackFacts
<1> HIDE DEF T
<1>5. \A i \in 1 .. Len(T) : Record(T[i])
  BY <1>3, <1>4 DEF IsStack
<1>6. IsStack(T)
  BY <1>3, <1>5 DEF IsStack
<1>7. Pushed(S, T, r)
  BY <1>3, <1>6 DEF Pushed
<1>8. QED
  BY <1>7 DEF T

\* SubSeq cuts the stack.
LEMMA CutIs ==
  ASSUME NEW S, IsStack(S), NEW n \in 0 .. Len(S)
  PROVE  Cut(S, SubSeq(S, 1, n), n)
<1> DEFINE T == SubSeq(S, 1, n)
<1>1. PICK X : S \in Seq(X)
  BY DEF IsStack
<1>2. Len(S) \in Nat
  BY StackFacts
<1>3. \A i \in 1 .. n : S[i] \in X
  BY <1>1, <1>2, ElementOfSeq
<1>4. T \in Seq(X) /\ Len(T) = n /\ \A i \in 1 .. n : T[i] = S[i]
  BY <1>1, <1>2, <1>3, SubSeqProperties
<1> HIDE DEF T
<1>5. IsStack(T)
  BY <1>2, <1>4 DEF IsStack
<1>6. Cut(S, T, n)
  BY <1>2, <1>4, <1>5 DEF Cut
<1>7. QED
  BY <1>6 DEF T

\* A set of numbers up to n that is not empty has a greatest one.
LEMMA MaxExists ==
  ASSUME NEW n \in Nat, NEW T \in SUBSET (1 .. n), T # {}
  PROVE  \E m \in T : \A i \in T : i <= m
<1> DEFINE D == {n - i : i \in T}
<1>1. D \subseteq Nat /\ D # {}
  <2>1. \A i \in T : n - i \in Nat
    OBVIOUS
  <2>2. QED
    BY <2>1
<1>2. PICK x \in D : \A y \in D : ~ (<<y, x>> \in OpToRel(<, Nat))
  BY <1>1, NatLessThanWellFounded, WFMin
<1>3. \A y \in D : ~ (y < x)
  BY <1>1, <1>2 DEF OpToRel
<1>4. PICK m \in T : x = n - m
  BY <1>2
<1>5. ASSUME NEW i \in T PROVE i <= m
  <2>1. ~ (n - i < n - m)
    BY <1>3, <1>4
  <2>2. QED
    BY <2>1
<1>6. QED
  BY <1>4, <1>5

\* How the calls counted grow with each record.
LEMMA CountStep ==
  ASSUME NEW S, NEW n \in Nat
  PROVE  /\ IsFiniteSet(CountedIn(S, n)) /\ Cardinality(CountedIn(S, n)) \in Nat
         /\ Cardinality(CountedIn(S, 0)) = 0
         /\ Cardinality(CountedIn(S, n + 1)) =
              Cardinality(CountedIn(S, n)) + (IF Counts(S[n + 1]) THEN 1 ELSE 0)
<1>1. IsFiniteSet(1 .. n)
  BY FS_Interval
<1>2. IsFiniteSet(CountedIn(S, n))
  BY <1>1, FS_Subset DEF CountedIn
<1>3. Cardinality(CountedIn(S, n)) \in Nat
  BY <1>2, FS_CardinalityType
<1>4. CountedIn(S, 0) = {}
  BY DEF CountedIn
<1>5. CountedIn(S, n + 1) = IF Counts(S[n + 1]) THEN CountedIn(S, n) \cup {n + 1} ELSE CountedIn(S, n)
  BY DEF CountedIn
<1>6. n + 1 \notin CountedIn(S, n)
  BY DEF CountedIn
<1>7. Cardinality(CountedIn(S, n) \cup {n + 1}) = Cardinality(CountedIn(S, n)) + 1
  BY <1>2, <1>6, FS_AddElement
<1>8. QED
  BY <1>2, <1>3, <1>4, <1>5, <1>7, FS_EmptySet

\* How the calls that nobody can yield across grow with each record.
LEMMA WallStep ==
  ASSUME NEW S, NEW t, NEW n \in Nat
  PROVE  /\ IsFiniteSet(WallsIn(S, t, n)) /\ Cardinality(WallsIn(S, t, n)) \in Nat
         /\ Cardinality(WallsIn(S, t, 0)) = 0
         /\ Cardinality(WallsIn(S, t, n + 1)) =
              Cardinality(WallsIn(S, t, n)) + (IF S[n + 1].L = t /\ Walls(S[n + 1]) THEN 1 ELSE 0)
<1>1. IsFiniteSet(1 .. n)
  BY FS_Interval
<1>2. IsFiniteSet(WallsIn(S, t, n))
  BY <1>1, FS_Subset DEF WallsIn
<1>3. Cardinality(WallsIn(S, t, n)) \in Nat
  BY <1>2, FS_CardinalityType
<1>4. WallsIn(S, t, 0) = {}
  BY DEF WallsIn
<1>5. WallsIn(S, t, n + 1) =
        IF S[n + 1].L = t /\ Walls(S[n + 1]) THEN WallsIn(S, t, n) \cup {n + 1} ELSE WallsIn(S, t, n)
  BY DEF WallsIn
<1>6. n + 1 \notin WallsIn(S, t, n)
  BY DEF WallsIn
<1>7. Cardinality(WallsIn(S, t, n) \cup {n + 1}) = Cardinality(WallsIn(S, t, n)) + 1
  BY <1>2, <1>6, FS_AddElement
<1>8. QED
  BY <1>2, <1>3, <1>4, <1>5, <1>7, FS_EmptySet

\* What is said of the first n records stays true of a stack that begins like S.
LEMMA Same ==
  ASSUME NEW S, NEW T, NEW n \in Nat, \A i \in 1 .. n : T[i] = S[i]
  PROVE  /\ CountedIn(T, n) = CountedIn(S, n)
         /\ \A t : /\ WallsIn(T, t, n) = WallsIn(S, t, n)
                   /\ ProtectedIn(T, t, n) = ProtectedIn(S, t, n)
                   /\ \A j : Innermost(T, t, n, j) <=> Innermost(S, t, n, j)
<1>1. \A t : ProtectedIn(T, t, n) = ProtectedIn(S, t, n)
  BY DEF ProtectedIn
<1>2. QED
  BY <1>1 DEF CountedIn, WallsIn, Innermost

LEMMA SameWalls ==
  ASSUME NEW S, NEW T, NEW t, NEW n \in Nat, \A i \in 1 .. n : T[i] = S[i]
  PROVE  WallsIn(T, t, n) = WallsIn(S, t, n)
BY DEF WallsIn

LEMMA SameCounted ==
  ASSUME NEW S, NEW T, NEW n \in Nat, \A i \in 1 .. n : T[i] = S[i]
  PROVE  CountedIn(T, n) = CountedIn(S, n)
BY DEF CountedIn

LEMMA SameInnermost ==
  ASSUME NEW S, NEW T, NEW t, NEW j, NEW n \in Nat, \A i \in 1 .. n : T[i] = S[i], Innermost(S, t, n, j)
  PROVE  Innermost(T, t, n, j)
BY Same

LEMMA SavedSame ==
  ASSUME NEW S, NEW T, NEW j \in Nat \ {0}, \A i \in 1 .. j : T[i] = S[i], Saved(S, j)
  PROVE  Saved(T, j)
<1>1. /\ \A i \in 1 .. j - 1 : T[i] = S[i]
      /\ j - 1 \in Nat /\ T[j] = S[j]
  OBVIOUS
<1>2. CountedIn(T, j) = CountedIn(S, j)
  BY Same
<1>3. /\ CountedIn(T, j - 1) = CountedIn(S, j - 1)
      /\ \A t : /\ WallsIn(T, t, j - 1) = WallsIn(S, t, j - 1)
                /\ \A i : Innermost(T, t, j - 1, i) <=> Innermost(S, t, j - 1, i)
  BY <1>1, Same
<1>4. QED
  BY <1>1, <1>2, <1>3 DEF Saved

-----------------------------------------------------------------------------
(* What happens to the C stack                                               *)

\* A record of the running thread, or a resume of one that is not there.
LEMMA PushStacked ==
  ASSUME NEW S, Stacked(S), S # <<>>, NEW r, Record(r), NEW T, Pushed(S, T, r),
         \/ r.op # "resume" /\ r.L = S[Len(S)].L
         \/ r.op = "resume" /\ ~ Has(S, r.L) /\ S[Len(S)].op = "body"
  PROVE  Stacked(T)
<1> DEFINE n == Len(S)
<1>1. /\ IsStack(S) /\ IsStack(T) /\ n \in Nat \ {0} /\ Len(T) = n + 1
      /\ T[n + 1] = r /\ \A i \in 1 .. n : T[i] = S[i]
  BY StackFacts DEF Stacked, Pushed
<1>2. T[1].op = "pcall" /\ T[1].L = Main /\ ~ T[1].gc
  BY <1>1 DEF Stacked
<1>3. ASSUME NEW i \in 1 .. n + 1, NEW k \in 1 .. n + 1, i < k, T[i].L # T[k].L
      PROVE  \E m \in i + 1 .. k : T[m].op = "resume" /\ T[m].L = T[k].L
  <2>1. CASE k <= n
    <3>1. i \in 1 .. Len(S) /\ k \in 1 .. Len(S) /\ i < k /\ S[i].L # S[k].L
      BY <1>1, <1>3, <2>1
    <3>2. PICK m \in i + 1 .. k : S[m].op = "resume" /\ S[m].L = S[k].L
      BY <3>1 DEF Stacked
    <3>3. QED
      BY <1>1, <2>1, <3>2
  <2>2. CASE k = n + 1 /\ r.op = "resume"
    BY <1>1, <1>3, <2>2
  <2>3. CASE k = n + 1 /\ r.op # "resume"
    <3>1. i # n
      BY <1>1, <1>3, <2>3
    <3>2. PICK m \in i + 1 .. n : S[m].op = "resume" /\ S[m].L = S[n].L
      BY <1>1, <1>3, <2>3, <3>1 DEF Stacked
    <3>3. QED
      BY <1>1, <2>3, <3>2
  <2>4. QED
    BY <1>1, <2>1, <2>2, <2>3
<1>4. ASSUME NEW i \in 1 .. n + 1, NEW k \in 1 .. n + 1, i < k, T[k].op = "resume"
      PROVE  T[i].L # T[k].L
  <2>1. CASE k <= n
    BY <1>1, <1>4, <2>1 DEF Stacked
  <2>2. CASE k = n + 1
    BY <1>1, <1>4, <2>2 DEF Has
  <2>3. QED
    BY <1>1, <2>1, <2>2
<1>5. ASSUME NEW j \in 2 .. n + 1, T[j].op = "resume" PROVE T[j - 1].op = "body"
  <2>1. CASE j <= n
    BY <1>1, <1>5, <2>1 DEF Stacked
  <2>2. CASE j = n + 1
    BY <1>1, <1>5, <2>2
  <2>3. QED
    BY <1>1, <2>1, <2>2
<1>6. QED
  BY <1>1, <1>2, <1>3, <1>4, <1>5 DEF Stacked

\* A stack that is cut is still well formed.
LEMMA CutStacked ==
  ASSUME NEW S, Stacked(S), NEW T, NEW n \in Nat, Cut(S, T, n)
  PROVE  Stacked(T)
<1>1. /\ IsStack(S) /\ IsStack(T) /\ Len(T) = n /\ n <= Len(S) /\ Len(S) \in Nat
      /\ \A i \in 1 .. n : T[i] = S[i]
  BY StackFacts DEF Stacked, Cut
<1>2. T # <<>> => T[1].op = "pcall" /\ T[1].L = Main /\ ~ T[1].gc
  <2>1. T # <<>> => n \in Nat \ {0}
    BY <1>1, StackFacts
  <2>2. S # <<>> \/ n = 0
    BY <1>1, StackFacts
  <2>3. QED
    BY <1>1, <2>1, <2>2 DEF Stacked
<1>3. ASSUME NEW i \in 1 .. n, NEW k \in 1 .. n, i < k, T[i].L # T[k].L
      PROVE  \E m \in i + 1 .. k : T[m].op = "resume" /\ T[m].L = T[k].L
  <2>0. i \in 1 .. Len(S) /\ k \in 1 .. Len(S) /\ i < k /\ S[i].L # S[k].L
    BY <1>1, <1>3
  <2>1. PICK m \in i + 1 .. k : S[m].op = "resume" /\ S[m].L = S[k].L
    BY <2>0 DEF Stacked
  <2>2. QED
    BY <1>1, <2>1
<1>4. \A i, k \in 1 .. n : i < k /\ T[k].op = "resume" => T[i].L # T[k].L
  BY <1>1 DEF Stacked
<1>5. \A j \in 2 .. n : T[j].op = "resume" => T[j - 1].op = "body"
  BY <1>1 DEF Stacked
<1>6. QED
  BY <1>1, <1>2, <1>3, <1>4, <1>5, SMTT(30) DEF Stacked

\* From the innermost record that protects the running thread on, all are its own.
LEMMA Above ==
  ASSUME NEW S, Stacked(S), S # <<>>, NEW j,
         Innermost(S, S[Len(S)].L, Len(S), j)
  PROVE  /\ j \in 1 .. Len(S) /\ Protects(S[j])
         /\ \A i \in j .. Len(S) : S[i].L = S[Len(S)].L
<1> DEFINE n == Len(S)
           t == S[n].L
<1>1. n \in Nat \ {0}
  BY StackFacts DEF Stacked
<1>2. ProtectedIn(S, t, n) # {}
  <2>1. CASE S[1].L = t
    <3>1. 1 \in ProtectedIn(S, t, n)
      BY <1>1, <2>1 DEF Stacked, ProtectedIn, Protects
    <3>2. QED
      BY <3>1
  <2>2. CASE S[1].L # t
    <3>1. PICK m \in 2 .. n : S[m].op = "resume" /\ S[m].L = t
      BY <1>1, <2>2 DEF Stacked
    <3>2. m \in ProtectedIn(S, t, n)
      BY <1>1, <3>1 DEF ProtectedIn, Protects
    <3>3. QED
      BY <3>2
  <2>3. QED
    BY <2>1, <2>2
<1>3. j \in ProtectedIn(S, t, n) /\ \A i \in ProtectedIn(S, t, n) : i <= j
  BY <1>2 DEF Innermost
<1>4. j \in 1 .. n /\ S[j].L = t /\ Protects(S[j])
  BY <1>3 DEF ProtectedIn
<1>5. ASSUME NEW i \in j .. n, S[i].L # t PROVE FALSE
  <2>0. i \in 1 .. Len(S) /\ n \in 1 .. Len(S) /\ i # n /\ i < n
    BY <1>1, <1>4, <1>5
  <2>1. PICK m \in i + 1 .. n : S[m].op = "resume" /\ S[m].L = t
    BY <1>5, <2>0 DEF Stacked
  <2>2. m \in ProtectedIn(S, t, n)
    BY <1>1, <1>4, <2>1 DEF ProtectedIn, Protects
  <2>3. QED
    BY <1>1, <1>3, <1>4, <2>1, <2>2
<1>6. QED
  BY <1>4, <1>5

\* Nothing changes for the threads other than u.
Others(u, e, nn, nc, e2, nn2, nc2) ==
  \A t \in Threads \ {u} : e2[t] = e[t] /\ nn2[t] = nn[t] /\ nc2[t] = nc[t]

\* A push keeps what the fields of the threads say of the stack.
LEMMA PushGood ==
  ASSUME NEW S, NEW e, NEW nn, NEW nc, Good(S, e, nn, nc), S # <<>>,
         NEW r, Record(r), NEW T, Pushed(S, T, r), Stacked(T), Saved(T, Len(S) + 1),
         NEW e2, NEW nn2, NEW nc2,
         Others(r.L, e, nn, nc, e2, nn2, nc2),
         e2[r.L] = IF Protects(r) THEN Len(S) + 1 ELSE e[r.L],
         nn2[r.L] = Own(r.L) + Cardinality(WallsIn(T, r.L, Len(S) + 1)),
         nc2[r.L] = Cardinality(CountedIn(T, Len(S) + 1))
  PROVE  Good(T, e2, nn2, nc2)
<1> DEFINE n == Len(S)
<1>1. /\ IsStack(S) /\ IsStack(T) /\ n \in Nat \ {0} /\ Len(T) = n + 1
      /\ T[n + 1] = r /\ \A i \in 1 .. n : T[i] = S[i]
  BY StackFacts DEF Good, Stacked, Pushed
<1>2. ASSUME NEW j \in 1 .. Len(T) PROVE Saved(T, j)
  <2>1. CASE j <= n
    BY <1>1, <2>1, SavedSame DEF Good
  <2>2. CASE j = n + 1
    BY <2>2
  <2>3. QED
    BY <1>1, <2>1, <2>2
<1>3. ASSUME NEW t \in Threads PROVE Innermost(T, t, Len(T), e2[t])
  <2>0. ProtectedIn(T, t, n) = ProtectedIn(S, t, n)
    BY <1>1 DEF ProtectedIn
  <2>1. ProtectedIn(T, t, n) = ProtectedIn(S, t, n) /\ Innermost(S, t, n, e[t])
    BY <2>0 DEF Good, Jumps
  <2>2. CASE t = r.L /\ Protects(r)
    <3>1. n + 1 \in ProtectedIn(T, t, n + 1) /\ \A i \in ProtectedIn(T, t, n + 1) : i <= n + 1
      BY <1>1, <2>2 DEF ProtectedIn
    <3>2. QED
      BY <1>1, <2>2, <3>1 DEF Innermost
  <2>3. CASE ~ (t = r.L /\ Protects(r))
    <3>1. ProtectedIn(T, t, n + 1) = ProtectedIn(T, t, n)
      BY <1>1, <2>3 DEF ProtectedIn
    <3>2. e2[t] = e[t]
      BY <2>3 DEF Others
    <3>3. QED
      BY <1>1, <2>1, <3>1, <3>2 DEF Innermost
  <2>4. QED
    BY <2>2, <2>3
<1>4. ASSUME NEW t \in Threads, Has(T, t)
      PROVE  nn2[t] = Own(t) + Cardinality(WallsIn(T, t, Len(T)))
  <2>1. CASE t = r.L
    BY <1>1, <2>1
  <2>2. CASE t # r.L
    <3>1. Has(S, t)
      BY <1>1, <1>4, <2>2 DEF Has
    <3>2. WallsIn(T, t, n) = WallsIn(S, t, n)
      BY <1>1, SameWalls
    <3>3. WallsIn(T, t, n + 1) = WallsIn(T, t, n)
      BY <1>1, <2>2 DEF WallsIn
    <3>4. QED
      BY <1>1, <2>2, <3>1, <3>2, <3>3 DEF Good, YieldsCounted, Others
  <2>3. QED
    BY <2>1, <2>2
<1>5. ASSUME NEW t \in Threads, NEW j \in 1 .. Len(T), Latest(T, t, j)
      PROVE  nc2[t] = Cardinality(CountedIn(T, j))
  <2>1. CASE t = r.L
    <3>1. j = n + 1
      BY <1>1, <1>5, <2>1 DEF Latest
    <3>2. QED
      BY <2>1, <3>1
  <2>2. CASE t # r.L
    <3>1. j \in 1 .. n /\ Latest(S, t, j)
      BY <1>1, <1>5, <2>2 DEF Latest
    <3>2. CountedIn(T, j) = CountedIn(S, j)
      BY <1>1, <3>1, Same
    <3>3. QED
      BY <2>2, <3>1, <3>2 DEF Good, CCallsCounted, Others
  <2>3. QED
    BY <2>1, <2>2
<1>6. QED
  BY <1>2, <1>3, <1>4, <1>5 DEF Good, Jumps, YieldsCounted, CCallsCounted

\* The records of u above the first n can go.
CanGo(S, u, n, e2, nn2, nc2) ==
  /\ \A i \in n + 1 .. Len(S) : S[i].L = u
  /\ Innermost(S, u, n, e2[u])
  /\ \A i \in 1 .. n : S[i].L = u => /\ nn2[u] = Own(u) + Cardinality(WallsIn(S, u, n))
                                     /\ S[n].L = u
                                     /\ nc2[u] = Cardinality(CountedIn(S, n))

\* So does a cut.
LEMMA CutGood ==
  ASSUME NEW S, NEW e, NEW nn, NEW nc, Good(S, e, nn, nc),
         NEW n \in Nat, NEW T, Cut(S, T, n), NEW u,
         NEW e2, NEW nn2, NEW nc2,
         Others(u, e, nn, nc, e2, nn2, nc2),
         CanGo(S, u, n, e2, nn2, nc2)
  PROVE  Good(T, e2, nn2, nc2)
<1>0. /\ \A i \in n + 1 .. Len(S) : S[i].L = u
      /\ Innermost(S, u, n, e2[u])
      /\ \A i \in 1 .. n : S[i].L = u => /\ nn2[u] = Own(u) + Cardinality(WallsIn(S, u, n))
                                         /\ S[n].L = u
                                         /\ nc2[u] = Cardinality(CountedIn(S, n))
  BY DEF CanGo
<1>1. /\ IsStack(S) /\ IsStack(T) /\ Len(T) = n /\ n <= Len(S) /\ Len(S) \in Nat
      /\ \A i \in 1 .. n : T[i] = S[i]
  BY StackFacts DEF Good, Stacked, Cut
<1>2. Stacked(T)
  BY CutStacked DEF Good
<1>3. ASSUME NEW j \in 1 .. Len(T) PROVE Saved(T, j)
  BY <1>1, SavedSame DEF Good
<1>4. ASSUME NEW t \in Threads PROVE Innermost(T, t, Len(T), e2[t])
  <2>1. \A x, j : Innermost(T, x, n, j) <=> Innermost(S, x, n, j)
    BY <1>1, Same
  <2>2. CASE t = u
    BY <1>0, <1>1, <2>1, <2>2
  <2>3. CASE t # u
    <3>1. Innermost(S, t, Len(S), e[t])
      BY DEF Good, Jumps
    <3>2. ProtectedIn(S, t, Len(S)) = ProtectedIn(S, t, n)
      BY <1>0, <1>1, <2>3 DEF ProtectedIn
    <3>3. Innermost(S, t, n, e2[t])
      BY <2>3, <3>1, <3>2 DEF Innermost, Others
    <3>4. QED
      BY <1>1, <2>1, <3>3
  <2>4. QED
    BY <2>2, <2>3
<1>5. ASSUME NEW t \in Threads, Has(T, t)
      PROVE  nn2[t] = Own(t) + Cardinality(WallsIn(T, t, Len(T)))
  <2>1. WallsIn(T, t, n) = WallsIn(S, t, n)
    BY <1>1, SameWalls
  <2>2. CASE t = u
    BY <1>0, <1>1, <1>5, <2>1, <2>2 DEF Has
  <2>3. CASE t # u
    <3>1. Has(S, t)
      BY <1>1, <1>5 DEF Has
    <3>2. WallsIn(S, t, Len(S)) = WallsIn(S, t, n)
      BY <1>0, <1>1, <2>3 DEF WallsIn
    <3>3. QED
      BY <1>1, <2>1, <2>3, <3>1, <3>2 DEF Good, YieldsCounted, Others
  <2>4. QED
    BY <2>2, <2>3
<1>6. ASSUME NEW t \in Threads, NEW j \in 1 .. Len(T), Latest(T, t, j)
      PROVE  nc2[t] = Cardinality(CountedIn(T, j))
  <2>1. CountedIn(T, j) = CountedIn(S, j)
    BY <1>1, Same
  <2>2. CASE t = u
    <3>1. j \in 1 .. n /\ S[j].L = u
      BY <1>1, <1>6, <2>2 DEF Latest
    <3>2. j = n
      BY <1>0, <1>1, <1>6, <2>2, <3>1 DEF Latest
    <3>3. QED
      BY <1>0, <2>1, <2>2, <3>1, <3>2
  <2>3. CASE t # u
    <3>1. j \in 1 .. Len(S) /\ Latest(S, t, j)
      BY <1>0, <1>1, <1>6, <2>3 DEF Latest
    <3>2. QED
      BY <2>1, <2>3, <3>1 DEF Good, CCallsCounted, Others
  <2>4. QED
    BY <2>2, <2>3
<1>7. QED
  BY <1>2, <1>3, <1>4, <1>5, <1>6 DEF Good, Jumps, YieldsCounted, CCallsCounted

\* The last record, and the counters of its thread.
LEMMA GoodLast ==
  ASSUME NEW S, NEW e, NEW nn, NEW nc, Good(S, e, nn, nc), S # <<>>
  PROVE  /\ IsStack(S) /\ Len(S) \in Nat \ {0} /\ Record(S[Len(S)])
         /\ \A i \in 1 .. Len(S) : Record(S[i])
         /\ S[Len(S)].L \in Threads
         /\ Has(S, S[Len(S)].L) /\ Latest(S, S[Len(S)].L, Len(S))
         /\ nn[S[Len(S)].L] = Own(S[Len(S)].L) + Cardinality(WallsIn(S, S[Len(S)].L, Len(S)))
         /\ nc[S[Len(S)].L] = Cardinality(CountedIn(S, Len(S)))
<1> DEFINE n == Len(S)
<1>1. IsStack(S) /\ n \in Nat \ {0}
  BY StackFacts DEF Good, Stacked
<1>2. \A i \in 1 .. n : Record(S[i])
  BY <1>1 DEF IsStack
<1>3. Record(S[n]) /\ S[n].L \in Threads
  <2>1. Record(S[n])
    BY <1>1, <1>2
  <2>2. QED
    BY <2>1 DEF Record
<1>4. Has(S, S[n].L) /\ Latest(S, S[n].L, n)
  BY <1>1 DEF Has, Latest
<1>5. QED
  BY <1>1, <1>2, <1>3, <1>4 DEF Good, YieldsCounted, CCallsCounted

\* A record is pushed for the running thread.
LEMMA PushOwn ==
  ASSUME NEW S, NEW e \in [Threads -> Nat], NEW nn \in [Threads -> Nat], NEW nc \in [Threads -> Nat],
         Good(S, e, nn, nc), S # <<>>, NEW T, NEW r, Record(r), Pushed(S, T, r),
         r.op # "resume", r.L = S[Len(S)].L,
         r.op = "pcall" => r.previous = e[r.L] /\ r.nny = nn[r.L] /\ r.nCcalls = nc[r.L]
  PROVE  Good(T, IF r.op = "pcall" THEN [e EXCEPT ![r.L] = Len(S) + 1] ELSE e,
                 IF Walls(r) THEN [nn EXCEPT ![r.L] = @ + 1] ELSE nn,
                 IF Counts(r) THEN [nc EXCEPT ![r.L] = @ + 1] ELSE nc)
<1> DEFINE n == Len(S)
           u == r.L
<1>1. /\ IsStack(S) /\ n \in Nat \ {0} /\ u \in Threads /\ S[n].L = u
      /\ T[n + 1] = r /\ \A i \in 1 .. n : T[i] = S[i]
      /\ nn[u] = Own(u) + Cardinality(WallsIn(S, u, n)) /\ nc[u] = Cardinality(CountedIn(S, n))
  BY GoodLast DEF Pushed
<1>2. Stacked(T)
  BY PushStacked DEF Good
<1>3. CountedIn(T, n) = CountedIn(S, n) /\ WallsIn(T, u, n) = WallsIn(S, u, n)
  BY <1>1, SameCounted, SameWalls
<1>4. /\ Cardinality(CountedIn(T, n + 1)) = nc[u] + (IF Counts(r) THEN 1 ELSE 0)
      /\ Cardinality(WallsIn(T, u, n + 1)) = Cardinality(WallsIn(S, u, n)) + (IF Walls(r) THEN 1 ELSE 0)
      /\ Cardinality(WallsIn(S, u, n)) \in Nat
  <2>1. Cardinality(CountedIn(T, n + 1)) = Cardinality(CountedIn(T, n)) + (IF Counts(T[n + 1]) THEN 1 ELSE 0)
    BY <1>1, CountStep
  <2>2. /\ Cardinality(WallsIn(T, u, n + 1)) =
             Cardinality(WallsIn(T, u, n)) + (IF T[n + 1].L = u /\ Walls(T[n + 1]) THEN 1 ELSE 0)
        /\ Cardinality(WallsIn(T, u, n)) \in Nat
    BY <1>1, WallStep
  <2>3. QED
    BY <1>1, <1>3, <2>1, <2>2
<1>5. Innermost(T, u, n, e[u])
  <2>1. Innermost(S, u, n, e[u])
    BY <1>1 DEF Good, Jumps
  <2>2. QED
    BY <1>1, <2>1, SameInnermost
<1>6. Saved(T, n + 1)
  BY <1>1, <1>3, <1>5 DEF Saved, Protects
<1> DEFINE e2 == IF r.op = "pcall" THEN [e EXCEPT ![u] = n + 1] ELSE e
           nn2 == IF Walls(r) THEN [nn EXCEPT ![u] = @ + 1] ELSE nn
           nc2 == IF Counts(r) THEN [nc EXCEPT ![u] = @ + 1] ELSE nc
<1>7. Others(u, e, nn, nc, e2, nn2, nc2)
  BY <1>1 DEF Others
<1>8. e2[u] = IF Protects(r) THEN n + 1 ELSE e[u]
  BY <1>1 DEF Protects
<1>9. nn2[u] = Own(u) + Cardinality(WallsIn(T, u, n + 1))
  BY <1>1, <1>4 DEF Own
<1>10. nc2[u] = Cardinality(CountedIn(T, n + 1))
  BY <1>1, <1>4
<1> HIDE DEF e2, nn2, nc2
<1>11. Good(T, e2, nn2, nc2)
  BY <1>2, <1>6, <1>7, <1>8, <1>9, <1>10, PushGood
<1>12. QED
  BY <1>11 DEF e2, nn2, nc2

\* A thread that is not there is resumed.
LEMMA PushResume ==
  ASSUME NEW S, NEW e \in [Threads -> Nat], NEW nn \in [Threads -> Nat], NEW nc \in [Threads -> Nat],
         Good(S, e, nn, nc), S # <<>>, NEW T, NEW r, Record(r), Pushed(S, T, r),
         r.op = "resume", ~ Has(S, r.L), S[Len(S)].op = "body",
         r.previous = e[r.L], r.nCcalls = nc[S[Len(S)].L] + 1
  PROVE  Good(T, [e EXCEPT ![r.L] = Len(S) + 1], [nn EXCEPT ![r.L] = 0],
                 [nc EXCEPT ![r.L] = nc[S[Len(S)].L] + 1])
<1> DEFINE n == Len(S)
           u == r.L
           e2 == [e EXCEPT ![r.L] = n + 1]
           nn2 == [nn EXCEPT ![r.L] = 0]
           nc2 == [nc EXCEPT ![r.L] = nc[S[n].L] + 1]
<1>1. /\ IsStack(S) /\ n \in Nat \ {0} /\ u \in Threads
      /\ T[n + 1] = r /\ \A i \in 1 .. n : T[i] = S[i]
      /\ nc[S[n].L] = Cardinality(CountedIn(S, n))
  <2>1. u \in Threads
    BY DEF Record
  <2>2. T[n + 1] = r /\ \A i \in 1 .. n : T[i] = S[i]
    BY DEF Pushed
  <2>3. QED
    BY <2>1, <2>2, GoodLast
<1>2. Stacked(T)
  BY PushStacked DEF Good
<1>3. CountedIn(T, n) = CountedIn(S, n)
  BY <1>1, SameCounted
<1>4. Cardinality(CountedIn(T, n + 1)) = nc[S[n].L] + 1
  <2>1. Cardinality(CountedIn(T, n + 1)) = Cardinality(CountedIn(T, n)) + (IF Counts(T[n + 1]) THEN 1 ELSE 0)
    BY <1>1, CountStep
  <2>2. Counts(T[n + 1])
    BY <1>1 DEF Counts
  <2>3. QED
    BY <1>1, <1>3, <2>1, <2>2
<1>5. Innermost(T, u, n, e[u])
  <2>1. Innermost(S, u, n, e[u])
    BY <1>1 DEF Good, Jumps
  <2>2. QED
    BY <1>1, <2>1, SameInnermost
<1>6. Saved(T, n + 1)
  BY <1>1, <1>3, <1>4, <1>5 DEF Saved, Protects
<1>7. WallsIn(T, u, n + 1) = {}
  <2>1. \A i \in 1 .. n : T[i].L # u
    BY <1>1 DEF Has
  <2>2. ~ Walls(T[n + 1])
    BY <1>1 DEF Walls
  <2>3. \A i \in 1 .. n + 1 : i \in 1 .. n \/ i = n + 1
    BY <1>1
  <2>4. \A i \in 1 .. n + 1 : ~ (T[i].L = u /\ Walls(T[i]))
    BY <2>1, <2>2, <2>3
  <2>5. QED
    BY <2>4 DEF WallsIn
<1>8. u # Main
  <2>1. S[1].L = Main /\ 1 \in 1 .. Len(S)
    BY <1>1 DEF Good, Stacked
  <2>2. QED
    BY <2>1 DEF Has
<1>9. Others(u, e, nn, nc, e2, nn2, nc2)
  BY DEF Others
<1>10. e2[u] = IF Protects(r) THEN n + 1 ELSE e[u]
  BY <1>1 DEF Protects
<1>11. nn2[u] = Own(u) + Cardinality(WallsIn(T, u, n + 1))
  <2>1. nn2[u] = 0 /\ Own(u) = 0
    BY <1>1, <1>8 DEF Own
  <2>2. Cardinality(WallsIn(T, u, n + 1)) = 0
    BY <1>7, FS_EmptySet
  <2>3. QED
    BY <2>1, <2>2
<1>12. nc2[u] = Cardinality(CountedIn(T, n + 1))
  BY <1>1, <1>4
<1> HIDE DEF e2, nn2, nc2
<1>13. Good(T, e2, nn2, nc2)
  BY <1>2, <1>6, <1>9, <1>10, <1>11, <1>12, PushGood
<1>14. QED
  BY <1>13 DEF e2, nn2, nc2

\* The last record, of a call or of a function at work, goes.
LEMMA PopGood ==
  ASSUME NEW S, NEW e \in [Threads -> Nat], NEW nn \in [Threads -> Nat], NEW nc \in [Threads -> Nat],
         Good(S, e, nn, nc), S # <<>>, NEW r, r = S[Len(S)], ~ Protects(r),
         NEW T, Cut(S, T, Len(S) - 1)
  PROVE  /\ Good(T, e, IF Walls(r) THEN [nn EXCEPT ![r.L] = @ - 1] ELSE nn,
                       IF Counts(r) THEN [nc EXCEPT ![r.L] = @ - 1] ELSE nc)
         /\ Len(S) > 1 /\ S[Len(S) - 1].L = r.L
         /\ Walls(r) => nn[r.L] > 0
         /\ Counts(r) => nc[r.L] > 0
<1> DEFINE n == Len(S)
           u == r.L
           nn2 == IF Walls(r) THEN [nn EXCEPT ![r.L] = @ - 1] ELSE nn
           nc2 == IF Counts(r) THEN [nc EXCEPT ![r.L] = @ - 1] ELSE nc
<1>1. /\ IsStack(S) /\ n \in Nat \ {0} /\ u \in Threads /\ Latest(S, u, n)
      /\ nn[u] = Own(u) + Cardinality(WallsIn(S, u, n)) /\ nc[u] = Cardinality(CountedIn(S, n))
  BY GoodLast
<1>2. n > 1
  BY <1>1 DEF Good, Stacked, Protects
<1>3. S[n - 1].L = u
  <2>1. n - 1 \in 1 .. n /\ n \in 1 .. n /\ n - 1 < n
    BY <1>1, <1>2
  <2>2. ASSUME S[n - 1].L # S[n].L PROVE FALSE
    <3>1. PICK m \in (n - 1) + 1 .. n : S[m].op = "resume"
      BY <2>1, <2>2 DEF Good, Stacked
    <3>2. m = n
      BY <1>1, <3>1
    <3>3. QED
      BY <3>1, <3>2 DEF Protects
  <2>3. QED
    BY <2>2
<1>4. n - 1 \in Nat /\ (n - 1) + 1 = n
  BY <1>1
<1>5. /\ Cardinality(CountedIn(S, n)) = Cardinality(CountedIn(S, n - 1)) + (IF Counts(r) THEN 1 ELSE 0)
      /\ Cardinality(CountedIn(S, n - 1)) \in Nat
  BY <1>4, CountStep
<1>6. /\ Cardinality(WallsIn(S, u, n)) = Cardinality(WallsIn(S, u, n - 1)) + (IF Walls(r) THEN 1 ELSE 0)
      /\ Cardinality(WallsIn(S, u, n - 1)) \in Nat
  <2>1. /\ Cardinality(WallsIn(S, u, (n - 1) + 1)) =
             Cardinality(WallsIn(S, u, n - 1))
               + (IF S[(n - 1) + 1].L = u /\ Walls(S[(n - 1) + 1]) THEN 1 ELSE 0)
        /\ Cardinality(WallsIn(S, u, n - 1)) \in Nat
    BY <1>4, WallStep
  <2>2. QED
    BY <1>4, <2>1
<1>7. Innermost(S, u, n - 1, e[u])
  <2>1. Innermost(S, u, n, e[u])
    BY <1>1 DEF Good, Jumps
  <2>2. ProtectedIn(S, u, n) = ProtectedIn(S, u, n - 1)
    BY <1>1 DEF ProtectedIn
  <2>3. QED
    BY <2>1, <2>2 DEF Innermost
<1>8. Others(u, e, nn, nc, e, nn2, nc2)
  BY DEF Others
<1>9. nn2[u] = Own(u) + Cardinality(WallsIn(S, u, n - 1))
  BY <1>1, <1>6 DEF Own
<1>10. nc2[u] = Cardinality(CountedIn(S, n - 1))
  BY <1>1, <1>5
<1>11. \A i \in (n - 1) + 1 .. n : S[i].L = u
  BY <1>1
<1>12. nn[u] \in Nat /\ (Walls(r) => nn[u] > 0) /\ (Counts(r) => nc[u] > 0)
  BY <1>1, <1>5, <1>6 DEF Own
<1> HIDE DEF nn2, nc2
<1>13. Good(T, e, nn2, nc2)
  <2>1. \A i \in 1 .. n - 1 : S[i].L = u => /\ nn2[u] = Own(u) + Cardinality(WallsIn(S, u, n - 1))
                                            /\ S[n - 1].L = u
                                            /\ nc2[u] = Cardinality(CountedIn(S, n - 1))
    BY <1>3, <1>9, <1>10
  <2>2. CanGo(S, u, n - 1, e, nn2, nc2)
    BY <1>7, <1>11, <2>1 DEF CanGo
  <2>3. QED
    BY <1>4, <1>8, <2>2, CutGood
<1>14. QED
  BY <1>2, <1>3, <1>12, <1>13 DEF nn2, nc2

\* A jump, or a return, to the record that protects the running thread.
Target(S, j) ==
  /\ j \in 1 .. Len(S) /\ Protects(S[j]) /\ Record(S[j]) /\ Saved(S, j)
  /\ \A i \in j .. Len(S) : S[i].L = S[Len(S)].L
  /\ S[j].op = "pcall" /\ j > 1 => S[j - 1].L = S[j].L
  /\ S[j].op = "resume" => /\ j > 1
                           /\ \A i \in 1 .. j - 1 : S[i].L # S[j].L
                           /\ S[j - 1].op = "body"
                           /\ \A i \in j + 1 .. Len(S) : ~ Protects(S[i])

\* What errorJmp of the running thread points to.
LEMMA JumpTo ==
  ASSUME NEW S, NEW e, NEW nn, NEW nc, Good(S, e, nn, nc), S # <<>>
  PROVE  Target(S, e[S[Len(S)].L])
<1> DEFINE n == Len(S)
           u == S[n].L
           j == e[u]
<1>1. IsStack(S) /\ n \in Nat \ {0} /\ u \in Threads /\ \A i \in 1 .. n : Record(S[i])
  BY GoodLast
<1>2. Innermost(S, u, n, j)
  BY <1>1 DEF Good, Jumps
<1>3. j \in 1 .. n /\ Protects(S[j]) /\ \A i \in j .. n : S[i].L = u
  BY <1>2, Above DEF Good
<1>4. Saved(S, j)
  BY <1>3 DEF Good
<1>5. ASSUME S[j].op = "pcall", j > 1, S[j - 1].L # S[j].L PROVE FALSE
  <2>1. j - 1 \in 1 .. n /\ j - 1 < j
    BY <1>1, <1>3, <1>5
  <2>2. PICK m \in (j - 1) + 1 .. j : S[m].op = "resume" /\ S[m].L = S[j].L
    BY <1>3, <1>5, <2>1 DEF Good, Stacked
  <2>3. m = j
    BY <1>1, <1>3, <2>2
  <2>4. QED
    BY <1>5, <2>2, <2>3
<1>6. ASSUME S[j].op = "resume"
      PROVE  /\ j > 1 /\ \A i \in 1 .. j - 1 : S[i].L # S[j].L
             /\ S[j - 1].op = "body"
             /\ \A i \in j + 1 .. n : ~ Protects(S[i])
  <2>1. j > 1
    BY <1>1, <1>3, <1>6 DEF Good, Stacked
  <2>2. S[j - 1].op = "body"
    BY <1>3, <1>6, <2>1 DEF Good, Stacked
  <2>3. ASSUME NEW i \in 1 .. j - 1 PROVE S[i].L # S[j].L
    <3>1. i \in 1 .. n /\ i < j
      BY <1>1, <1>3
    <3>2. QED
      BY <1>3, <1>6, <3>1 DEF Good, Stacked
  <2>4. ASSUME NEW i \in j + 1 .. n, Protects(S[i]) PROVE FALSE
    <3>1. i \in ProtectedIn(S, u, n)
      BY <1>1, <1>3, <2>4 DEF ProtectedIn
    <3>2. i <= j
      BY <1>2, <3>1 DEF Innermost
    <3>3. QED
      BY <1>1, <1>3, <3>2
  <2>5. QED
    BY <2>1, <2>2, <2>3, <2>4
<1>7. QED
  BY <1>1, <1>3, <1>4, <1>5, <1>6 DEF Target

\* The protected call r is left, from C stack S to T.
Leaves(S, e, nn, nc, u, j, r, T, e2, nn2, nc2) ==
  /\ S # <<>> /\ u = S[Len(S)].L /\ j = e[u]
  /\ r = S[j] /\ r.op = "pcall"
  /\ Cut(S, T, j - 1)
  /\ e2 = [e EXCEPT ![u] = r.previous]
  /\ nn2 = [nn EXCEPT ![u] = r.nny]
  /\ nc2 = [nc EXCEPT ![u] = r.nCcalls]

\* The counters after a protected call are those from before it.
LEMMA CutPcall ==
  ASSUME NEW S, NEW e \in [Threads -> Nat], NEW nn \in [Threads -> Nat], NEW nc \in [Threads -> Nat],
         Good(S, e, nn, nc), NEW u, NEW j, NEW r, NEW T,
         NEW e2, NEW nn2, NEW nc2, Leaves(S, e, nn, nc, u, j, r, T, e2, nn2, nc2)
  PROVE  Good(T, e2, nn2, nc2) /\ (T # <<>> => T[Len(T)].L = u)
<1> DEFINE n == Len(S)
<1>0. /\ S # <<>> /\ u = S[Len(S)].L /\ j = e[u]
      /\ r = S[j] /\ r.op = "pcall" /\ Cut(S, T, j - 1)
  BY DEF Leaves
<1>1. IsStack(S) /\ n \in Nat \ {0} /\ u \in Threads
  BY <1>0, GoodLast
<1>2. /\ j \in 1 .. n /\ Saved(S, j) /\ r.L = u
      /\ \A i \in j .. n : S[i].L = u
      /\ j > 1 => S[j - 1].L = u
  <2>1. Target(S, j)
    BY <1>0, JumpTo
  <2>2. j \in 1 .. n /\ Saved(S, j) /\ \A i \in j .. n : S[i].L = u
    BY <1>0, <2>1 DEF Target
  <2>3. r.L = u
    <3>1. j \in j .. Len(S)
      BY <1>1, <2>2
    <3>2. QED
      BY <1>0, <2>2, <3>1
  <2>4. QED
    BY <1>0, <1>1, <2>1, <2>2, <2>3 DEF Target
<1>3. j - 1 \in Nat /\ (j - 1) + 1 = j
  BY <1>1, <1>2
<1>4. /\ Innermost(S, u, j - 1, r.previous)
      /\ r.nCcalls = Cardinality(CountedIn(S, j - 1))
      /\ r.nny = Own(u) + Cardinality(WallsIn(S, u, j - 1))
  BY <1>0, <1>2 DEF Saved, Protects
<1>5. Others(u, e, nn, nc, e2, nn2, nc2)
  BY DEF Others, Leaves
<1>6. e2[u] = r.previous /\ nn2[u] = r.nny /\ nc2[u] = r.nCcalls
  BY <1>1 DEF Leaves
<1>7. \A i \in 1 .. j - 1 : S[i].L = u => S[j - 1].L = u
  BY <1>1, <1>2
<1>8. Good(T, e2, nn2, nc2)
  <2>1. \A i \in (j - 1) + 1 .. Len(S) : S[i].L = u
    BY <1>2, <1>3
  <2>2. Innermost(S, u, j - 1, e2[u])
    BY <1>4, <1>6
  <2>3. \A i \in 1 .. j - 1 : S[i].L = u => /\ nn2[u] = Own(u) + Cardinality(WallsIn(S, u, j - 1))
                                            /\ S[j - 1].L = u
                                            /\ nc2[u] = Cardinality(CountedIn(S, j - 1))
    BY <1>4, <1>6, <1>7
  <2>4. CanGo(S, u, j - 1, e2, nn2, nc2)
    BY <2>1, <2>2, <2>3 DEF CanGo
  <2>5. QED
    BY <1>0, <1>3, <1>5, <2>4, CutGood
<1>9. ASSUME T # <<>> PROVE T[Len(T)].L = u
  <2>1. IsStack(T) /\ Len(T) = j - 1 /\ \A i \in 1 .. j - 1 : T[i] = S[i]
    BY <1>0 DEF Cut
  <2>2. j - 1 \in Nat \ {0} /\ j \in Nat
    BY <1>1, <1>2, <1>3, <1>9, <2>1, StackFacts
  <2>3. j - 1 \in 1 .. j - 1 /\ j > 1
    BY <2>2
  <2>5. T[j - 1] = S[j - 1]
    BY <2>1, <2>3
  <2>4. QED
    BY <1>2, <2>1, <2>3, <2>5
<1>10. QED
  BY <1>8, <1>9

\* lua_resume returns: its thread is off the C stack.
LEMMA CutResume ==
  ASSUME NEW S, NEW e \in [Threads -> Nat], NEW nn \in [Threads -> Nat], NEW nc \in [Threads -> Nat],
         Good(S, e, nn, nc), S # <<>>, NEW u, u = S[Len(S)].L, NEW j, j = e[u],
         NEW r, r = S[j], r.op = "resume", NEW T, Cut(S, T, j - 1), NEW x, NEW y
  PROVE  /\ Good(T, [e EXCEPT ![u] = r.previous], [nn EXCEPT ![u] = x], [nc EXCEPT ![u] = y])
         /\ ~ Has(T, u) /\ j > 1
<1> DEFINE n == Len(S)
           e2 == [e EXCEPT ![u] = r.previous]
           nn2 == [nn EXCEPT ![u] = x]
           nc2 == [nc EXCEPT ![u] = y]
<1>1. IsStack(S) /\ n \in Nat \ {0} /\ u \in Threads
  BY GoodLast
<1>2. /\ j \in 1 .. n /\ Saved(S, j) /\ r.L = u /\ j > 1
      /\ \A i \in j .. n : S[i].L = u
      /\ \A i \in 1 .. j - 1 : S[i].L # u
  <2>1. Target(S, j)
    BY JumpTo
  <2>2. j \in 1 .. n /\ Saved(S, j) /\ \A i \in j .. n : S[i].L = u
    BY <2>1 DEF Target
  <2>3. r.L = u
    <3>1. j \in j .. Len(S)
      BY <1>1, <2>2
    <3>2. QED
      BY <2>2, <3>1
  <2>4. QED
    BY <1>1, <2>1, <2>2, <2>3 DEF Target
<1>3. j - 1 \in Nat /\ (j - 1) + 1 = j
  BY <1>1, <1>2
<1>4. Innermost(S, u, j - 1, r.previous)
  BY <1>2 DEF Saved, Protects
<1>5. Others(u, e, nn, nc, e2, nn2, nc2)
  BY DEF Others
<1>6. e2[u] = r.previous
  BY <1>1
<1> HIDE DEF e2, nn2, nc2
<1>7. Good(T, e2, nn2, nc2)
  <2>1. \A i \in (j - 1) + 1 .. Len(S) : S[i].L = u
    BY <1>2, <1>3
  <2>2. Innermost(S, u, j - 1, e2[u])
    BY <1>4, <1>6
  <2>3. \A i \in 1 .. j - 1 : S[i].L = u => /\ nn2[u] = Own(u) + Cardinality(WallsIn(S, u, j - 1))
                                            /\ S[j - 1].L = u
                                            /\ nc2[u] = Cardinality(CountedIn(S, j - 1))
    BY <1>2
  <2>4. CanGo(S, u, j - 1, e2, nn2, nc2)
    BY <2>1, <2>2, <2>3 DEF CanGo
  <2>5. QED
    BY <1>3, <1>5, <2>4, CutGood
<1>8. ~ Has(T, u)
  BY <1>1, <1>2, <1>3 DEF Has, Cut
<1>9. QED
  BY <1>2, <1>7, <1>8 DEF e2, nn2, nc2

\* lua_resume recovers from an error.
Recovers(S, e, nn, nc, u, j, T, nn2, nc2) ==
  /\ S # <<>> /\ u = S[Len(S)].L /\ j = e[u] /\ S[j].op = "resume"
  /\ Cut(S, T, j)
  /\ nn2 = [nn EXCEPT ![u] = 0]
  /\ nc2 = [nc EXCEPT ![u] = S[j].nCcalls]

\* The counters when lua_resume recovers are those from when it began.
LEMMA CutRecover ==
  ASSUME NEW S, NEW e \in [Threads -> Nat], NEW nn \in [Threads -> Nat], NEW nc \in [Threads -> Nat],
         Good(S, e, nn, nc), NEW u, NEW j, NEW T, NEW nn2, NEW nc2,
         Recovers(S, e, nn, nc, u, j, T, nn2, nc2)
  PROVE  Good(T, e, nn2, nc2) /\ T # <<>> /\ T[Len(T)].L = u
<1> DEFINE n == Len(S)
           r == S[j]
<1>0. S # <<>> /\ u = S[Len(S)].L /\ j = e[u] /\ r.op = "resume" /\ Cut(S, T, j)
  BY DEF Recovers
<1>1. IsStack(S) /\ n \in Nat \ {0} /\ u \in Threads
  BY <1>0, GoodLast
<1>2. /\ j \in 1 .. n /\ Saved(S, j) /\ r.L = u /\ j > 1
      /\ \A i \in j .. n : S[i].L = u
      /\ \A i \in 1 .. j - 1 : S[i].L # u
  <2>1. Target(S, j)
    BY <1>0, JumpTo
  <2>2. j \in 1 .. n /\ Saved(S, j) /\ \A i \in j .. n : S[i].L = u
    BY <1>0, <2>1 DEF Target
  <2>3. r.L = u
    <3>1. j \in j .. Len(S)
      BY <1>1, <2>2
    <3>2. QED
      BY <1>0, <2>2, <3>1
  <2>4. QED
    BY <1>0, <1>1, <2>1, <2>2, <2>3 DEF Target
<1>3. WallsIn(S, u, j) = {}
  BY <1>0, <1>1, <1>2 DEF WallsIn, Walls
<1>4. u # Main
  BY <1>1, <1>2 DEF Good, Stacked
<1>5. r.nCcalls = Cardinality(CountedIn(S, j))
  BY <1>0, <1>2 DEF Saved
<1>6. Innermost(S, u, j, e[u])
  <2>1. j \in ProtectedIn(S, u, j) /\ \A i \in ProtectedIn(S, u, j) : i <= j
    BY <1>0, <1>1, <1>2 DEF ProtectedIn, Protects
  <2>2. QED
    BY <1>0, <2>1 DEF Innermost
<1>7. Others(u, e, nn, nc, e, nn2, nc2)
  BY DEF Others, Recovers
<1>8. nn2[u] = Own(u) + Cardinality(WallsIn(S, u, j)) /\ nc2[u] = Cardinality(CountedIn(S, j))
  <2>1. nn2[u] = 0 /\ nc2[u] = r.nCcalls
    BY <1>1 DEF Recovers
  <2>2. QED
    BY <1>3, <1>4, <1>5, <2>1, FS_EmptySet DEF Own
<1>9. \A i \in j + 1 .. n : S[i].L = u
  BY <1>1, <1>2
<1>10. Good(T, e, nn2, nc2)
  <2>1. \A i \in 1 .. j : S[i].L = u => /\ nn2[u] = Own(u) + Cardinality(WallsIn(S, u, j))
                                        /\ S[j].L = u
                                        /\ nc2[u] = Cardinality(CountedIn(S, j))
    BY <1>2, <1>8
  <2>2. j \in Nat
    BY <1>1, <1>2
  <2>3. CanGo(S, u, j, e, nn2, nc2)
    BY <1>6, <1>9, <2>1 DEF CanGo
  <2>4. QED
    BY <1>0, <1>7, <2>2, <2>3, CutGood
<1>11. T # <<>> /\ T[Len(T)].L = u
  <2>1. IsStack(T) /\ Len(T) = j /\ \A i \in 1 .. j : T[i] = S[i]
    BY <1>0 DEF Cut
  <2>2. j \in Nat \ {0} /\ j \in 1 .. j
    BY <1>1, <1>2
  <2>3. QED
    BY <1>2, <2>1, <2>2, StackFacts
<1>12. QED
  BY <1>10, <1>11

\* A thread that is not there can change.
LEMMA OffStack ==
  ASSUME NEW S, NEW e, NEW nn, NEW nc, Good(S, e, nn, nc), NEW u \in Threads, ~ Has(S, u),
         NEW e2, NEW nn2, NEW nc2, Others(u, e, nn, nc, e2, nn2, nc2), e2[u] \in {0, e[u]}
  PROVE  Good(S, e2, nn2, nc2)
<1>1. IsStack(S) /\ Len(S) \in Nat
  BY StackFacts DEF Good, Stacked
<1>2. ProtectedIn(S, u, Len(S)) = {}
  BY DEF Has, ProtectedIn
<1>3. e[u] = 0
  BY <1>2 DEF Good, Jumps, Innermost
<1>4. Jumps(S, e2)
  <2>1. ASSUME NEW t \in Threads PROVE Innermost(S, t, Len(S), e2[t])
    <3>1. e2[t] = e[t]
      BY <1>3 DEF Others
    <3>2. QED
      BY <3>1 DEF Good, Jumps
  <2>2. QED
    BY <2>1 DEF Jumps
<1>5. YieldsCounted(S, nn2)
  BY DEF Good, YieldsCounted, Others
<1>6. CCallsCounted(S, nc2)
  <2>1. ASSUME NEW t \in Threads, NEW j \in 1 .. Len(S), Latest(S, t, j)
        PROVE  nc2[t] = Cardinality(CountedIn(S, j))
    <3>1. t # u
      BY <2>1 DEF Latest, Has
    <3>2. QED
      BY <2>1, <3>1 DEF Good, CCallsCounted, Others
  <2>2. QED
    BY <2>1 DEF CCallsCounted
<1>7. QED
  BY <1>4, <1>5, <1>6 DEF Good

-----------------------------------------------------------------------------
(* The inductive invariant                                                   *)

Points == {"run", "call", "return", "throw", "end"}
Types ==
  /\ status \in [Threads -> Codes] /\ ready \in [Threads -> BOOLEAN]
  /\ nny \in [Threads -> Nat] /\ nCcalls \in [Threads -> 0 .. Limit]
  /\ errorJmp \in [Threads -> Nat]
  /\ ctl \in [at : Points, L : Threads, code : Codes]

\* What the step under way needs of the C stack.
Control ==
  IF ctl.at = "end" THEN C = <<>>
  ELSE /\ C # <<>> /\ Top.L = L
       /\ ctl.at \in {"run", "return"} => nCcalls[L] < Limit

\* A thread on the C stack runs, until it yields; and it yields only when it can.
Yielding(t) == ctl.at = "throw" /\ ctl.code = "yield" /\ t = L
Alive ==
  \A t \in Threads :
    /\ Has(C, t) => ~ ready[t] /\ (status[t] = "ok" \/ Yielding(t))
    /\ ready[t] => status[t] = "ok"
    /\ Yielding(t) => nny[t] = 0

IInv == Types /\ Good(C, errorJmp, nny, nCcalls) /\ Control /\ Alive

\* The threads on the C stack, after a push, and after a cut.
LEMMA HasPushed ==
  ASSUME NEW S, IsStack(S), NEW T, NEW r, Pushed(S, T, r), NEW t
  PROVE  Has(T, t) <=> Has(S, t) \/ r.L = t
<1>1. Len(S) \in Nat /\ Len(T) = Len(S) + 1 /\ T[Len(S) + 1] = r /\ \A i \in 1 .. Len(S) : T[i] = S[i]
  BY StackFacts DEF Pushed
<1>2. ASSUME Has(T, t), r.L # t PROVE Has(S, t)
  BY <1>1, <1>2 DEF Has
<1>3. ASSUME Has(S, t) PROVE Has(T, t)
  BY <1>1, <1>3 DEF Has
<1>4. ASSUME r.L = t PROVE Has(T, t)
  BY <1>1, <1>4 DEF Has
<1>5. QED
  BY <1>2, <1>3, <1>4

LEMMA HasCut ==
  ASSUME NEW S, NEW T, NEW n, Cut(S, T, n), IsStack(S), NEW t, Has(T, t)
  PROVE  Has(S, t)
<1>1. Len(S) \in Nat /\ Len(T) = n /\ n <= Len(S) /\ \A i \in 1 .. n : T[i] = S[i] /\ n \in Nat
  BY StackFacts DEF Cut
<1>2. QED
  BY <1>1 DEF Has

\* The limit on nested C calls.
LEMMA LimitIs == Limit \in Nat \ {0} /\ MaxCCalls \in Nat \ {0} /\ MaxCCalls < Limit
BY CallsAssumption DEF Limit

\* What updates of a field of the threads preserve.
LEMMA Add ==
  ASSUME NEW f \in [Threads -> Nat], NEW u \in Threads
  PROVE  [f EXCEPT ![u] = @ + 1] \in [Threads -> Nat]
<1>1. f[u] + 1 \in Nat
  OBVIOUS
<1>2. QED
  BY <1>1

LEMMA Set ==
  ASSUME NEW X, NEW f \in [Threads -> X], NEW u \in Threads, NEW x \in X
  PROVE  [f EXCEPT ![u] = x] \in [Threads -> X]
OBVIOUS

LEMMA Count ==
  ASSUME NEW f \in [Threads -> 0 .. Limit], NEW u \in Threads, f[u] < Limit
  PROVE  [f EXCEPT ![u] = @ + 1] \in [Threads -> 0 .. Limit] /\ f[u] + 1 \in 0 .. Limit
<1>1. \A m \in 0 .. Limit : m < Limit => m + 1 \in 0 .. Limit
  BY LimitIs
<1>2. f[u] + 1 \in 0 .. Limit
  BY <1>1
<1>3. QED
  BY <1>2

\* The state before a step that does not end the program.
LEMMA Before ==
  ASSUME IInv, ctl.at # "end"
  PROVE  /\ C # <<>> /\ IsStack(C) /\ Len(C) \in Nat \ {0}
         /\ L \in Threads /\ C[Len(C)].L = L /\ Top.L = L /\ Top = C[Len(C)] /\ Record(Top)
         /\ Has(C, L) /\ nCcalls[L] = Cardinality(CountedIn(C, Len(C)))
         /\ Good(C, errorJmp, nny, nCcalls)
         /\ errorJmp \in [Threads -> Nat] /\ nny \in [Threads -> Nat] /\ nCcalls \in [Threads -> Nat]
         /\ nCcalls \in [Threads -> 0 .. Limit]
<1>1. C # <<>> /\ Top.L = L /\ Good(C, errorJmp, nny, nCcalls) /\ ctl.L \in Threads
  BY DEF IInv, Control, Types
<1>2. Top = C[Len(C)] /\ L \in Threads
  BY <1>1 DEF Top, L
<1>3. nCcalls \in [Threads -> Nat]
  <2>1. 0 .. Limit \subseteq Nat
    OBVIOUS
  <2>2. QED
    BY <2>1 DEF IInv, Types
<1>4. QED
  BY <1>1, <1>2, <1>3, GoodLast DEF IInv, Types

\* What is pushed is on top.
LEMMA TopPushed ==
  ASSUME NEW S, IsStack(S), NEW T, NEW r, Pushed(S, T, r)
  PROVE  IsStack(T) /\ T # <<>> /\ Len(T) = Len(S) + 1 /\ T[Len(T)] = r
<1>1. Len(S) \in Nat /\ IsStack(T) /\ Len(T) = Len(S) + 1 /\ T[Len(S) + 1] = r
  BY StackFacts DEF Pushed
<1>2. T # <<>>
  BY <1>1, StackFacts
<1>3. QED
  BY <1>1, <1>2

\* Nobody comes onto the C stack, and nobody yields.
LEMMA AliveKept ==
  ASSUME Alive, \A t \in Threads : ~ Yielding(t), UNCHANGED <<status, ready>>,
         \A t \in Threads : Has(C', t) => Has(C, t),
         ctl'.at # "throw" \/ ctl'.code # "yield"
  PROVE  Alive'
<1>1. \A t \in Threads : ~ Yielding(t)'
  BY DEF Yielding
<1>2. QED
  BY <1>1 DEF Alive

-----------------------------------------------------------------------------
(* Every step preserves it                                                   *)

\* luaD_call and luaD_callnoyield.
LEMMA CallStep ==
  ASSUME IInv, ctl.at \in {"run", "call"}, nCcalls[L] < Limit,
         NEW noyield \in BOOLEAN, NEW then \in {"proceed", "unprotect", "throw"},
         luaD_call(noyield, then), UNCHANGED <<status, ready, errorJmp>>
  PROVE  IInv'
<1> DEFINE r == [op |-> "call", L |-> L, ci |-> Len(frames), noyield |-> noyield, then |-> then]
<1>1. /\ C # <<>> /\ IsStack(C) /\ L \in Threads /\ C[Len(C)].L = L /\ Has(C, L)
      /\ Good(C, errorJmp, nny, nCcalls)
      /\ errorJmp \in [Threads -> Nat] /\ nny \in [Threads -> Nat] /\ nCcalls \in [Threads -> Nat]
      /\ nCcalls \in [Threads -> 0 .. Limit]
  BY Before
<1>2. /\ nny' = IF noyield THEN [nny EXCEPT ![L] = @ + 1] ELSE nny
      /\ nCcalls' = [nCcalls EXCEPT ![L] = @ + 1]
      /\ C' = Append(C, r) /\ ctl' = [at |-> "call", L |-> L, code |-> "ok"]
  BY DEF luaD_call, At
<1>3. /\ Record(r) /\ r.op = "call" /\ r.L = L
      /\ Walls(r) <=> noyield
      /\ Counts(r)
  BY <1>1 DEF Record, Walls, Counts
<1> HIDE DEF r
<1>4. Pushed(C, C', r)
  BY <1>1, <1>2, <1>3, PushedIs
<1>5. Good(C', errorJmp', nny', nCcalls')
  <2>1. Good(C', IF r.op = "pcall" THEN [errorJmp EXCEPT ![r.L] = Len(C) + 1] ELSE errorJmp,
                 IF Walls(r) THEN [nny EXCEPT ![r.L] = @ + 1] ELSE nny,
                 IF Counts(r) THEN [nCcalls EXCEPT ![r.L] = @ + 1] ELSE nCcalls)
    BY <1>1, <1>3, <1>4, PushOwn
  <2>2. QED
    BY <1>2, <1>3, <2>1
<1>6. Types'
  <2>1. ctl' \in [at : Points, L : Threads, code : Codes]
    BY <1>1, <1>2 DEF Points, Codes
  <2>2. nCcalls' \in [Threads -> 0 .. Limit]
    BY <1>1, <1>2, Count
  <2>3. nny' \in [Threads -> Nat]
    BY <1>1, <1>2, Add
  <2>4. QED
    BY <2>1, <2>2, <2>3 DEF IInv, Types
<1>7. Control'
  <2>1. C' # <<>> /\ C'[Len(C')] = r
    BY <1>1, <1>4, TopPushed
  <2>2. QED
    BY <1>2, <1>3, <2>1 DEF Control, Top, L
<1>8. Alive'
  <2>1. \A t \in Threads : Has(C', t) => Has(C, t)
    BY <1>1, <1>3, <1>4, HasPushed
  <2>2. \A t \in Threads : ~ Yielding(t)
    BY DEF Yielding
  <2>3. QED
    BY <1>2, <2>1, <2>2, AliveKept DEF IInv
<1>9. QED
  BY <1>5, <1>6, <1>7, <1>8 DEF IInv

\* The C stack stays.
LEMMA StayStep ==
  ASSUME IInv, UNCHANGED <<status, ready, nny, nCcalls, errorJmp, C>>,
         NEW a \in {"run", "throw"}, NEW c \in Codes \ {"yield"},
         ctl.at \in {"run", "return"} \/ (ctl.at = "call" /\ a = "throw"),
         ctl' = [at |-> a, L |-> L, code |-> c]
  PROVE  IInv'
<1>1. C # <<>> /\ L \in Threads /\ Top.L = L /\ (a = "run" => nCcalls[L] < Limit)
  BY Before DEF IInv, Control
<1>2. Types'
  <2>1. ctl' \in [at : Points, L : Threads, code : Codes]
    BY <1>1 DEF Points
  <2>2. QED
    BY <2>1 DEF IInv, Types
<1>3. Good(C', errorJmp', nny', nCcalls')
  BY DEF IInv
<1>4. Control'
  BY <1>1 DEF Control, Top, L
<1>5. Alive'
  <2>1. \A t \in Threads : ~ Yielding(t)
    BY DEF Yielding
  <2>2. QED
    BY <2>1, AliveKept DEF IInv
<1>6. QED
  BY <1>2, <1>3, <1>4, <1>5 DEF IInv

\* A function begins, or goes on.
LEMMA WorkStep ==
  ASSUME IInv, UNCHANGED <<status, ready, nny, nCcalls, errorJmp>>,
         ctl.at \in {"run", "call", "return"}, nCcalls[L] < Limit,
         NEW lua, C' = Append(C, Working(L, lua)),
         ctl' \in [at : {"run"}, L : {L}, code : Codes]
  PROVE  IInv'
<1> DEFINE r == Working(L, lua)
<1>1. /\ C # <<>> /\ IsStack(C) /\ L \in Threads /\ C[Len(C)].L = L /\ Has(C, L)
      /\ Good(C, errorJmp, nny, nCcalls)
      /\ errorJmp \in [Threads -> Nat] /\ nny \in [Threads -> Nat] /\ nCcalls \in [Threads -> Nat]
  BY Before
<1>2. ctl'.at = "run" /\ ctl'.L = L
  OBVIOUS
<1>3. /\ r.op \in {"execute", "body"} /\ r.L = L
  BY DEF Working
<1> HIDE DEF r
<1>4. /\ Record(r) /\ r.op # "resume" /\ r.op # "pcall" /\ ~ Walls(r) /\ ~ Counts(r)
  BY <1>1, <1>3 DEF Record, Walls, Counts
<1>5. Pushed(C, C', r)
  BY <1>1, <1>4, PushedIs DEF r
<1>6. Good(C', errorJmp', nny', nCcalls')
  <2>1. Good(C', IF r.op = "pcall" THEN [errorJmp EXCEPT ![r.L] = Len(C) + 1] ELSE errorJmp,
                 IF Walls(r) THEN [nny EXCEPT ![r.L] = @ + 1] ELSE nny,
                 IF Counts(r) THEN [nCcalls EXCEPT ![r.L] = @ + 1] ELSE nCcalls)
    BY <1>1, <1>3, <1>4, <1>5, PushOwn
  <2>2. QED
    BY <1>4, <2>1
<1>7. Types'
  <2>1. ctl' \in [at : Points, L : Threads, code : Codes]
    BY <1>1 DEF Points
  <2>2. QED
    BY <2>1 DEF IInv, Types
<1>8. Control'
  <2>1. C' # <<>> /\ C'[Len(C')] = r
    BY <1>1, <1>5, TopPushed
  <2>2. QED
    BY <1>2, <1>3, <2>1 DEF Control, Top, L
<1>9. Alive'
  <2>1. \A t \in Threads : Has(C', t) => Has(C, t)
    BY <1>1, <1>3, <1>5, HasPushed
  <2>2. \A t \in Threads : ~ Yielding(t)
    BY DEF Yielding
  <2>3. QED
    BY <1>2, <2>1, <2>2, AliveKept DEF IInv
<1>10. QED
  BY <1>6, <1>7, <1>8, <1>9 DEF IInv

\* luaD_pcall.
LEMMA PcallStep ==
  ASSUME IInv, ctl.at \in {"run", "call"}, nCcalls[L] < Limit, NEW h, NEW gc \in BOOLEAN,
         luaD_pcall(h, gc), UNCHANGED <<status, ready>>
  PROVE  IInv'
<1> DEFINE r == [op |-> "pcall", L |-> L, ci |-> Len(frames), nny |-> nny[L],
                 errfunc |-> errfunc[L], nCcalls |-> nCcalls[L],
                 previous |-> errorJmp[L], gc |-> gc, running |-> gc /\ gcrunning]
<1>1. /\ C # <<>> /\ IsStack(C) /\ L \in Threads /\ C[Len(C)].L = L /\ Has(C, L)
      /\ Good(C, errorJmp, nny, nCcalls)
      /\ errorJmp \in [Threads -> Nat] /\ nny \in [Threads -> Nat] /\ nCcalls \in [Threads -> Nat]
      /\ nCcalls \in [Threads -> 0 .. Limit] /\ Len(C) \in Nat
  BY Before
<1>2. nCcalls[L] < Limit /\ nCcalls[L] \in 0 .. Limit - 1
  <2>1. \A m \in 0 .. Limit : m < Limit => m \in 0 .. Limit - 1
    BY LimitIs
  <2>2. QED
    BY <1>1, <2>1
<1>3. /\ nny' = [nny EXCEPT ![L] = @ + 1]
      /\ nCcalls' = [nCcalls EXCEPT ![L] = @ + 1]
      /\ errorJmp' = [errorJmp EXCEPT ![L] = Len(C) + 1]
      /\ C' = Append(C, r) /\ ctl' = [at |-> "call", L |-> L, code |-> "ok"]
  BY DEF luaD_pcall, At
<1>4. /\ r.op = "pcall" /\ r.L = L /\ r.previous = errorJmp[L] /\ r.nny = nny[L]
      /\ r.nCcalls = nCcalls[L] /\ r.gc = gc /\ r.running \in BOOLEAN
  OBVIOUS
<1> HIDE DEF r
<1>5. Record(r) /\ Walls(r) /\ Counts(r)
  BY <1>1, <1>2, <1>4 DEF Record, Walls, Counts
<1>6. Pushed(C, C', r)
  BY <1>1, <1>3, <1>5, PushedIs
<1>7. Good(C', errorJmp', nny', nCcalls')
  <2>1. Good(C', IF r.op = "pcall" THEN [errorJmp EXCEPT ![r.L] = Len(C) + 1] ELSE errorJmp,
                 IF Walls(r) THEN [nny EXCEPT ![r.L] = @ + 1] ELSE nny,
                 IF Counts(r) THEN [nCcalls EXCEPT ![r.L] = @ + 1] ELSE nCcalls)
    BY <1>1, <1>4, <1>5, <1>6, PushOwn
  <2>2. QED
    BY <1>3, <1>4, <1>5, <2>1
<1>8. Types'
  <2>1. ctl' \in [at : Points, L : Threads, code : Codes]
    BY <1>1, <1>3 DEF Points, Codes
  <2>2. nCcalls' \in [Threads -> 0 .. Limit]
    BY <1>1, <1>2, <1>3, Count
  <2>3. nny' \in [Threads -> Nat]
    BY <1>1, <1>3, Add
  <2>4. errorJmp' \in [Threads -> Nat]
    BY <1>1, <1>3
  <2>5. QED
    BY <2>1, <2>2, <2>3, <2>4 DEF IInv, Types
<1>9. Control'
  <2>1. C' # <<>> /\ C'[Len(C')] = r
    BY <1>1, <1>6, TopPushed
  <2>2. QED
    BY <1>3, <1>4, <2>1 DEF Control, Top, L
<1>10. Alive'
  <2>1. \A t \in Threads : Has(C', t) => Has(C, t)
    BY <1>1, <1>4, <1>6, HasPushed
  <2>2. \A t \in Threads : ~ Yielding(t)
    BY DEF Yielding
  <2>3. QED
    BY <1>3, <2>1, <2>2, AliveKept DEF IInv
<1>11. QED
  BY <1>7, <1>8, <1>9, <1>10 DEF IInv

\* The last record goes.
LEMMA FrontIs ==
  ASSUME NEW S, IsStack(S), S # <<>>
  PROVE  Cut(S, Front(S), Len(S) - 1) /\ Front(S) = SubSeq(S, 1, Len(S) - 1)
<1>1. Len(S) \in Nat \ {0} /\ Len(S) - 1 \in 0 .. Len(S)
  BY StackFacts
<1>2. QED
  BY <1>1, CutIs DEF Front

\* A called function has returned, or returns.
LEMMA PopStep ==
  ASSUME IInv, ctl.at \in {"run", "return"}, ~ Protects(Top), C' = Front(C),
         nny' = IF Walls(Top) THEN [nny EXCEPT ![L] = @ - 1] ELSE nny,
         nCcalls' = IF Counts(Top) THEN [nCcalls EXCEPT ![L] = @ - 1] ELSE nCcalls,
         UNCHANGED <<status, ready, errorJmp>>,
         NEW a \in {"run", "return", "throw"}, NEW c \in Codes \ {"yield"},
         ctl' = [at |-> a, L |-> L, code |-> c]
  PROVE  IInv'
<1>1. /\ C # <<>> /\ IsStack(C) /\ L \in Threads /\ C[Len(C)].L = L /\ Has(C, L)
      /\ Good(C, errorJmp, nny, nCcalls) /\ Top = C[Len(C)] /\ Len(C) \in Nat
      /\ errorJmp \in [Threads -> Nat] /\ nny \in [Threads -> Nat] /\ nCcalls \in [Threads -> Nat]
      /\ nCcalls \in [Threads -> 0 .. Limit] /\ nCcalls[L] < Limit
  BY Before DEF IInv, Control
<1>2. Cut(C, C', Len(C) - 1)
  BY <1>1, FrontIs
<1>3. /\ Good(C', errorJmp, IF Walls(Top) THEN [nny EXCEPT ![Top.L] = @ - 1] ELSE nny,
                            IF Counts(Top) THEN [nCcalls EXCEPT ![Top.L] = @ - 1] ELSE nCcalls)
      /\ Len(C) > 1 /\ C[Len(C) - 1].L = Top.L
      /\ Walls(Top) => nny[Top.L] > 0
      /\ Counts(Top) => nCcalls[Top.L] > 0
  BY <1>1, <1>2, PopGood
<1>4. Good(C', errorJmp', nny', nCcalls')
  BY <1>1, <1>3
<1>5. Types' /\ nCcalls'[L] < Limit
  <2>1. ctl' \in [at : Points, L : Threads, code : Codes]
    BY <1>1 DEF Points
  <2>2. nny' \in [Threads -> Nat]
    <3>1. CASE ~ Walls(Top)
      BY <1>1, <3>1
    <3>2. CASE Walls(Top)
      <4>1. nny[L] \in Nat /\ nny[L] > 0
        BY <1>1, <1>3, <3>2
      <4>2. nny[L] - 1 \in Nat
        BY <4>1
      <4>3. QED
        BY <1>1, <3>2, <4>2
    <3>3. QED
      BY <3>1, <3>2
  <2>3. nCcalls' \in [Threads -> 0 .. Limit] /\ nCcalls'[L] < Limit
    <3>1. CASE ~ Counts(Top)
      BY <1>1, <3>1
    <3>2. CASE Counts(Top)
      <4>1. nCcalls[L] \in 0 .. Limit /\ nCcalls[L] > 0
        BY <1>1, <1>3, <3>2
      <4>2. nCcalls[L] - 1 \in 0 .. Limit /\ nCcalls[L] - 1 < Limit
        BY <4>1, LimitIs
      <4>3. QED
        BY <1>1, <3>2, <4>2
    <3>3. QED
      BY <3>1, <3>2
  <2>4. QED
    BY <2>1, <2>2, <2>3 DEF IInv, Types
<1>6. Control'
  <2>1. IsStack(C') /\ Len(C') = Len(C) - 1 /\ \A i \in 1 .. Len(C) - 1 : C'[i] = C[i]
    BY <1>2 DEF Cut
  <2>2. C' # <<>>
    BY <1>1, <1>3, <2>1, StackFacts
  <2>3. C'[Len(C')].L = L
    <3>1. Len(C) - 1 \in 1 .. Len(C) - 1
      BY <1>1, <1>3
    <3>2. QED
      BY <1>1, <1>3, <2>1, <3>1
  <2>4. QED
    BY <1>5, <2>2, <2>3 DEF Control, Top, L
<1>7. Alive'
  <2>1. \A t \in Threads : Has(C', t) => Has(C, t)
    BY <1>1, <1>2, HasCut
  <2>2. \A t \in Threads : ~ Yielding(t)
    BY DEF Yielding
  <2>3. QED
    BY <2>1, <2>2, AliveKept DEF IInv
<1>8. QED
  BY <1>4, <1>5, <1>6, <1>7 DEF IInv

\* The running thread is protected where errorJmp says.
LEMMA Protector ==
  ASSUME IInv, ctl.at # "end"
  PROVE  /\ Target(C, errorJmp[L]) /\ errorJmp[L] \in 1 .. Len(C)
         /\ Record(C[errorJmp[L]]) /\ Protects(C[errorJmp[L]])
         /\ Protects(Top) => errorJmp[L] = Len(C)
         /\ Cut(C, SubSeq(C, 1, errorJmp[L] - 1), errorJmp[L] - 1)
         /\ Cut(C, SubSeq(C, 1, errorJmp[L]), errorJmp[L])
<1> DEFINE j == errorJmp[L]
<1>1. /\ C # <<>> /\ IsStack(C) /\ L \in Threads /\ C[Len(C)].L = L /\ Top = C[Len(C)]
      /\ Good(C, errorJmp, nny, nCcalls) /\ Len(C) \in Nat \ {0}
  BY Before
<1>2. Target(C, j)
  BY <1>1, JumpTo
<1>3. j \in 1 .. Len(C) /\ Record(C[j]) /\ Protects(C[j])
  BY <1>2 DEF Target
<1>4. ASSUME Protects(Top) PROVE j = Len(C)
  <2>1. Innermost(C, L, Len(C), j)
    BY <1>1 DEF Good, Jumps
  <2>2. Len(C) \in ProtectedIn(C, L, Len(C))
    BY <1>1, <1>4 DEF ProtectedIn
  <2>3. Len(C) <= j
    BY <2>1, <2>2 DEF Innermost
  <2>4. QED
    BY <1>1, <1>3, <2>3
<1>5. j - 1 \in 0 .. Len(C) /\ j \in 0 .. Len(C)
  BY <1>1, <1>3
<1>6. Cut(C, SubSeq(C, 1, j - 1), j - 1) /\ Cut(C, SubSeq(C, 1, j), j)
  BY <1>1, <1>5, CutIs
<1>7. QED
  BY <1>2, <1>3, <1>4, <1>6

\* A protected call is left; the one of GCTM may throw again.
Leave(j, r) ==
  /\ j = errorJmp[L] /\ r = C[j] /\ r.op = "pcall"
  /\ C' = SubSeq(C, 1, j - 1)
  /\ nny' = [nny EXCEPT ![L] = r.nny]
  /\ nCcalls' = [nCcalls EXCEPT ![L] = r.nCcalls]
  /\ errorJmp' = [errorJmp EXCEPT ![L] = r.previous]

LEMMA LeaveStep ==
  ASSUME IInv, ctl.at # "end", \A t \in Threads : ~ Yielding(t),
         NEW j, NEW r, Leave(j, r), UNCHANGED <<status, ready>>,
         \/ GoOn(j - 1)
         \/ \E c \in Codes : r.gc /\ c # "yield" /\ ctl' = [at |-> "throw", L |-> L, code |-> c]
  PROVE  IInv'
<1>1. /\ C # <<>> /\ IsStack(C) /\ L \in Threads /\ C[Len(C)].L = L /\ Len(C) \in Nat
      /\ Good(C, errorJmp, nny, nCcalls)
      /\ errorJmp \in [Threads -> Nat] /\ nny \in [Threads -> Nat] /\ nCcalls \in [Threads -> Nat]
      /\ nCcalls \in [Threads -> 0 .. Limit]
  BY Before
<1>2. Cut(C, C', j - 1) /\ j \in 1 .. Len(C) /\ Record(r) /\ Target(C, j)
  BY Protector DEF Leave
<1>3. Good(C', errorJmp', nny', nCcalls') /\ (C' # <<>> => C'[Len(C')].L = L)
  <2>1. Leaves(C, errorJmp, nny, nCcalls, L, j, r, C', errorJmp', nny', nCcalls')
    BY <1>1, <1>2 DEF Leaves, Leave
  <2>2. QED
    BY <1>1, <2>1, CutPcall
<1>4. Good(C', errorJmp', nny', nCcalls')
  BY <1>3
<1>5. Len(C') = j - 1 /\ IsStack(C') /\ j \in Nat \ {0} /\ (C' = <<>> <=> j = 1)
  <2>1. Len(C') = j - 1 /\ IsStack(C') /\ j \in Nat \ {0}
    BY <1>1, <1>2 DEF Cut
  <2>2. C' = <<>> <=> Len(C') = 0
    BY <2>1, StackFacts
  <2>3. QED
    BY <2>1, <2>2
<1>6. r.nny \in Nat /\ r.nCcalls \in 0 .. Limit /\ r.nCcalls < Limit /\ r.previous \in Nat
  <2>1. r.nny \in Nat /\ r.nCcalls \in 0 .. Limit - 1
    BY <1>2 DEF Record, Leave
  <2>2. r.nCcalls \in 0 .. Limit /\ r.nCcalls < Limit
    BY <2>1, LimitIs
  <2>3. Innermost(C, r.L, j - 1, r.previous)
    BY <1>2 DEF Target, Saved, Protects, Leave
  <2>4. r.previous \in Nat
    BY <1>5, <2>3 DEF Innermost, ProtectedIn
  <2>5. QED
    BY <2>1, <2>2, <2>4
<1>7. \/ C' = <<>> /\ ctl' = [at |-> "end", L |-> Main, code |-> "ok"]
      \/ C' # <<>> /\ \E a \in {"run", "call"} : ctl' = [at |-> a, L |-> L, code |-> "ok"]
      \/ C' # <<>> /\ \E c \in Codes : c # "yield" /\ ctl' = [at |-> "throw", L |-> L, code |-> c]
  <2>1. CASE GoOn(j - 1) /\ j = 1
    BY <1>5, <2>1 DEF GoOn, At
  <2>2. CASE GoOn(j - 1) /\ j # 1
    <3>1. j - 1 # 0 /\ j > 1
      BY <1>5, <2>2
    <3>2. C[j - 1].L = L
      <4>1. j \in j .. Len(C)
        BY <1>2, <1>5
      <4>2. C[j - 1].L = C[j].L /\ C[j].L = C[Len(C)].L
        BY <1>2, <3>1, <4>1 DEF Target, Leave
      <4>3. QED
        BY <1>1, <4>2
    <3>3. QED
      BY <1>5, <2>2, <3>1, <3>2 DEF GoOn, At
  <2>3. CASE \E c \in Codes : r.gc /\ c # "yield" /\ ctl' = [at |-> "throw", L |-> L, code |-> c]
    <3>1. j # 1
      BY <1>1, <2>3 DEF Good, Stacked, Leave
    <3>2. QED
      BY <1>5, <2>3, <3>1
  <2>4. QED
    BY <2>1, <2>2, <2>3
<1>8. Types'
  <2>1. ctl' \in [at : Points, L : Threads, code : Codes]
    <3>1. Main \in Threads /\ "ok" \in Codes
      BY CallsAssumption DEF Codes
    <3>2. QED
      BY <1>1, <1>7, <3>1 DEF Points
  <2>2. nny' \in [Threads -> Nat] /\ nCcalls' \in [Threads -> 0 .. Limit] /\ errorJmp' \in [Threads -> Nat]
    BY <1>1, <1>6, Set DEF Leave
  <2>3. QED
    BY <2>1, <2>2 DEF IInv, Types
<1>9. Control'
  <2>1. nCcalls'[L] < Limit
    BY <1>1, <1>6 DEF Leave
  <2>2. CASE C' = <<>> /\ ctl' = [at |-> "end", L |-> Main, code |-> "ok"]
    BY <2>2 DEF Control
  <2>3. CASE C' # <<>> /\ ctl'.at # "end" /\ ctl'.L = L
    BY <1>3, <2>1, <2>3 DEF Control, Top, L
  <2>4. QED
    BY <1>7, <2>2, <2>3
<1>10. Alive'
  <2>1. \A t \in Threads : Has(C', t) => Has(C, t)
    BY <1>1, <1>2, HasCut
  <2>2. ctl'.at # "throw" \/ ctl'.code # "yield"
    BY <1>7
  <2>3. QED
    BY <2>1, <2>2, AliveKept DEF IInv
<1>11. QED
  BY <1>4, <1>8, <1>9, <1>10 DEF IInv

\* A resume returns.
LEMMA ResumedStep ==
  ASSUME IInv, ctl.at # "end", NEW j, j = errorJmp[L], C[j].op = "resume", NEW st,
         resumed(j, st), UNCHANGED ready,
         status' \in {status} \cup {[status EXCEPT ![L] = c] : c \in Codes}
  PROVE  IInv'
<1> DEFINE r == C[j]
<1>1. /\ C # <<>> /\ IsStack(C) /\ L \in Threads /\ C[Len(C)].L = L /\ Len(C) \in Nat /\ Has(C, L)
      /\ Good(C, errorJmp, nny, nCcalls)
      /\ errorJmp \in [Threads -> Nat] /\ nny \in [Threads -> Nat] /\ nCcalls \in [Threads -> Nat]
      /\ nCcalls \in [Threads -> 0 .. Limit]
  BY Before
<1>2. /\ errorJmp' = [errorJmp EXCEPT ![L] = r.previous]
      /\ nCcalls' = [nCcalls EXCEPT ![L] = r.nCcalls - 1]
      /\ nny' = [nny EXCEPT ![L] = r.nny]
      /\ C' = SubSeq(C, 1, j - 1)
      /\ GoOn(j - 1)
  BY DEF resumed
<1>3. Cut(C, C', j - 1) /\ j \in 1 .. Len(C) /\ Record(r) /\ Target(C, j)
  BY <1>2, Protector
<1>4. /\ Good(C', [errorJmp EXCEPT ![L] = r.previous], [nny EXCEPT ![L] = r.nny],
                  [nCcalls EXCEPT ![L] = r.nCcalls - 1])
      /\ ~ Has(C', L) /\ j > 1
  <2>1. /\ j = errorJmp[L] /\ r = C[j] /\ r.op = "resume" /\ Cut(C, C', j - 1)
        /\ C # <<>> /\ L = C[Len(C)].L
    BY <1>1, <1>3
  <2> DEFINE x == r.nny
             y == r.nCcalls - 1
  <2> HIDE DEF r, x, y
  <2>2. /\ Good(C', [errorJmp EXCEPT ![L] = r.previous], [nny EXCEPT ![L] = x], [nCcalls EXCEPT ![L] = y])
        /\ ~ Has(C', L) /\ j > 1
    BY <1>1, <2>1, CutResume
  <2>3. QED
    BY <2>2 DEF x, y
<1>5. Good(C', errorJmp', nny', nCcalls')
  BY <1>2, <1>4
<1>6. /\ Len(C') = j - 1 /\ IsStack(C') /\ C' # <<>> /\ j - 1 \in Nat \ {0}
      /\ \A i \in 1 .. j - 1 : C'[i] = C[i]
  <2>1. Len(C') = j - 1 /\ IsStack(C') /\ j - 1 \in Nat \ {0} /\ \A i \in 1 .. j - 1 : C'[i] = C[i]
    BY <1>1, <1>3, <1>4 DEF Cut
  <2>2. C' # <<>>
    BY <2>1, StackFacts
  <2>3. QED
    BY <2>1, <2>2
<1> DEFINE u == C'[Len(C')].L
<1>7. /\ u \in Threads /\ u # L /\ nCcalls'[u] = Cardinality(CountedIn(C', Len(C')))
      /\ C[j - 1].L = u
  <2>1. u \in Threads /\ Has(C', u) /\ nCcalls'[u] = Cardinality(CountedIn(C', Len(C')))
    BY <1>5, <1>6, GoodLast
  <2>2. j - 1 \in 1 .. j - 1
    BY <1>6
  <2>3. QED
    BY <1>4, <1>6, <2>1, <2>2
<1>8. /\ r.nny \in Nat /\ r.nCcalls \in 1 .. MaxCCalls - 1 /\ r.nCcalls = Cardinality(CountedIn(C, j))
      /\ r.previous \in Nat
  <2>1. r.nny \in Nat /\ r.nCcalls \in 1 .. MaxCCalls - 1
    BY <1>3 DEF Record
  <2>2. r.nCcalls = Cardinality(CountedIn(C, j)) /\ Innermost(C, r.L, j - 1, r.previous)
    BY <1>3 DEF Target, Saved, Protects
  <2>3. r.previous \in Nat
    BY <1>6, <2>2 DEF Innermost, ProtectedIn
  <2>4. QED
    BY <2>1, <2>2, <2>3
<1>9. nCcalls'[u] < Limit
  <2>1. CountedIn(C', j - 1) = CountedIn(C, j - 1)
    BY <1>6, SameCounted
  <2>2. /\ Cardinality(CountedIn(C, (j - 1) + 1)) =
             Cardinality(CountedIn(C, j - 1)) + (IF Counts(C[(j - 1) + 1]) THEN 1 ELSE 0)
        /\ Cardinality(CountedIn(C, j - 1)) \in Nat
    BY <1>6, CountStep
  <2>3. (j - 1) + 1 = j
    BY <1>1, <1>3
  <2>4. Cardinality(CountedIn(C, j - 1)) <= r.nCcalls
    BY <1>8, <2>2, <2>3
  <2>5. r.nCcalls < Limit /\ r.nCcalls \in Nat /\ Limit \in Nat
    BY <1>8, LimitIs
  <2>6. QED
    BY <1>6, <1>7, <2>1, <2>2, <2>4, <2>5
<1>10. ctl' = [at |-> "run", L |-> u, code |-> "ok"]
  <2>1. C[j - 1].op = "body"
    BY <1>1, <1>3, <1>4 DEF Good, Stacked
  <2>2. QED
    BY <1>2, <1>6, <1>7, <2>1 DEF GoOn, At
<1>11. Types'
  <2>1. ctl' \in [at : Points, L : Threads, code : Codes]
    BY <1>7, <1>10 DEF Points, Codes
  <2>2. nny' \in [Threads -> Nat] /\ errorJmp' \in [Threads -> Nat]
    BY <1>1, <1>2, <1>8, Set
  <2>3. nCcalls' \in [Threads -> 0 .. Limit]
    <3>1. r.nCcalls - 1 \in 0 .. Limit
      BY <1>8, LimitIs
    <3>2. QED
      BY <1>1, <1>2, <3>1, Set
  <2>4. status' \in [Threads -> Codes]
    <3>1. status \in [Threads -> Codes]
      BY DEF IInv, Types
    <3>2. \A c \in Codes : [status EXCEPT ![L] = c] \in [Threads -> Codes]
      BY <1>1, <3>1
    <3>3. QED
      BY <3>1, <3>2
  <2>5. QED
    BY <2>1, <2>2, <2>3, <2>4 DEF IInv, Types
<1>12. Control'
  BY <1>6, <1>9, <1>10 DEF Control, Top, L
<1>13. Alive'
  <2>1. \A t \in Threads : Has(C', t) => Has(C, t) /\ t # L
    BY <1>1, <1>3, <1>4, HasCut
  <2>2. \A t \in Threads : ~ Yielding(t)'
    BY <1>10 DEF Yielding
  <2>3. \A t \in Threads : t # L => status'[t] = status[t]
    BY DEF IInv, Types
  <2>4. \A t \in Threads : t # L => ~ Yielding(t)
    BY DEF Yielding
  <2>5. ~ ready[L]
    BY <1>1 DEF IInv, Alive
  <2>6. ASSUME NEW t \in Threads
        PROVE  (Has(C', t) => ~ ready[t] /\ status'[t] = "ok") /\ (ready[t] => status'[t] = "ok")
    BY <2>1, <2>3, <2>4, <2>5 DEF IInv, Alive
  <2>7. QED
    BY <2>2, <2>6 DEF Alive
<1>14. QED
  BY <1>5, <1>11, <1>12, <1>13 DEF IInv

\* A function begins, or goes on, on top of C stack S.
Begins(S, u, T) == \E lua : S # <<>> /\ u = S[Len(S)].L /\ T = Append(S, Working(u, lua))

\* A function at work counts for nothing.
LEMMA WorkGood ==
  ASSUME NEW S, NEW e \in [Threads -> Nat], NEW nn \in [Threads -> Nat], NEW nc \in [Threads -> Nat],
         Good(S, e, nn, nc), NEW u, NEW T, Begins(S, u, T)
  PROVE  Good(T, e, nn, nc) /\ T # <<>> /\ T[Len(T)].L = u /\ \A t : Has(T, t) <=> Has(S, t)
<1>0. PICK lua : S # <<>> /\ u = S[Len(S)].L /\ T = Append(S, Working(u, lua))
  BY DEF Begins
<1> DEFINE r == Working(u, lua)
<1>1. IsStack(S) /\ u \in Threads /\ Has(S, u)
  BY <1>0, GoodLast
<1>2. r.op \in {"execute", "body"} /\ r.L = u
  BY DEF Working
<1> HIDE DEF r
<1>3. Record(r) /\ r.op # "resume" /\ r.op # "pcall" /\ ~ Walls(r) /\ ~ Counts(r)
  BY <1>1, <1>2 DEF Record, Walls, Counts
<1>4. Pushed(S, T, r)
  BY <1>0, <1>1, <1>3, PushedIs DEF r
<1>5. Good(T, e, nn, nc)
  <2>1. Good(T, IF r.op = "pcall" THEN [e EXCEPT ![r.L] = Len(S) + 1] ELSE e,
                IF Walls(r) THEN [nn EXCEPT ![r.L] = @ + 1] ELSE nn,
                IF Counts(r) THEN [nc EXCEPT ![r.L] = @ + 1] ELSE nc)
    BY <1>0, <1>2, <1>3, <1>4, PushOwn
  <2>2. QED
    BY <1>3, <2>1
<1>6. T # <<>> /\ T[Len(T)].L = u
  BY <1>1, <1>2, <1>4, TopPushed
<1>7. ASSUME NEW t PROVE Has(T, t) <=> Has(S, t)
  BY <1>1, <1>2, <1>4, HasPushed
<1>8. QED
  BY <1>5, <1>6, <1>7

\* What lua_resume pushes, and what becomes of the counters.
Resumption(t) == [op |-> "resume", L |-> t, nny |-> nny[t],
                  nCcalls |-> nCcalls[L] + 1, previous |-> errorJmp[t]]

\* lua_resume.
LEMMA ResumeStep ==
  ASSUME IInv, NEW t \in Threads, lua_resume(t)
  PROVE  IInv'
<1> DEFINE r == Resumption(t)
           S == Append(C, r)
<1>1. /\ ctl.at = "run" /\ Top.op = "body" /\ nCcalls[L] + 1 < MaxCCalls
      /\ ready[t] \/ status[t] = "yield"
  BY DEF lua_resume, In
<1>2. /\ C # <<>> /\ IsStack(C) /\ L \in Threads /\ C[Len(C)].L = L /\ Top = C[Len(C)]
      /\ Good(C, errorJmp, nny, nCcalls) /\ Len(C) \in Nat
      /\ errorJmp \in [Threads -> Nat] /\ nny \in [Threads -> Nat] /\ nCcalls \in [Threads -> Nat]
      /\ nCcalls \in [Threads -> 0 .. Limit]
  BY <1>1, Before
<1>3. ~ Has(C, t) /\ \A x \in Threads : ~ Yielding(x)
  BY <1>1 DEF IInv, Alive, Yielding
<1>4. nCcalls[L] + 1 \in 1 .. MaxCCalls - 1 /\ nCcalls[L] + 1 \in 0 .. Limit /\ nCcalls[L] + 1 < Limit
  <2>1. nCcalls[L] \in Nat
    BY <1>2
  <2>2. QED
    BY <1>1, <2>1, LimitIs
<1>5. /\ r.op = "resume" /\ r.L = t /\ r.nny = nny[t] /\ r.nCcalls = nCcalls[L] + 1
      /\ r.previous = errorJmp[t]
  BY DEF Resumption
<1> HIDE DEF r
<1>6. Record(r)
  <2>1. nny[t] \in Nat
    BY <1>2
  <2>2. QED
    BY <1>4, <1>5, <2>1 DEF Record
<1>7. Pushed(C, S, r)
  BY <1>2, <1>6, PushedIs
<1> HIDE DEF S
<1>8. IsStack(S) /\ S # <<>> /\ Len(S) = Len(C) + 1 /\ S[Len(S)] = r
  BY <1>2, <1>7, TopPushed
<1>9. /\ nCcalls' = [nCcalls EXCEPT ![t] = nCcalls[L] + 1]
      /\ nny' = [nny EXCEPT ![t] = 0]
      /\ errorJmp' = [errorJmp EXCEPT ![t] = Len(S)]
  BY DEF lua_resume, S, r, Resumption
<1>10. Good(S, errorJmp', nny', nCcalls')
  <2>1. Good(S, [errorJmp EXCEPT ![r.L] = Len(C) + 1], [nny EXCEPT ![r.L] = 0],
                [nCcalls EXCEPT ![r.L] = nCcalls[C[Len(C)].L] + 1])
    BY <1>1, <1>2, <1>3, <1>5, <1>6, <1>7, PushResume
  <2>2. QED
    BY <1>2, <1>5, <1>8, <1>9, <2>1
<1>11. /\ nny' \in [Threads -> Nat] /\ nCcalls' \in [Threads -> 0 .. Limit]
       /\ errorJmp' \in [Threads -> Nat] /\ nCcalls'[t] < Limit
  <2>1. Len(S) \in Nat
    BY <1>2, <1>8
  <2>2. QED
    BY <1>2, <1>4, <1>9, <2>1, Set
<1>12. nCcalls' \in [Threads -> Nat]
  <2>1. 0 .. Limit \subseteq Nat
    OBVIOUS
  <2>2. QED
    BY <1>11, <2>1
<1>13. C' = S \/ \E lua : C' = Append(S, Working(t, lua))
  BY DEF lua_resume, S, r, Resumption
<1>14. /\ Good(C', errorJmp', nny', nCcalls') /\ C' # <<>> /\ C'[Len(C')].L = t
       /\ \A x : Has(C', x) <=> Has(S, x)
  <2>1. CASE C' = S
    BY <1>5, <1>8, <1>10, <2>1
  <2>2. CASE \E lua : C' = Append(S, Working(t, lua))
    <3>1. PICK lua : C' = Append(S, Working(t, lua))
      BY <2>2
    <3>2. t = S[Len(S)].L
      BY <1>5, <1>8
    <3>3. Begins(S, t, C')
      BY <1>8, <3>1, <3>2 DEF Begins
    <3>4. QED
      BY <1>8, <1>10, <1>11, <1>12, <3>3, WorkGood
  <2>3. QED
    BY <1>13, <2>1, <2>2
<1>15. \E a \in {"run", "return", "call"} : ctl' = [at |-> a, L |-> t, code |-> "ok"]
  BY DEF lua_resume, At
<1>16. /\ status' \in [Threads -> Codes] /\ ready' \in [Threads -> BOOLEAN]
       /\ status'[t] = "ok" /\ ~ ready'[t]
       /\ \A x \in Threads \ {t} : status'[x] = status[x] /\ ready'[x] = ready[x]
  <2>1. status \in [Threads -> Codes] /\ ready \in [Threads -> BOOLEAN] /\ "ok" \in Codes
    BY DEF IInv, Types, Codes
  <2>2. ready[t] => status[t] = "ok"
    BY DEF IInv, Alive
  <2>3. \/ ready[t] /\ ready' = [ready EXCEPT ![t] = FALSE] /\ status' = status
        \/ status[t] = "yield" /\ ready' = ready /\ status' = [status EXCEPT ![t] = "ok"]
    BY DEF lua_resume
  <2>4. QED
    BY <2>1, <2>2, <2>3
<1>17. Types'
  <2>1. ctl' \in [at : Points, L : Threads, code : Codes]
    BY <1>15 DEF Points, Codes
  <2>2. QED
    BY <1>11, <1>16, <2>1 DEF Types
<1>18. Control'
  BY <1>11, <1>14, <1>15 DEF Control, Top, L
<1>19. Alive'
  <2>1. \A x \in Threads : ~ Yielding(x)'
    BY <1>15 DEF Yielding
  <2>2. \A x \in Threads \ {t} : Has(C', x) => Has(C, x)
    BY <1>2, <1>5, <1>7, <1>14, HasPushed
  <2>3. ASSUME NEW x \in Threads
        PROVE  (Has(C', x) => ~ ready'[x] /\ status'[x] = "ok") /\ (ready'[x] => status'[x] = "ok")
    BY <1>3, <1>16, <2>2 DEF IInv, Alive
  <2>4. QED
    BY <2>1, <2>3 DEF Alive
<1>20. QED
  BY <1>14, <1>17, <1>18, <1>19 DEF IInv

\* lua_resume goes on in the function that recovers.
Recover(j) ==
  /\ j = errorJmp[L] /\ C[j].op = "resume"
  /\ \E lua : C' = Append(SubSeq(C, 1, j), Working(L, lua))
  /\ ctl' = At("run", L)
  /\ nny' = [nny EXCEPT ![L] = 0]
  /\ nCcalls' = [nCcalls EXCEPT ![L] = C[j].nCcalls]
  /\ UNCHANGED <<status, ready, errorJmp>>

LEMMA RecoverStep ==
  ASSUME IInv, ctl.at = "throw", ctl.code # "yield", NEW j, Recover(j)
  PROVE  IInv'
<1> DEFINE r == C[j]
           T == SubSeq(C, 1, j)
<1>1. /\ C # <<>> /\ IsStack(C) /\ L \in Threads /\ C[Len(C)].L = L
      /\ Good(C, errorJmp, nny, nCcalls) /\ Len(C) \in Nat
      /\ errorJmp \in [Threads -> Nat] /\ nny \in [Threads -> Nat] /\ nCcalls \in [Threads -> Nat]
      /\ nCcalls \in [Threads -> 0 .. Limit]
  BY Before
<1>2. Cut(C, T, j) /\ j \in 1 .. Len(C) /\ Record(r)
  BY Protector DEF Recover
<1>3. r.nCcalls \in 1 .. MaxCCalls - 1 /\ r.nCcalls \in 0 .. Limit /\ r.nCcalls < Limit
  <2>1. r.nCcalls \in 1 .. MaxCCalls - 1
    BY <1>2 DEF Record, Recover
  <2>2. QED
    BY <2>1, LimitIs
<1>4. /\ nny' \in [Threads -> Nat] /\ nCcalls' \in [Threads -> 0 .. Limit] /\ nCcalls'[L] < Limit
      /\ nCcalls' \in [Threads -> Nat]
  <2>1. nny' \in [Threads -> Nat] /\ nCcalls' \in [Threads -> 0 .. Limit] /\ nCcalls'[L] < Limit
    BY <1>1, <1>3, Set DEF Recover
  <2>2. 0 .. Limit \subseteq Nat
    OBVIOUS
  <2>3. QED
    BY <2>1, <2>2
<1> HIDE DEF T
<1>5. Good(T, errorJmp, nny', nCcalls') /\ T # <<>> /\ T[Len(T)].L = L
  <2>1. Recovers(C, errorJmp, nny, nCcalls, L, j, T, nny', nCcalls')
    BY <1>1, <1>2 DEF Recovers, Recover
  <2>2. QED
    BY <1>1, <2>1, CutRecover
<1>6. Good(T, errorJmp', nny', nCcalls')
  BY <1>5 DEF Recover
<1>7. Begins(T, L, C')
  BY <1>5 DEF Begins, T, Recover
<1>8. /\ Good(C', errorJmp', nny', nCcalls') /\ C' # <<>> /\ C'[Len(C')].L = L
      /\ \A t : Has(C', t) <=> Has(T, t)
  <2>1. errorJmp' \in [Threads -> Nat]
    BY <1>1 DEF Recover
  <2>2. QED
    BY <1>4, <1>6, <1>7, <2>1, WorkGood
<1>9. ctl' = [at |-> "run", L |-> L, code |-> "ok"]
  BY DEF At, Recover
<1>10. Types'
  <2>1. ctl' \in [at : Points, L : Threads, code : Codes]
    BY <1>1, <1>9 DEF Points, Codes
  <2>2. QED
    BY <1>4, <2>1 DEF IInv, Types, Recover
<1>11. Control'
  BY <1>4, <1>8, <1>9 DEF Control, Top, L
<1>12. Alive'
  <2>1. \A t \in Threads : Has(C', t) => Has(C, t)
    BY <1>1, <1>2, <1>8, HasCut
  <2>2. \A t \in Threads : ~ Yielding(t)
    BY DEF Yielding
  <2>3. QED
    BY <1>9, <2>1, <2>2, AliveKept DEF IInv, Recover
<1>13. QED
  BY <1>8, <1>10, <1>11, <1>12 DEF IInv

\* lua_yieldk, when the thread can yield.
LEMMA YieldStep ==
  ASSUME IInv, ctl.at = "run", ~ (nny[L] > 0), luaD_throw("yield"),
         status' = [status EXCEPT ![L] = "yield"], UNCHANGED <<ready, errorJmp>>
  PROVE  IInv'
<1>1. /\ C # <<>> /\ L \in Threads /\ Top.L = L /\ nny \in [Threads -> Nat] /\ Has(C, L)
      /\ nny[L] = 0
  <2>1. /\ C # <<>> /\ L \in Threads /\ Top.L = L /\ nny \in [Threads -> Nat] /\ Has(C, L)
    BY Before
  <2>2. nny[L] \in Nat
    BY <2>1
  <2>3. QED
    BY <2>1, <2>2
<1>2. ctl' = [at |-> "throw", L |-> L, code |-> "yield"] /\ UNCHANGED <<nny, nCcalls, C>>
  BY DEF luaD_throw
<1>3. status \in [Threads -> Codes] /\ status' \in [Threads -> Codes]
  BY <1>1 DEF IInv, Types, Codes
<1>4. Types'
  <2>1. ctl' \in [at : Points, L : Threads, code : Codes]
    BY <1>1, <1>2 DEF Points, Codes
  <2>2. QED
    BY <1>2, <1>3, <2>1 DEF IInv, Types
<1>5. Good(C', errorJmp', nny', nCcalls')
  BY <1>2 DEF IInv
<1>6. Control'
  BY <1>1, <1>2 DEF Control, Top, L
<1>7. Alive'
  <2>1. \A t \in Threads : Yielding(t)' <=> t = L
    BY <1>2 DEF Yielding, L
  <2>2. \A t \in Threads : t # L => status'[t] = status[t]
    BY <1>3
  <2>3. ~ ready[L] /\ \A t \in Threads : ~ Yielding(t)
    BY <1>1 DEF IInv, Alive, Yielding
  <2>4. ASSUME NEW t \in Threads
        PROVE  /\ Has(C, t) => ~ ready[t] /\ (status'[t] = "ok" \/ t = L)
               /\ ready[t] => status'[t] = "ok"
               /\ t = L => nny[t] = 0
    BY <1>1, <2>2, <2>3 DEF IInv, Alive
  <2>5. QED
    BY <1>2, <2>1, <2>4 DEF Alive
<1>8. QED
  BY <1>4, <1>5, <1>6, <1>7 DEF IInv

\* Something happens to thread u, which is not on the C stack.
LEMMA OffStep ==
  ASSUME IInv, ctl.at = "run", NEW u \in Threads, ~ Has(C, u), UNCHANGED <<C, ctl>>,
         Others(u, errorJmp, nny, nCcalls, errorJmp', nny', nCcalls'),
         errorJmp'[u] \in {0, errorJmp[u]}, nny' \in [Threads -> Nat],
         nCcalls' \in [Threads -> 0 .. Limit], errorJmp' \in [Threads -> Nat],
         status' \in [Threads -> Codes], ready' \in [Threads -> BOOLEAN],
         \A t \in Threads \ {u} : status'[t] = status[t] /\ ready'[t] = ready[t],
         ready'[u] => status'[u] = "ok"
  PROVE  IInv'
<1>1. Good(C, errorJmp, nny, nCcalls) /\ Has(C, L) /\ L \in Threads
  BY Before
<1>2. Good(C', errorJmp', nny', nCcalls')
  BY <1>1, OffStack
<1>3. Types'
  BY DEF IInv, Types
<1>4. Control'
  BY <1>1 DEF IInv, Control, Top, L, Others
<1>5. Alive'
  <2>1. \A t \in Threads : ~ Yielding(t) /\ ~ Yielding(t)'
    BY DEF Yielding
  <2>2. ASSUME NEW t \in Threads
        PROVE  (Has(C, t) => ~ ready'[t] /\ status'[t] = "ok") /\ (ready'[t] => status'[t] = "ok")
    BY <2>1 DEF IInv, Alive
  <2>3. QED
    BY <2>1, <2>2 DEF Alive
<1>6. QED
  BY <1>2, <1>3, <1>4, <1>5 DEF IInv

\* luaG_errormsg, with a message handler or without.
LEMMA ErrorStep ==
  ASSUME IInv, ctl.at \in {"run", "call"}, nCcalls[L] < Limit, luaG_errormsg,
         UNCHANGED <<status, ready, errorJmp>>
  PROVE  IInv'
<1>1. CASE luaD_call(TRUE, "throw")
  BY <1>1, CallStep
<1>2. CASE luaD_throw("run")
  BY <1>2, StayStep DEF luaD_throw, Codes, Errors
<1>3. QED
  BY <1>1, <1>2 DEF luaG_errormsg

-----------------------------------------------------------------------------
(* The steps of the specification                                            *)

\* Nothing changes but the lists of functions.
LEMMA Nothing ==
  ASSUME IInv, UNCHANGED <<status, ready, nny, nCcalls, errorJmp, C, ctl>>
  PROVE  IInv'
<1>1. Types' /\ Control' /\ Good(C', errorJmp', nny', nCcalls')
  BY DEF IInv, Types, Control, Top, L
<1>2. Alive'
  BY DEF IInv, Alive, Yielding, L
<1>3. QED
  BY <1>1, <1>2 DEF IInv

\* The threads on the C stack are those that resumed each other.
LEMMA ChainedIs ==
  ASSUME Stacked(C), NEW t \in Threads
  PROVE  t \in Chained <=> Has(C, t)
<1>1. IsStack(C) /\ Len(C) \in Nat /\ (C = <<>> <=> Len(C) = 0)
  BY StackFacts DEF Stacked
<1>2. \E X : C \in Seq(X)
  BY <1>1 DEF IsStack
<1>3. DOMAIN C = 1 .. Len(C)
  BY <1>2
<1>4. CASE C = <<>>
  BY <1>1, <1>4 DEF Chained, Has
<1>5. CASE C # <<>>
  <2>1. C[1].L = Main /\ 1 \in 1 .. Len(C)
    BY <1>1, <1>5 DEF Stacked
  <2>2. ASSUME t \in Chained PROVE Has(C, t)
    BY <1>3, <1>5, <2>1, <2>2 DEF Chained, Resuming, Has
  <2>3. ASSUME NEW k \in 1 .. Len(C), C[k].L = t, t # Main PROVE t \in Chained
    <3>1. 1 < k /\ C[1].L # C[k].L
      BY <1>1, <2>1, <2>3
    <3>2. PICK m \in 1 + 1 .. k : C[m].op = "resume" /\ C[m].L = t
      BY <2>1, <2>3, <3>1 DEF Stacked
    <3>3. m \in Resuming
      BY <1>1, <1>3, <3>2 DEF Resuming
    <3>4. QED
      BY <1>5, <3>2, <3>3 DEF Chained
  <2>4. Main \in Chained
    BY <1>5 DEF Chained
  <2>5. QED
    BY <2>2, <2>3, <2>4 DEF Has
<1>6. QED
  BY <1>4, <1>5

\* A thread that runs a protected call cannot yield, and what nny was is in it.
LEMMA Nny ==
  ASSUME IInv, ctl.at # "end", NEW j, j = errorJmp[L], C[j].op = "pcall"
  PROVE  /\ nny[L] > 0
         /\ j = Len(C) => C[j].nny = nny[L] - 1
<1>1. /\ L \in Threads /\ Has(C, L) /\ C[Len(C)].L = L /\ Len(C) \in Nat
      /\ Good(C, errorJmp, nny, nCcalls) /\ nny \in [Threads -> Nat]
  BY Before
<1>2. j \in 1 .. Len(C) /\ Target(C, j)
  BY Protector
<1>3. Saved(C, j) /\ C[j].L = L
  <2>1. j \in j .. Len(C)
    BY <1>1, <1>2
  <2>2. QED
    BY <1>1, <1>2, <2>1 DEF Target
<1>4. nny[L] = Own(L) + Cardinality(WallsIn(C, L, Len(C)))
  BY <1>1 DEF Good, YieldsCounted
<1>5. IsFiniteSet(WallsIn(C, L, Len(C))) /\ Cardinality(WallsIn(C, L, Len(C))) \in Nat
  BY <1>1, WallStep
<1>6. nny[L] > 0
  <2>1. j \in WallsIn(C, L, Len(C))
    BY <1>2, <1>3 DEF WallsIn, Walls
  <2>2. Cardinality(WallsIn(C, L, Len(C))) # 0
    BY <1>5, <2>1, FS_EmptySet
  <2>3. Own(L) \in Nat
    BY DEF Own
  <2>4. QED
    BY <1>4, <1>5, <2>2, <2>3
<1>7. ASSUME j = Len(C) PROVE C[j].nny = nny[L] - 1
  <2>1. j - 1 \in Nat /\ (j - 1) + 1 = j
    BY <1>1, <1>2
  <2>2. /\ Cardinality(WallsIn(C, L, (j - 1) + 1)) =
             Cardinality(WallsIn(C, L, j - 1))
               + (IF C[(j - 1) + 1].L = L /\ Walls(C[(j - 1) + 1]) THEN 1 ELSE 0)
        /\ Cardinality(WallsIn(C, L, j - 1)) \in Nat
    BY <2>1, WallStep
  <2>3. Walls(C[j])
    BY DEF Walls
  <2>4. Cardinality(WallsIn(C, L, j)) = Cardinality(WallsIn(C, L, j - 1)) + 1
    BY <1>3, <2>1, <2>2, <2>3
  <2>5. C[j].nny = Own(L) + Cardinality(WallsIn(C, L, j - 1))
    BY <1>3 DEF Saved
  <2>6. Own(L) \in Nat
    BY DEF Own
  <2>7. QED
    BY <1>4, <1>7, <2>2, <2>4, <2>5, <2>6
<1>8. QED
  BY <1>6, <1>7

\* The steps of the program.
LEMMA ProgramStep ==
  ASSUME IInv, Program
  PROVE  IInv'
<1>1. ASSUME NEW lua \in BOOLEAN, OP_CALL(lua) PROVE IInv'
  <2>1. CASE lua
    BY <1>1, <2>1, Nothing DEF OP_CALL
  <2>2. CASE ~ lua
    <3>1. ctl.at = "run" /\ nCcalls[L] < Limit /\ ctl \in [at : Points, L : Threads, code : Codes]
      BY <1>1 DEF OP_CALL, In, IInv, Control, Types
    <3>2. ctl' \in [at : {"run"}, L : {L}, code : Codes]
      BY <1>1, <3>1 DEF OP_CALL, L
    <3>3. /\ C' = Append(C, Working(L, FALSE))
          /\ UNCHANGED <<status, ready, nny, nCcalls, errorJmp>>
      BY <1>1, <2>2 DEF OP_CALL
    <3>4. QED
      BY <3>1, <3>2, <3>3, WorkStep
  <2>3. QED
    BY <2>1, <2>2
<1>2. ASSUME NEW lua \in BOOLEAN, luaD_precall(lua) PROVE IInv'
  <2>1. ctl.at = "call" /\ nCcalls[L] < Limit /\ L \in Threads
    BY <1>2, Before DEF luaD_precall, Allowed, Limit
  <2>2. ctl' \in [at : {"run"}, L : {L}, code : Codes]
    BY <1>2, <2>1 DEF luaD_precall, At, Codes
  <2>3. /\ C' = Append(C, Working(L, lua))
        /\ UNCHANGED <<status, ready, nny, nCcalls, errorJmp>>
    BY <1>2 DEF luaD_precall
  <2>4. QED
    BY <2>1, <2>2, <2>3, WorkStep
<1>3. ASSUME OP_RETURN PROVE IInv'
  <2>1. CASE frame.fresh
    <3>1. ctl.at = "run" /\ Top.op = "execute" /\ C' = Front(C)
      BY <1>3, <2>1 DEF OP_RETURN, In
    <3>2. ~ Protects(Top) /\ ~ Walls(Top) /\ ~ Counts(Top)
      BY <3>1 DEF Protects, Walls, Counts
    <3>3. /\ UNCHANGED <<status, ready, nny, nCcalls, errorJmp>>
          /\ ctl' = [at |-> "return", L |-> L, code |-> "ok"] /\ "ok" \in Codes \ {"yield"}
      BY <1>3, <2>1 DEF OP_RETURN, At, Codes
    <3>4. QED
      BY <3>1, <3>2, <3>3, PopStep
  <2>2. CASE ~ frame.fresh
    BY <1>3, <2>2, Nothing DEF OP_RETURN
  <2>3. QED
    BY <2>1, <2>2
<1>4. ASSUME return PROVE IInv'
  <2>1. ctl.at = "run" /\ Top.op = "body" /\ C' = Front(C)
    BY <1>4 DEF return, In
  <2>2. ~ Protects(Top) /\ ~ Walls(Top) /\ ~ Counts(Top)
    BY <2>1 DEF Protects, Walls, Counts
  <2>3. /\ UNCHANGED <<status, ready, nny, nCcalls, errorJmp>>
        /\ ctl' = [at |-> "return", L |-> L, code |-> "ok"] /\ "ok" \in Codes \ {"yield"}
    BY <1>4 DEF return, At, Codes
  <2>4. QED
    BY <2>1, <2>2, <2>3, PopStep
<1>5. ASSUME callTM PROVE IInv'
  <2>1. ctl.at = "run" /\ nCcalls[L] < Limit /\ luaD_call(FALSE, "proceed")
    BY <1>5 DEF callTM, In, IInv, Control
  <2>2. QED
    BY <1>5, <2>1, CallStep DEF callTM
<1>6. ASSUME GCTM PROVE IInv'
  <2>1. ctl.at \in {"run", "call"} /\ nCcalls[L] < Limit
    BY <1>6 DEF GCTM, CollectsHere, Allowed, Limit, IInv, Control
  <2>2. QED
    BY <1>6, <2>1, PcallStep DEF GCTM
<1>7. ASSUME error PROVE IInv'
  <2>1. ctl.at \in {"run", "call"} /\ nCcalls[L] < Limit /\ UNCHANGED <<status, ready, errorJmp>>
    BY <1>7 DEF error, Allowed, Limit, IInv, Control
  <2>2. CASE luaG_errormsg
    BY <2>1, <2>2, ErrorStep
  <2>3. CASE luaD_throw("mem") \/ luaD_throw("err")
    BY <2>1, <2>3, StayStep DEF luaD_throw, Codes, Errors
  <2>4. QED
    BY <1>7, <2>2, <2>3 DEF error
<1>8. ASSUME NEW k \in BOOLEAN, lua_callk(k) PROVE IInv'
  <2>1. /\ ctl.at = "run" /\ nCcalls[L] < Limit /\ luaD_call(~ Continues(k), "proceed")
        /\ UNCHANGED <<status, ready, errorJmp>>
    BY <1>8 DEF lua_callk, In, IInv, Control
  <2>2. (~ Continues(k)) \in BOOLEAN
    OBVIOUS
  <2>3. QED
    BY <2>1, <2>2, CallStep
<1>9. ASSUME NEW k \in BOOLEAN, lua_yieldk(k) PROVE IInv'
  <2>1. ctl.at = "run" /\ nCcalls[L] < Limit /\ UNCHANGED <<ready, errorJmp>>
    BY <1>9 DEF lua_yieldk, In, IInv, Control
  <2>2. CASE nny[L] > 0
    BY <1>9, <2>1, <2>2, ErrorStep DEF lua_yieldk
  <2>3. CASE ~ (nny[L] > 0)
    BY <1>9, <2>1, <2>3, YieldStep DEF lua_yieldk
  <2>4. QED
    BY <2>2, <2>3
<1>10. ASSUME NEW k \in BOOLEAN, NEW h \in Handlers \cup {None}, lua_pcallk(h, k) PROVE IInv'
  <2>1. ctl.at = "run" /\ nCcalls[L] < Limit /\ UNCHANGED <<status, ready>>
    BY <1>10 DEF lua_pcallk, In, IInv, Control
  <2>2. CASE Continues(k)
    BY <1>10, <2>1, <2>2, CallStep DEF lua_pcallk
  <2>3. CASE ~ Continues(k)
    BY <1>10, <2>1, <2>3, PcallStep DEF lua_pcallk
  <2>4. QED
    BY <2>2, <2>3
<1>11. ASSUME NEW t \in Threads, luaB_cocreate(t) PROVE IInv'
  <2>1. ctl.at = "run" /\ ~ Has(C, t)
    BY <1>11, ChainedIs DEF luaB_cocreate, In, IInv, Good
  <2>2. /\ status' = [status EXCEPT ![t] = "ok"] /\ ready' = [ready EXCEPT ![t] = TRUE]
        /\ nny' = [nny EXCEPT ![t] = 1] /\ nCcalls' = [nCcalls EXCEPT ![t] = 0]
        /\ errorJmp' = [errorJmp EXCEPT ![t] = 0] /\ UNCHANGED <<C, ctl>>
    BY <1>11 DEF luaB_cocreate
  <2>3. /\ status \in [Threads -> Codes] /\ ready \in [Threads -> BOOLEAN] /\ nny \in [Threads -> Nat]
        /\ nCcalls \in [Threads -> 0 .. Limit] /\ errorJmp \in [Threads -> Nat]
        /\ "ok" \in Codes /\ 0 \in 0 .. Limit
    BY LimitIs DEF IInv, Types, Codes
  <2>4. /\ status' \in [Threads -> Codes] /\ ready' \in [Threads -> BOOLEAN] /\ nny' \in [Threads -> Nat]
        /\ nCcalls' \in [Threads -> 0 .. Limit] /\ errorJmp' \in [Threads -> Nat]
        /\ errorJmp'[t] = 0 /\ status'[t] = "ok"
        /\ \A x \in Threads \ {t} : status'[x] = status[x] /\ ready'[x] = ready[x]
    BY <2>2, <2>3
  <2>5. Others(t, errorJmp, nny, nCcalls, errorJmp', nny', nCcalls')
    BY <2>2, <2>3 DEF Others
  <2>6. UNCHANGED <<C, ctl>>
    BY <2>2
  <2>7. QED
    BY <2>1, <2>4, <2>5, <2>6, OffStep
<1>12. ASSUME NEW t \in Threads, lua_resume(t) PROVE IInv'
  BY <1>12, ResumeStep
<1>13. ASSUME NEW t \in Threads, resume_error(t) PROVE IInv'
  <2>1. ctl.at = "run" /\ UNCHANGED <<status, ready, nny, errorJmp, C, ctl>>
    BY <1>13 DEF resume_error, In
  <2>2. CASE UNCHANGED nCcalls
    BY <2>1, <2>2, Nothing
  <2>3. CASE (ready[t] \/ status[t] = "yield") /\ nCcalls' = [nCcalls EXCEPT ![t] = nCcalls[L] + 1]
    <3>1. ~ Has(C, t)
      BY <2>1, <2>3 DEF IInv, Alive, Yielding
    <3>2. /\ L \in Threads /\ nCcalls \in [Threads -> 0 .. Limit] /\ nCcalls[L] < Limit
          /\ nny \in [Threads -> Nat] /\ errorJmp \in [Threads -> Nat]
      BY <2>1, Before DEF IInv, Control
    <3>3. nCcalls[L] + 1 \in 0 .. Limit
      BY <3>2, Count
    <3>4. nCcalls' \in [Threads -> 0 .. Limit]
      BY <2>3, <3>2, <3>3
    <3>5. Others(t, errorJmp, nny, nCcalls, errorJmp', nny', nCcalls')
      BY <2>1, <2>3, <3>2 DEF Others
    <3>6. /\ status' \in [Threads -> Codes] /\ ready' \in [Threads -> BOOLEAN]
          /\ nny' \in [Threads -> Nat] /\ errorJmp' \in [Threads -> Nat]
          /\ ready'[t] => status'[t] = "ok"
      BY <2>1 DEF IInv, Types, Alive
    <3>7. QED
      BY <2>1, <3>1, <3>4, <3>5, <3>6, OffStep
  <2>4. QED
    BY <1>13, <2>2, <2>3 DEF resume_error
<1>14. ASSUME NEW k \in BOOLEAN, lua_gc(k) PROVE IInv'
  BY <1>14, Nothing DEF lua_gc, thread
<1>15. QED
  BY <1>1, <1>2, <1>3, <1>4, <1>5, <1>6, <1>7, <1>8, <1>9, <1>10, <1>11, <1>12, <1>13, <1>14
     DEF Program

\* The steps of the interpreter.
LEMMA InterpreterStep ==
  ASSUME IInv, Interpreter
  PROVE  IInv'
<1>1. ASSUME stackerror PROVE IInv'
  <2>1. ctl.at = "call" /\ UNCHANGED <<status, ready, errorJmp>>
    BY <1>1 DEF stackerror
  <2>2. CASE nCcalls[L] = MaxCCalls /\ luaG_errormsg
    BY <2>1, <2>2, ErrorStep, LimitIs
  <2>3. CASE luaD_throw("err")
    BY <2>1, <2>3, StayStep DEF luaD_throw, Codes, Errors
  <2>4. QED
    BY <1>1, <2>2, <2>3 DEF stackerror
<1>2. ASSUME toLua PROVE IInv'
  <2>1. /\ ctl.at = "return" /\ ctl' = [at |-> "run", L |-> L, code |-> "ok"] /\ "ok" \in Codes \ {"yield"}
        /\ UNCHANGED <<status, ready, nny, nCcalls, errorJmp, C>>
    BY <1>2 DEF toLua, Back, At, Codes, thread
  <2>2. QED
    BY <2>1, StayStep
<1>3. ASSUME toCall PROVE IInv'
  <2>1. ctl.at = "return" /\ Top.op = "call" /\ C' = Front(C) /\ UNCHANGED <<status, ready, errorJmp>>
    BY <1>3 DEF toCall, Back
  <2>2. ~ Protects(Top) /\ (Walls(Top) <=> Top.noyield) /\ Counts(Top)
    BY <2>1 DEF Protects, Walls, Counts
  <2>3. /\ nny' = IF Walls(Top) THEN [nny EXCEPT ![L] = @ - 1] ELSE nny
        /\ nCcalls' = IF Counts(Top) THEN [nCcalls EXCEPT ![L] = @ - 1] ELSE nCcalls
    BY <1>3, <2>2 DEF toCall
  <2>4. \E a \in {"run", "throw"}, c \in Codes \ {"yield"} : ctl' = [at |-> a, L |-> L, code |-> c]
    BY <1>3 DEF toCall, At, Codes, Errors
  <2>5. QED
    BY <2>1, <2>2, <2>3, <2>4, PopStep
<1>4. ASSUME toPcall PROVE IInv'
  <2>1. ctl.at = "return" /\ Top.op = "pcall" /\ UNCHANGED <<status, ready>>
    BY <1>4 DEF toPcall, Back
  <2>2. /\ errorJmp[L] = Len(C) /\ Top = C[Len(C)] /\ nny[L] - 1 = Top.nny /\ L \in Threads
        /\ C # <<>> /\ IsStack(C)
    <3>1. errorJmp[L] = Len(C) /\ Top = C[Len(C)] /\ L \in Threads /\ C # <<>> /\ IsStack(C)
      BY <2>1, Before, Protector DEF Protects
    <3>2. C[errorJmp[L]].op = "pcall"
      BY <2>1, <3>1
    <3>3. C[errorJmp[L]].nny = nny[L] - 1
      BY <2>1, <3>1, <3>2, Nny
    <3>4. QED
      BY <3>1, <3>3
  <2>3. /\ nny' = [nny EXCEPT ![L] = nny[L] - 1]
        /\ nCcalls' = [nCcalls EXCEPT ![L] = Top.nCcalls]
        /\ errorJmp' = [errorJmp EXCEPT ![L] = Top.previous]
        /\ C' = Front(C) /\ GoOn(Len(C) - 1)
    BY <1>4 DEF toPcall, unprotect
  <2>4. C' = SubSeq(C, 1, Len(C) - 1)
    BY <2>2, <2>3, FrontIs
  <2>5. Leave(errorJmp[L], Top)
    BY <2>1, <2>2, <2>3, <2>4 DEF Leave
  <2>6. GoOn(errorJmp[L] - 1) /\ \A t \in Threads : ~ Yielding(t)
    BY <2>1, <2>2, <2>3 DEF Yielding
  <2>7. QED
    BY <2>1, <2>5, <2>6, LeaveStep
<1>5. ASSUME unroll PROVE IInv'
  <2>1. ctl.at = "return" /\ Top.op = "resume" /\ UNCHANGED <<status, ready>>
    BY <1>5 DEF unroll, Back
  <2>2. errorJmp[L] = Len(C) /\ C[errorJmp[L]].op = "resume" /\ L \in Threads /\ nCcalls[L] < Limit
    <3>1. errorJmp[L] = Len(C) /\ Top = C[Len(C)] /\ L \in Threads
      BY <2>1, Before, Protector DEF Protects
    <3>2. QED
      BY <2>1, <3>1 DEF IInv, Control
  <2>3. CASE frames = <<>>
    <3>1. resumed(errorJmp[L], "ok")
      BY <1>5, <2>2, <2>3 DEF unroll
    <3>2. QED
      BY <2>1, <2>2, <3>1, ResumedStep
  <2>4. CASE frames # <<>>
    <3>1. continue(frames, C, errfunc[L]) /\ UNCHANGED <<nny, nCcalls, errorJmp>>
      BY <1>5, <2>4 DEF unroll
    <3>2. C' = Append(C, Working(L, frames[Len(frames)].lua)) /\ ctl' = At("run", L)
      BY <3>1 DEF continue
    <3>3. ctl' \in [at : {"run"}, L : {L}, code : Codes]
      BY <3>2 DEF At, Codes
    <3>4. QED
      BY <2>1, <2>2, <3>1, <3>2, <3>3, WorkStep
  <2>5. QED
    BY <2>3, <2>4
<1>6. ASSUME catchPcall PROVE IInv'
  <2> DEFINE j == errorJmp[L]
  <2>1. ctl.at = "throw" /\ C[j].op = "pcall" /\ UNCHANGED <<status, ready>>
    BY <1>6 DEF catchPcall, Caught
  <2>2. L \in Threads /\ ctl.code # "yield" /\ \A t \in Threads : ~ Yielding(t)
    <3>1. L \in Threads /\ nny[L] > 0 /\ nny[L] # 0
      BY <2>1, Before, Nny
    <3>2. ~ Yielding(L)
      BY <3>1 DEF IInv, Alive
    <3>3. QED
      BY <2>1, <3>1, <3>2 DEF Yielding
  <2>3. Leave(j, C[j])
    BY <1>6, <2>1 DEF catchPcall, old_nny, unprotect, Leave
  <2>4. CASE ~ C[j].gc
    <3>1. GoOn(j - 1)
      BY <1>6, <2>4 DEF catchPcall
    <3>2. QED
      BY <2>1, <2>2, <2>3, <3>1, LeaveStep
  <2>5. CASE C[j].gc
    <3>1. ctl \in [at : Points, L : Threads, code : Codes]
      BY DEF IInv, Types
    <3>2. ctl' = [ctl EXCEPT !.code = IF @ = "run" THEN "gcmm" ELSE @]
      BY <1>6, <2>5 DEF catchPcall
    <3>3. \E c \in Codes : c # "yield" /\ ctl' = [at |-> "throw", L |-> L, code |-> c]
      <4>1. CASE ctl.code = "run"
        <5>1. ctl' = [at |-> "throw", L |-> L, code |-> "gcmm"]
          BY <2>1, <3>1, <3>2, <4>1 DEF L
        <5>2. QED
          BY <5>1 DEF Codes, Errors
      <4>2. CASE ctl.code # "run"
        <5>1. ctl' = [at |-> "throw", L |-> L, code |-> ctl.code] /\ ctl.code \in Codes
          BY <2>1, <3>1, <3>2, <4>2 DEF L
        <5>2. QED
          BY <2>2, <5>1
      <4>3. QED
        BY <4>1, <4>2
    <3>4. QED
      BY <2>1, <2>2, <2>3, <2>5, <3>3, LeaveStep
  <2>6. QED
    BY <2>4, <2>5
<1>7. ASSUME catchResume PROVE IInv'
  <2> DEFINE j == errorJmp[L]
  <2>1. ctl.at = "throw" /\ C[j].op = "resume" /\ UNCHANGED ready
    BY <1>7 DEF catchResume, Caught
  <2>2. CASE ctl.code # "yield" /\ Recoverable # {}
    <3>1. /\ continue(SubSeq(frames, 1, findpcall), SubSeq(C, 1, j), None)
          /\ nny' = [nny EXCEPT ![L] = 0] /\ nCcalls' = [nCcalls EXCEPT ![L] = C[j].nCcalls]
          /\ UNCHANGED <<status, errorJmp>>
      BY <1>7, <2>2 DEF catchResume
    <3>2. (\E lua : C' = Append(SubSeq(C, 1, j), Working(L, lua))) /\ ctl' = At("run", L)
      BY <3>1 DEF continue
    <3>3. Recover(j)
      BY <2>1, <3>1, <3>2 DEF Recover
    <3>4. QED
      BY <2>1, <2>2, <3>3, RecoverStep
  <2>3. CASE ~ (ctl.code # "yield" /\ Recoverable # {})
    <3>1. \E st : resumed(j, st)
      BY <1>7, <2>3 DEF catchResume
    <3>2. status' \in {status} \cup {[status EXCEPT ![L] = c] : c \in Codes}
      <4>1. ctl.code \in Codes
        BY DEF IInv, Types
      <4>2. QED
        BY <1>7, <2>3, <4>1 DEF catchResume, ended
    <3>3. QED
      BY <2>1, <3>1, <3>2, ResumedStep
  <2>4. QED
    BY <2>2, <2>3
<1>8. QED
  BY <1>1, <1>2, <1>3, <1>4, <1>5, <1>6, <1>7 DEF Interpreter

\* All steps.
LEMMA NextStep ==
  ASSUME IInv, [Next]_vars
  PROVE  IInv'
<1>1. CASE Program
  BY <1>1, ProgramStep
<1>2. CASE Interpreter
  BY <1>2, InterpreterStep
<1>3. CASE Done \/ UNCHANGED vars
  BY <1>3, Nothing DEF Done, vars, thread
<1>4. QED
  BY <1>1, <1>2, <1>3 DEF Next

\* A stack of two records.
LEMMA TwoRecords ==
  ASSUME NEW a, NEW b
  PROVE  Append(<<a>>, b) = <<a, b>>
<1> DEFINE X == {a, b}
           S == <<a>>
           T == Append(S, b)
<1>1. S \in Seq(X) /\ <<a, b>> \in Seq(X) /\ Len(S) = 1 /\ S[1] = a /\ b \in X
  OBVIOUS
<1> HIDE DEF S, X
<1>2. S \in Seq(X) /\ b \in X
  BY <1>1
<1>3. T \in Seq(X) /\ Len(T) = Len(S) + 1 /\ T[1] = S[1] /\ T[Len(S) + 1] = b
  <2>1. /\ T \in Seq(X) /\ Len(T) = Len(S) + 1 /\ T[Len(S) + 1] = b
        /\ \A i \in 1 .. Len(S) : T[i] = S[i]
    BY <1>2, AppendProperties, SMTT(30)
  <2> HIDE DEF T
  <2>2. 1 \in 1 .. Len(S)
    BY <1>1
  <2>3. QED
    BY <2>1, <2>2
<1> HIDE DEF T
<1>4. T \in Seq(X) /\ Len(T) = 2 /\ T[1] = a /\ T[2] = b
  BY <1>1, <1>3
<1>5. T = <<a, b>>
  BY <1>1, <1>4, SeqEqual
<1>6. QED
  BY <1>5 DEF T, S

\* lua.c has called pmain in a protected call.
LEMMA InitStep ==
  ASSUME Init
  PROVE  IInv
<1> DEFINE r == [op |-> "pcall", L |-> Main, ci |-> 0, nny |-> 1, errfunc |-> None,
                 nCcalls |-> 0, previous |-> 0, gc |-> FALSE, running |-> FALSE]
           S == <<r>>
<1>0. Main \in Threads
  BY CallsAssumption
<1>1. /\ C = Append(S, Working(Main, FALSE)) /\ ctl = [at |-> "run", L |-> Main, code |-> "ok"]
      /\ errorJmp = [t \in Threads |-> IF t = Main THEN 1 ELSE 0]
      /\ nny = [t \in Threads |-> IF t = Main THEN 2 ELSE 1]
      /\ nCcalls = [t \in Threads |-> IF t = Main THEN 1 ELSE 0]
      /\ status = [t \in Threads |-> "ok"] /\ ready = [t \in Threads |-> FALSE]
  <2>1. C = <<r, Working(Main, FALSE)>>
    BY DEF Init
  <2>2. C = Append(S, Working(Main, FALSE))
    BY <2>1, TwoRecords
  <2>3. QED
    BY <2>2 DEF Init, At
<1>2. Len(S) = 1 /\ S[1] = r /\ S # <<>> /\ S \in Seq({r})
  OBVIOUS
<1>3. r.op = "pcall" /\ r.L = Main /\ r.nny = 1 /\ r.nCcalls = 0 /\ r.previous = 0 /\ r.gc = FALSE
      /\ r.gc \in BOOLEAN /\ r.running \in BOOLEAN
  OBVIOUS
<1> HIDE DEF r
<1>4. Record(r)
  <2>1. 0 \in 0 .. Limit - 1
    BY LimitIs
  <2>2. QED
    BY <1>0, <1>3, <2>1 DEF Record
<1> HIDE DEF S
<1>5. IsStack(S)
  BY <1>2, <1>4 DEF IsStack
<1>6. Stacked(S)
  BY <1>2, <1>3, <1>5 DEF Stacked
<1>7. /\ Cardinality(CountedIn(S, 0)) = 0 /\ Cardinality(CountedIn(S, 1)) = 1
      /\ Cardinality(WallsIn(S, Main, 0)) = 0 /\ Cardinality(WallsIn(S, Main, 1)) = 1
  <2>1. Counts(S[0 + 1]) /\ Walls(S[0 + 1]) /\ S[0 + 1].L = Main
    BY <1>2, <1>3 DEF Counts, Walls
  <2>2. /\ Cardinality(CountedIn(S, 0 + 1)) = Cardinality(CountedIn(S, 0)) + 1
        /\ Cardinality(CountedIn(S, 0)) = 0
    BY <2>1, CountStep
  <2>3. /\ Cardinality(WallsIn(S, Main, 0 + 1)) = Cardinality(WallsIn(S, Main, 0)) + 1
        /\ Cardinality(WallsIn(S, Main, 0)) = 0
    BY <2>1, WallStep
  <2>4. QED
    BY <2>2, <2>3
<1>8. \A j \in 1 .. Len(S) : Saved(S, j)
  <2>1. Innermost(S, Main, 0, 0)
    BY DEF Innermost, ProtectedIn
  <2>2. Own(Main) = 1
    BY DEF Own
  <2>3. Saved(S, 1)
    BY <1>2, <1>3, <1>7, <2>1, <2>2 DEF Saved
  <2>4. QED
    BY <1>2, <2>3
<1>9. Jumps(S, errorJmp)
  <2>1. ASSUME NEW t \in Threads PROVE Innermost(S, t, Len(S), errorJmp[t])
    <3>1. ProtectedIn(S, t, 1) = IF t = Main THEN {1} ELSE {}
      BY <1>2, <1>3 DEF ProtectedIn, Protects
    <3>2. QED
      BY <1>1, <1>2, <3>1 DEF Innermost
  <2>2. QED
    BY <2>1 DEF Jumps
<1>10. YieldsCounted(S, nny)
  BY <1>0, <1>1, <1>2, <1>3, <1>7 DEF YieldsCounted, Has, Own
<1>11. CCallsCounted(S, nCcalls)
  BY <1>0, <1>1, <1>2, <1>3, <1>7 DEF CCallsCounted, Latest
<1>12. Good(S, errorJmp, nny, nCcalls)
  BY <1>6, <1>8, <1>9, <1>10, <1>11 DEF Good
<1>13. /\ errorJmp \in [Threads -> Nat] /\ nny \in [Threads -> Nat]
       /\ nCcalls \in [Threads -> 0 .. Limit] /\ nCcalls \in [Threads -> Nat] /\ nCcalls[Main] < Limit
  <2>1. 0 \in 0 .. Limit /\ 1 \in 0 .. Limit /\ 1 < Limit
    BY LimitIs
  <2>2. QED
    BY <1>0, <1>1, <2>1
<1>14. /\ Good(C, errorJmp, nny, nCcalls) /\ C # <<>> /\ C[Len(C)].L = Main
       /\ \A t : Has(C, t) <=> Has(S, t)
  <2>1. Begins(S, Main, C)
    BY <1>1, <1>2, <1>3 DEF Begins
  <2>2. QED
    BY <1>12, <1>13, <2>1, WorkGood
<1>15. Types
  BY <1>0, <1>1, <1>13 DEF Types, Points, Codes
<1>16. Control
  BY <1>1, <1>13, <1>14 DEF Control, Top, L
<1>17. Alive
  BY <1>1 DEF Alive, Yielding
<1>18. QED
  BY <1>14, <1>15, <1>16, <1>17 DEF IInv

-----------------------------------------------------------------------------
(* The theorems                                                              *)

\* Every reachable state satisfies the invariant, whatever the program calls,
\* raises, yields and resumes (ldo.c).
THEOREM Invariance == Spec => []IInv
<1>1. Init => IInv
  BY InitStep
<1>2. IInv /\ [Next]_vars => IInv'
  BY NextStep
<1>3. QED
  BY <1>1, <1>2, PTL DEF Spec

\* What the invariant says of errorJmp.
LEMMA JumpsRight ==
  ASSUME IInv
  PROVE  JumpsLand
<1>1. /\ Good(C, errorJmp, nny, nCcalls) /\ Stacked(C) /\ IsStack(C) /\ Len(C) \in Nat
      /\ errorJmp \in [Threads -> Nat]
  BY StackFacts DEF IInv, Good, Stacked, Types
<1>2. DOMAIN C = 1 .. Len(C)
  <2>1. \E X : C \in Seq(X)
    BY <1>1 DEF IsStack
  <2>2. QED
    BY <2>1
<1>3. ASSUME NEW t \in Threads
      PROVE  IF t \in Chained /\ Protected(t) # {}
             THEN errorJmp[t] \in Protected(t) /\ \A j \in Protected(t) : j <= errorJmp[t]
             ELSE errorJmp[t] = 0
  <2>1. Protected(t) = ProtectedIn(C, t, Len(C))
    BY <1>2 DEF Protected, Records, ProtectedIn, Protects
  <2>2. Innermost(C, t, Len(C), errorJmp[t])
    BY <1>1 DEF Good, Jumps
  <2>3. Protected(t) # {} => t \in Chained
    <3>1. ASSUME Protected(t) # {} PROVE Has(C, t)
      BY <1>2, <3>1 DEF Protected, Records, Has
    <3>2. QED
      BY <1>1, <3>1, ChainedIs
  <2>4. QED
    BY <2>1, <2>2, <2>3 DEF Innermost
<1>4. QED
  BY <1>3 DEF JumpsLand

\* A long jump always lands in the innermost C function that protects its thread,
\* and that function has not returned (ldo.c:104-150).
THEOREM JumpsAlwaysLand == Spec => []JumpsLand
<1>1. IInv => JumpsLand
  BY JumpsRight
<1>2. QED
  BY <1>1, Invariance, PTL

\* What the invariant says of nCcalls and nny.
LEMMA CountersRight ==
  ASSUME IInv
  PROVE  CallsCounted
<1>1. /\ Good(C, errorJmp, nny, nCcalls) /\ Stacked(C) /\ IsStack(C) /\ Len(C) \in Nat
  BY StackFacts DEF IInv, Good, Stacked
<1>2. DOMAIN C = 1 .. Len(C)
  <2>1. \E X : C \in Seq(X)
    BY <1>1 DEF IsStack
  <2>2. QED
    BY <2>1
<1>3. Chained \subseteq Threads
  <2>1. \A j \in 1 .. Len(C) : C[j].L \in Threads
    BY <1>1 DEF IsStack, Record
  <2>2. Main \in Threads
    BY CallsAssumption
  <2>3. QED
    BY <1>2, <2>1, <2>2 DEF Chained, Resuming
<1>4. ASSUME NEW t \in Chained, NEW last, last = CHOOSE j \in Records(t) : \A i \in Records(t) : i <= j
      PROVE  /\ nCcalls[t] = Cardinality({j \in 1 .. last : C[j].op \in {"call", "pcall", "resume"}})
             /\ nny[t] = (IF t = Main THEN 1 ELSE 0)
                         + Cardinality({j \in Records(t) : \/ C[j].op = "pcall"
                                                           \/ C[j].op = "call" /\ C[j].noyield})
  <2>1. t \in Threads /\ Has(C, t)
    BY <1>1, <1>3, ChainedIs
  <2>2. Records(t) = {j \in 1 .. Len(C) : C[j].L = t}
    BY <1>2 DEF Records
  <2>3. Records(t) # {} /\ Records(t) \in SUBSET (1 .. Len(C))
    BY <2>1, <2>2 DEF Has
  <2>4. \E m \in Records(t) : \A i \in Records(t) : i <= m
    BY <1>1, <2>3, MaxExists
  <2>5. last \in Records(t) /\ \A i \in Records(t) : i <= last
    BY <1>4, <2>4
  <2>6. last \in 1 .. Len(C) /\ Latest(C, t, last)
    BY <1>1, <2>2, <2>5 DEF Latest
  <2>7. nCcalls[t] = Cardinality(CountedIn(C, last))
    BY <1>1, <2>1, <2>6 DEF Good, CCallsCounted
  <2>8. nny[t] = Own(t) + Cardinality(WallsIn(C, t, Len(C)))
    BY <1>1, <2>1 DEF Good, YieldsCounted
  <2>9. CountedIn(C, last) = {j \in 1 .. last : C[j].op \in {"call", "pcall", "resume"}}
    BY DEF CountedIn, Counts
  <2>10. WallsIn(C, t, Len(C)) = {j \in Records(t) : \/ C[j].op = "pcall"
                                                     \/ C[j].op = "call" /\ C[j].noyield}
    BY <2>2 DEF WallsIn, Walls
  <2>11. QED
    BY <2>7, <2>8, <2>9, <2>10 DEF Own
<1>5. QED
  BY <1>4 DEF CallsCounted

\* After any mixture of returns, errors and yields the counters of a thread are
\* those of the C calls under way (ldo.c:138-150, 506-523, 653-695).
THEOREM CountersAlwaysRight == Spec => []CallsCounted
<1>1. IInv => CallsCounted
  BY CountersRight
<1>2. QED
  BY <1>1, Invariance, PTL

Nested == \A t \in Threads : nCcalls[t] <= MaxCCalls + ExtraCCalls

\* The C stack does not overflow: handlers, finalizers and coroutines together
\* never nest more C calls than LUAI_MAXCCALLS and an eighth of it (ldo.c:488-493).
THEOREM NeverOverflows == Spec => []Nested
<1>1. IInv => Nested
  BY LimitIs DEF IInv, Types, Nested, Limit
<1>2. QED
  BY <1>1, Invariance, PTL

YieldsFreely ==
  ctl.at = "throw" /\ ctl.code = "yield" =>
    \A j \in DOMAIN C : C[j].L = L => ~ Walls(C[j])

\* A thread that yields gives way to nobody who cannot go on: it has no protected
\* call, and no call without a continuation, on the C stack (ldo.c:739-758).
THEOREM NothingCut == Spec => []YieldsFreely
<1>1. ASSUME IInv PROVE YieldsFreely
  <2>1. SUFFICES ASSUME ctl.at = "throw", ctl.code = "yield",
                        NEW j \in DOMAIN C, C[j].L = L, Walls(C[j])
                 PROVE  FALSE
    BY DEF YieldsFreely
  <2>2. /\ L \in Threads /\ Has(C, L) /\ IsStack(C) /\ Len(C) \in Nat
        /\ Good(C, errorJmp, nny, nCcalls)
    BY <1>1, <2>1, Before
  <2>3. nny[L] = Own(L) + Cardinality(WallsIn(C, L, Len(C))) /\ nny[L] = 0
    BY <1>1, <2>1, <2>2 DEF Good, YieldsCounted, IInv, Alive, Yielding
  <2>4. IsFiniteSet(WallsIn(C, L, Len(C))) /\ Cardinality(WallsIn(C, L, Len(C))) \in Nat
    BY <2>2, WallStep
  <2>5. Cardinality(WallsIn(C, L, Len(C))) = 0
    BY <2>3, <2>4 DEF Own
  <2>6. WallsIn(C, L, Len(C)) = {}
    BY <2>4, <2>5, FS_EmptySet
  <2>7. j \in 1 .. Len(C)
    <3>1. \E X : C \in Seq(X)
      BY <2>2 DEF IsStack
    <3>2. QED
      BY <2>1, <3>1
  <2>8. QED
    BY <2>1, <2>6, <2>7 DEF WallsIn
<1>2. IInv => YieldsFreely
  BY <1>1
<1>3. QED
  BY <1>2, Invariance, PTL

-----------------------------------------------------------------------------
(* The functions of a thread and the C stack: which of them each record of   *)
(* the C stack runs. It makes the types of LuaCalls inductive, shows that a  *)
(* yield cuts no C function that could not go on, and that the status of a   *)
(* coroutine is right.                                                       *)

\* The first n functions F wait for one that they called, and can go on without
\* the C functions that ran them.
Interrupted(F, n) == \A i \in 1 .. n : F[i].lua \/ F[i].k

\* hs[j] is how many functions of its thread had been called when all that is on
\* C stack S is record j and what is below it. The frames above those of the record
\* below are its own.
Below(S, hs, j) == IF j = 1 \/ S[j].op = "resume" THEN 0 ELSE hs[j - 1]

\* Record j fits the functions F of its thread.
FitCall(S, F, hs, j) ==
  /\ j > 1
  /\ S[j].then = "throw" => S[j].noyield
  /\ S[j].then # "throw" => Works(S[j - 1])
  /\ ~ S[j].noyield /\ S[j - 1].op = "body" => hs[j] > 0 /\ F[hs[j]].k
Finalizes(r) == r.op = "pcall" /\ r.gc
FitPcall(S, j) ==
  /\ S[j].errfunc \in Handlers \cup {None}
  /\ j > 1 => IF S[j].gc THEN ~ Finalizes(S[j - 1]) ELSE Works(S[j - 1])
FitBody(S, F, hs, j) ==
  /\ j > 1 /\ S[j - 1].op # "body"
  /\ hs[j] = Below(S, hs, j) + 1 /\ ~ F[hs[j]].lua
FitExecute(S, F, hs, j) ==
  /\ j > 1 /\ ~ Works(S[j - 1])
  /\ hs[j] > Below(S, hs, j)
  /\ \A i \in Below(S, hs, j) + 1 .. hs[j] : F[i].lua /\ (F[i].fresh <=> i = Below(S, hs, j) + 1)
Fit(S, F, hs, j) ==
  /\ hs[j] \in Nat /\ Below(S, hs, j) \in Nat
  /\ S[j].op = "resume" => Interrupted(F, hs[j])
  /\ S[j].op \in {"call", "pcall"} => hs[j] = Below(S, hs, j) /\ S[j].ci = hs[j]
  /\ S[j].op = "call" => FitCall(S, F, hs, j)
  /\ S[j].op = "pcall" => FitPcall(S, j)
  /\ S[j].op = "body" => FitBody(S, F, hs, j)
  /\ S[j].op = "execute" => FitExecute(S, F, hs, j)

\* C stack S fits the lists f of functions.
Growing(S, hs) == \A i, k \in 1 .. Len(S) : i < k /\ S[i].L = S[k].L => hs[i] <= hs[k]
Heights(S, f, hs) == \A t \in Threads, j \in 1 .. Len(S) : Latest(S, t, j) => Len(f[t]) = hs[j]
Fits(S, f, hs) ==
  /\ Growing(S, hs) /\ Heights(S, f, hs)
  /\ \A j \in 1 .. Len(S) : Fit(S, f[S[j].L], hs, j)

LEMMA RecordIs ==
  ASSUME NEW r, Record(r)
  PROVE  r.L \in Threads /\ r.op \in {"call", "pcall", "resume", "execute", "body"}
BY DEF Record

\* What a record needs is below it.
LEMMA FitSame ==
  ASSUME NEW S, NEW F, NEW hs, NEW j \in Nat \ {0}, Fit(S, F, hs, j), Record(S[j]),
         NEW T, NEW G, NEW h2, \A i \in 1 .. j : T[i] = S[i] /\ h2[i] = hs[i],
         \A i \in 1 .. hs[j] : G[i] = F[i]
  PROVE  Fit(T, G, h2, j)
<1>1. T[j] = S[j] /\ h2[j] = hs[j] /\ hs[j] \in Nat
  BY DEF Fit
<1>2. j > 1 => T[j - 1] = S[j - 1] /\ h2[j - 1] = hs[j - 1]
  OBVIOUS
<1>3. Below(T, h2, j) = Below(S, hs, j)
  BY <1>1, <1>2 DEF Below
<1>4. CASE S[j].op = "resume"
  BY <1>1, <1>3, <1>4 DEF Fit, Interrupted
<1>5. CASE S[j].op = "call"
  BY <1>1, <1>2, <1>3, <1>5 DEF Fit, FitCall
<1>6. CASE S[j].op = "pcall"
  BY <1>1, <1>2, <1>3, <1>6 DEF Fit, FitPcall
<1>7. CASE S[j].op = "body"
  <2>1. hs[j] \in 1 .. hs[j]
    BY <1>7 DEF Fit, FitBody
  <2>2. QED
    BY <1>1, <1>2, <1>3, <1>7, <2>1 DEF Fit, FitBody
<1>8. CASE S[j].op = "execute"
  <2>1. \A i \in Below(S, hs, j) + 1 .. hs[j] : G[i] = F[i]
    BY <1>1 DEF Fit
  <2>2. QED
    BY <1>1, <1>2, <1>3, <1>8, <2>1 DEF Fit, FitExecute
<1>9. QED
  BY <1>4, <1>5, <1>6, <1>7, <1>8 DEF Record

\* The lists of functions f and g differ in that of thread u only; G is the first n of F;
\* the records above the first n are those of thread u.
Only(u, f, g) == \A t \in Threads \ {u} : g[t] = f[t]
First(F, n, G) == Len(G) = n /\ \A i \in 1 .. n : G[i] = F[i]
Extends(S, hs, h2, v) == h2[Len(S) + 1] = v /\ \A i \in 1 .. Len(S) : h2[i] = hs[i]
Longer(F, G) == Len(G) >= Len(F) /\ \A i \in 1 .. Len(F) : G[i] = F[i]
AllOf(S, n, u) == \A i \in n + 1 .. Len(S) : S[i].L = u

\* A record is pushed: of the running thread, or of one that is not there.
LEMMA PushFits ==
  ASSUME NEW S, IsStack(S), NEW f, NEW hs, Fits(S, f, hs),
         NEW r, Record(r), NEW T, Pushed(S, T, r), NEW v \in Nat, NEW g, NEW h2,
         Extends(S, hs, h2, v), Only(r.L, f, g), Len(g[r.L]) = v,
         \/ ~ Has(S, r.L)
         \/ S # <<>> /\ S[Len(S)].L = r.L /\ Longer(f[r.L], g[r.L]),
         Fit(T, g[r.L], h2, Len(S) + 1)
  PROVE  Fits(T, g, h2)
<1> USE DEF Only, Extends, Longer
<1> DEFINE n == Len(S)
           u == r.L
<1>1. /\ n \in Nat /\ Len(T) = n + 1 /\ T[n + 1] = r /\ \A i \in 1 .. n : T[i] = S[i]
      /\ \A i \in 1 .. n : Record(S[i])
  BY StackFacts DEF Pushed, IsStack
<1>2. \A j \in 1 .. n : hs[j] \in Nat
  BY DEF Fits, Fit
<1>3. ASSUME NEW j \in 1 .. n, S[j].L = u
      PROVE  hs[j] <= Len(f[u]) /\ Len(f[u]) \in Nat /\ Len(f[u]) <= v
             /\ \A i \in 1 .. Len(f[u]) : g[u][i] = f[u][i]
  <2>1. S[n].L = u /\ v >= Len(f[u]) /\ \A i \in 1 .. Len(f[u]) : g[u][i] = f[u][i]
    BY <1>3 DEF Has
  <2>2. n \in 1 .. n /\ u \in Threads /\ Latest(S, u, n)
    BY <1>1, <1>3, <2>1, RecordIs DEF Latest
  <2>3. Len(f[u]) = hs[n] /\ hs[n] \in Nat
    BY <1>2, <2>2 DEF Fits, Heights
  <2>4. hs[j] <= hs[n]
    BY <1>2, <1>3, <2>1, <2>2 DEF Fits, Growing
  <2>5. QED
    BY <2>1, <2>3, <2>4
<1>4. Growing(T, h2)
  <2>1. ASSUME NEW i \in 1 .. n + 1, NEW k \in 1 .. n + 1, i < k, T[i].L = T[k].L
        PROVE  h2[i] <= h2[k]
    <3>1. CASE k <= n
      <4>1. i \in 1 .. n /\ k \in 1 .. n /\ S[i].L = S[k].L
        BY <1>1, <2>1, <3>1
      <4>2. hs[i] <= hs[k]
        BY <2>1, <4>1 DEF Fits, Growing
      <4>3. QED
        BY <4>1, <4>2
    <3>2. CASE k = n + 1
      <4>1. i \in 1 .. n /\ S[i].L = u
        BY <1>1, <2>1, <3>2
      <4>2. QED
        BY <1>2, <1>3, <3>2, <4>1
    <3>3. QED
      BY <1>1, <3>1, <3>2
  <2>2. QED
    BY <1>1, <2>1 DEF Growing
<1>5. Heights(T, g, h2)
  <2>1. ASSUME NEW t \in Threads, NEW j \in 1 .. n + 1, Latest(T, t, j)
        PROVE  Len(g[t]) = h2[j]
    <3>1. CASE t = u
      <4>1. j = n + 1
        BY <1>1, <2>1, <3>1 DEF Latest
      <4>2. QED
        BY <3>1, <4>1
    <3>2. CASE t # u
      <4>1. j \in 1 .. n /\ Latest(S, t, j)
        BY <1>1, <2>1, <3>2 DEF Latest
      <4>2. QED
        BY <3>2, <4>1 DEF Fits, Heights
    <3>3. QED
      BY <3>1, <3>2
  <2>2. QED
    BY <1>1, <2>1 DEF Heights
<1>6. ASSUME NEW j \in 1 .. n + 1 PROVE Fit(T, g[T[j].L], h2, j)
  <2>1. CASE j = n + 1
    BY <1>1, <2>1
  <2>2. CASE j <= n
    <3>1. j \in 1 .. n /\ j \in Nat \ {0} /\ T[j] = S[j] /\ Record(S[j]) /\ S[j].L \in Threads
      BY <1>1, <2>2, RecordIs
    <3>2. Fit(S, f[S[j].L], hs, j)
      BY <3>1 DEF Fits
    <3>3. \A i \in 1 .. j : T[i] = S[i] /\ h2[i] = hs[i]
      BY <1>1, <3>1
    <3>4. \A i \in 1 .. hs[j] : g[S[j].L][i] = f[S[j].L][i]
      <4>1. CASE S[j].L # u
        BY <3>1, <4>1
      <4>2. CASE S[j].L = u
        BY <1>2, <1>3, <3>1, <4>2
      <4>3. QED
        BY <4>1, <4>2
    <3>5. QED
      BY <3>1, <3>2, <3>3, <3>4, FitSame
  <2>3. QED
    BY <1>1, <2>1, <2>2
<1>7. QED
  BY <1>1, <1>4, <1>5, <1>6 DEF Fits

\* Records of thread u go: all it has, or those above record n.
LEMMA CutFits ==
  ASSUME NEW S, IsStack(S), NEW f, NEW hs, Fits(S, f, hs),
         NEW n, NEW T, Cut(S, T, n), NEW u \in Threads, AllOf(S, n, u),
         NEW g, Only(u, f, g), ~ Has(T, u) \/ (n > 0 /\ S[n].L = u /\ First(f[u], hs[n], g[u]))
  PROVE  Fits(T, g, hs)
<1> USE DEF Only, First, AllOf
<1>1. /\ Len(S) \in Nat /\ Len(T) = n /\ n \in Nat /\ n <= Len(S) /\ \A i \in 1 .. n : T[i] = S[i]
      /\ \A i \in 1 .. n : Record(S[i])
  BY StackFacts DEF Cut, IsStack
<1>2. \A j \in 1 .. n : hs[j] \in Nat
  BY <1>1 DEF Fits, Fit
<1>3. ASSUME NEW j \in 1 .. n, S[j].L = u
      PROVE  /\ n > 0 /\ n \in 1 .. n /\ S[n].L = u /\ Len(g[u]) = hs[n]
             /\ \A i \in 1 .. hs[n] : g[u][i] = f[u][i]
             /\ hs[j] <= hs[n]
  <2>1. /\ n > 0 /\ S[n].L = u /\ Len(g[u]) = hs[n]
        /\ \A i \in 1 .. hs[n] : g[u][i] = f[u][i]
    BY <1>1, <1>3 DEF Has
  <2>2. n \in 1 .. n /\ n \in 1 .. Len(S)
    BY <1>1, <2>1
  <2>3. hs[j] <= hs[n]
    BY <1>1, <1>2, <1>3, <2>1, <2>2 DEF Fits, Growing
  <2>4. QED
    BY <2>1, <2>2, <2>3
<1>4. Growing(T, hs)
  <2>1. ASSUME NEW i \in 1 .. n, NEW k \in 1 .. n, i < k, T[i].L = T[k].L
        PROVE  hs[i] <= hs[k]
    <3>1. i \in 1 .. Len(S) /\ k \in 1 .. Len(S) /\ S[i].L = S[k].L
      BY <1>1, <2>1
    <3>2. QED
      BY <2>1, <3>1 DEF Fits, Growing
  <2>2. QED
    BY <1>1, <2>1 DEF Growing
<1>5. Heights(T, g, hs)
  <2>1. ASSUME NEW t \in Threads, NEW j \in 1 .. n, Latest(T, t, j)
        PROVE  Len(g[t]) = hs[j]
    <3>1. CASE t = u
      <4>1. S[j].L = u
        BY <1>1, <2>1, <3>1 DEF Latest
      <4>2. n \in 1 .. n /\ T[n].L = u
        BY <1>1, <1>3, <4>1
      <4>3. j = n
        BY <1>1, <2>1, <3>1, <4>2 DEF Latest
      <4>4. QED
        BY <1>3, <3>1, <4>1, <4>3
    <3>2. CASE t # u
      <4>1. j \in 1 .. Len(S) /\ Latest(S, t, j)
        BY <1>1, <2>1, <3>2 DEF Latest
      <4>2. QED
        BY <3>2, <4>1 DEF Fits, Heights
    <3>3. QED
      BY <3>1, <3>2
  <2>2. QED
    BY <1>1, <2>1 DEF Heights
<1>6. ASSUME NEW j \in 1 .. n PROVE Fit(T, g[T[j].L], hs, j)
  <2>1. j \in 1 .. Len(S) /\ j \in Nat \ {0} /\ T[j] = S[j] /\ Record(S[j]) /\ S[j].L \in Threads
    <3>1. j \in 1 .. Len(S) /\ j \in Nat \ {0} /\ T[j] = S[j]
      BY <1>1
    <3>2. Record(S[j])
      BY <1>1
    <3>3. QED
      BY <3>1, <3>2, RecordIs
  <2>2. Fit(S, f[S[j].L], hs, j)
    BY <2>1 DEF Fits
  <2>3. \A i \in 1 .. j : T[i] = S[i] /\ hs[i] = hs[i]
    BY <1>1
  <2>4. \A i \in 1 .. hs[j] : g[S[j].L][i] = f[S[j].L][i]
    <3>1. CASE S[j].L # u
      BY <2>1, <3>1
    <3>2. CASE S[j].L = u
      <4>1. hs[j] \in Nat /\ hs[n] \in Nat /\ hs[j] <= hs[n] /\ \A i \in 1 .. hs[n] : g[u][i] = f[u][i]
        BY <1>2, <1>3, <3>2
      <4>2. QED
        BY <3>2, <4>1
    <3>3. QED
      BY <3>1, <3>2
  <2>5. QED
    BY <2>1, <2>2, <2>3, <2>4, FitSame
<1>7. QED
  BY <1>1, <1>4, <1>5, <1>6 DEF Fits

\* The record below is of the same thread, unless it resumes the thread of this one.
LEMMA Neighbour ==
  ASSUME NEW S, Stacked(S), NEW j \in 2 .. Len(S), S[j].op # "resume"
  PROVE  S[j - 1].L = S[j].L
<1>1. Len(S) \in Nat
  BY StackFacts DEF Stacked
<1>2. j - 1 \in 1 .. Len(S) /\ j \in 1 .. Len(S) /\ j - 1 < j
  BY <1>1
<1>3. ASSUME S[j - 1].L # S[j].L PROVE FALSE
  <2>1. PICK m \in (j - 1) + 1 .. j : S[m].op = "resume"
    BY <1>2, <1>3 DEF Stacked
  <2>2. m = j
    BY <1>1
  <2>3. QED
    BY <2>1, <2>2
<1>4. QED
  BY <1>3

\* The running function has frames that no other record has.
LEMMA OwnFrames ==
  ASSUME NEW S, Stacked(S), NEW f, NEW hs, Fits(S, f, hs), S # <<>>, Works(S[Len(S)]),
         NEW u, u = S[Len(S)].L
  PROVE  /\ u \in Threads /\ Len(S) \in Nat /\ Len(S) > 1
         /\ hs[Len(S)] \in Nat \ {0} /\ Len(f[u]) = hs[Len(S)]
         /\ \A j \in 1 .. Len(S) - 1 : S[j].L = u => hs[j] < hs[Len(S)]
<1> DEFINE n == Len(S)
<1>1. n \in Nat \ {0} /\ IsStack(S) /\ n \in 1 .. n /\ u \in Threads
  <2>1. IsStack(S) /\ n \in Nat \ {0}
    BY StackFacts DEF Stacked
  <2>2. n \in 1 .. n /\ Record(S[n])
    BY <2>1 DEF IsStack
  <2>3. QED
    BY <2>1, <2>2, RecordIs
<1>2. \A j \in 1 .. n : hs[j] \in Nat
  BY DEF Fits, Fit
<1>3. Latest(S, u, n) /\ Len(f[u]) = hs[n]
  BY <1>1 DEF Latest, Fits, Heights
<1>4. n > 1 /\ hs[n] > Below(S, hs, n) /\ Below(S, hs, n) \in Nat /\ S[n].op # "resume"
  <2>1. Fit(S, f[u], hs, n)
    BY <1>1 DEF Fits
  <2>2. CASE S[n].op = "body"
    BY <1>1, <2>1, <2>2 DEF Fit, FitBody
  <2>3. CASE S[n].op = "execute"
    BY <1>1, <2>1, <2>3 DEF Fit, FitExecute
  <2>4. QED
    BY <2>2, <2>3 DEF Works
<1>5. n - 1 \in 1 .. n /\ Below(S, hs, n) = hs[n - 1] /\ S[n - 1].L = u
  BY <1>1, <1>4, Neighbour DEF Below
<1>6. ASSUME NEW j \in 1 .. n - 1, S[j].L = u PROVE hs[j] < hs[n]
  <2>1. hs[j] \in Nat /\ hs[n - 1] \in Nat /\ hs[n] \in Nat /\ hs[n - 1] < hs[n]
    BY <1>1, <1>2, <1>4, <1>5
  <2>2. hs[j] <= hs[n - 1]
    <3>1. CASE j = n - 1
      BY <2>1, <3>1
    <3>2. CASE j # n - 1
      <4>1. j \in 1 .. n /\ j < n - 1
        BY <1>1, <3>2
      <4>2. QED
        BY <1>5, <1>6, <4>1 DEF Fits, Growing
    <3>3. QED
      BY <3>1, <3>2
  <2>3. QED
    BY <2>1, <2>2
<1>7. QED
  BY <1>1, <1>2, <1>3, <1>4, <1>6

\* G is F up to what a running function does to its own CallInfo.
Touched(F, G) ==
  /\ Len(G) = Len(F)
  /\ \A i \in 1 .. Len(F) - 1 : G[i] = F[i]
  /\ G[Len(F)].lua = F[Len(F)].lua /\ G[Len(F)].fresh = F[Len(F)].fresh

LEMMA TouchFits ==
  ASSUME NEW S, Stacked(S), NEW f, NEW hs, Fits(S, f, hs), S # <<>>, Works(S[Len(S)]),
         NEW u, u = S[Len(S)].L,
         NEW g, Only(u, f, g), Touched(f[u], g[u])
  PROVE  Fits(S, g, hs)
<1> USE DEF Only
<1> DEFINE n == Len(S)
<1>1. /\ n \in Nat /\ n > 1 /\ n \in 1 .. n /\ u \in Threads /\ hs[n] \in Nat \ {0}
      /\ Len(f[u]) = hs[n]
      /\ \A j \in 1 .. n - 1 : S[j].L = u => hs[j] < hs[n]
  BY OwnFrames
<1>2. IsStack(S) /\ \A j \in 1 .. n : Record(S[j])
  BY DEF Stacked, IsStack
<1>3. \A j \in 1 .. n : hs[j] \in Nat
  BY DEF Fits, Fit
<1>4. Heights(S, g, hs)
  BY <1>1 DEF Fits, Heights, Touched
<1>5. ASSUME NEW j \in 1 .. n - 1 PROVE Fit(S, g[S[j].L], hs, j)
  <2>1. j \in 1 .. n /\ j \in Nat \ {0} /\ Record(S[j]) /\ S[j].L \in Threads
    <3>1. j \in 1 .. n /\ j \in Nat \ {0}
      BY <1>1
    <3>2. Record(S[j])
      BY <1>2, <3>1
    <3>3. QED
      BY <3>1, <3>2, RecordIs
  <2>2. Fit(S, f[S[j].L], hs, j)
    BY <2>1 DEF Fits
  <2>3. \A i \in 1 .. hs[j] : g[S[j].L][i] = f[S[j].L][i]
    <3>1. CASE S[j].L # u
      BY <2>1, <3>1
    <3>2. CASE S[j].L = u
      <4>1. hs[j] \in Nat /\ hs[j] < hs[n]
        BY <1>1, <1>3, <2>1, <3>2
      <4>2. \A i \in 1 .. hs[j] : i \in 1 .. hs[n] - 1
        BY <1>1, <4>1
      <4>3. QED
        BY <1>1, <3>2, <4>2 DEF Touched
    <3>3. QED
      BY <3>1, <3>2
  <2>4. QED
    BY <2>1, <2>2, <2>3, FitSame
<1>6. Fit(S, g[u], hs, n)
  <2>1. Fit(S, f[u], hs, n)
    BY <1>1 DEF Fits
  <2>2. /\ g[u][hs[n]].lua = f[u][hs[n]].lua /\ g[u][hs[n]].fresh = f[u][hs[n]].fresh
        /\ \A i \in 1 .. hs[n] - 1 : g[u][i] = f[u][i]
    BY <1>1 DEF Touched
  <2>3. CASE S[n].op = "body"
    BY <2>1, <2>2, <2>3 DEF Fit, FitBody
  <2>4. CASE S[n].op = "execute"
    <3>1. \A i \in Below(S, hs, n) + 1 .. hs[n] :
            g[u][i].lua = f[u][i].lua /\ g[u][i].fresh = f[u][i].fresh
      <4>1. hs[n] \in Nat /\ Below(S, hs, n) \in Nat
        BY <2>1 DEF Fit
      <4>2. \A i \in Below(S, hs, n) + 1 .. hs[n] : i = hs[n] \/ i \in 1 .. hs[n] - 1
        BY <4>1
      <4>3. QED
        BY <2>2, <4>2
    <3>2. QED
      BY <2>1, <2>4, <3>1 DEF Fit, FitExecute
  <2>5. QED
    BY <2>3, <2>4 DEF Works
<1>7. \A j \in 1 .. n : Fit(S, g[S[j].L], hs, j)
  BY <1>1, <1>5, <1>6
<1>8. QED
  BY <1>4, <1>7 DEF Fits

\* What the last record runs changes.
LastIs(S, hs, h2, v) == h2[Len(S)] = v /\ \A i \in 1 .. Len(S) - 1 : h2[i] = hs[i]
OthersKept(S, hs, u, F, G) ==
  \A j \in 1 .. Len(S) - 1 : S[j].L = u => hs[j] <= Len(G) /\ \A i \in 1 .. hs[j] : G[i] = F[i]
LEMMA TopFits ==
  ASSUME NEW S, Stacked(S), NEW f, NEW hs, Fits(S, f, hs), S # <<>>,
         NEW u, u = S[Len(S)].L, NEW v \in Nat, NEW g, NEW h2,
         LastIs(S, hs, h2, v), Only(u, f, g), Len(g[u]) = v, OthersKept(S, hs, u, f[u], g[u]),
         Fit(S, g[u], h2, Len(S))
  PROVE  Fits(S, g, h2)
<1> USE DEF Only, LastIs, OthersKept
<1> DEFINE n == Len(S)
<1>1. n \in Nat \ {0} /\ n \in 1 .. n /\ IsStack(S) /\ \A j \in 1 .. n : Record(S[j])
  BY StackFacts DEF Stacked, IsStack
<1>2. Growing(S, h2)
  <2>1. ASSUME NEW i \in 1 .. n, NEW k \in 1 .. n, i < k, S[i].L = S[k].L
        PROVE  h2[i] <= h2[k]
    <3>1. CASE k = n
      BY <1>1, <2>1, <3>1
    <3>2. CASE k # n
      BY <1>1, <2>1, <3>2 DEF Fits, Growing
    <3>3. QED
      BY <3>1, <3>2
  <2>2. QED
    BY <2>1 DEF Growing
<1>3. Heights(S, g, h2)
  <2>1. ASSUME NEW t \in Threads, NEW j \in 1 .. n, Latest(S, t, j)
        PROVE  Len(g[t]) = h2[j]
    <3>1. CASE t = u
      <4>1. j = n
        BY <1>1, <2>1, <3>1 DEF Latest
      <4>2. QED
        BY <3>1, <4>1
    <3>2. CASE t # u
      <4>1. j # n
        BY <2>1, <3>2 DEF Latest
      <4>2. j \in 1 .. n - 1
        BY <1>1, <4>1
      <4>3. QED
        BY <2>1, <3>2, <4>2 DEF Fits, Heights
    <3>3. QED
      BY <3>1, <3>2
  <2>2. QED
    BY <2>1 DEF Heights
<1>4. ASSUME NEW j \in 1 .. n - 1 PROVE Fit(S, g[S[j].L], h2, j)
  <2>1. j \in 1 .. n /\ j \in Nat \ {0} /\ Record(S[j]) /\ S[j].L \in Threads
    <3>1. j \in 1 .. n /\ j \in Nat \ {0}
      BY <1>1
    <3>2. Record(S[j])
      BY <1>1, <3>1
    <3>3. QED
      BY <3>1, <3>2, RecordIs
  <2>2. Fit(S, f[S[j].L], hs, j)
    BY <2>1 DEF Fits
  <2>3. \A i \in 1 .. hs[j] : g[S[j].L][i] = f[S[j].L][i]
    <3>1. CASE S[j].L # u
      BY <2>1, <3>1
    <3>2. CASE S[j].L = u
      BY <3>2
    <3>3. QED
      BY <3>1, <3>2
  <2>4. \A i \in 1 .. j : h2[i] = hs[i]
    BY <1>1
  <2>5. QED
    BY <2>1, <2>2, <2>3, <2>4, FitSame
<1>5. \A j \in 1 .. n : Fit(S, g[S[j].L], h2, j)
  BY <1>1, <1>4
<1>6. QED
  BY <1>2, <1>3, <1>5 DEF Fits

\* The frames of the running thread are those of the last record.
LEMMA LastHeight ==
  ASSUME NEW S, Stacked(S), NEW f, NEW hs, Fits(S, f, hs), S # <<>>, NEW u, u = S[Len(S)].L
  PROVE  /\ IsStack(S) /\ Len(S) \in Nat \ {0} /\ Len(S) \in 1 .. Len(S) /\ u \in Threads /\ Record(S[Len(S)])
         /\ Len(f[u]) = hs[Len(S)] /\ Fit(S, f[u], hs, Len(S)) /\ hs[Len(S)] \in Nat
<1> DEFINE n == Len(S)
<1>1. IsStack(S) /\ n \in Nat \ {0} /\ n \in 1 .. n
  BY StackFacts DEF Stacked
<1>2. Record(S[n])
  BY <1>1 DEF IsStack
<1>3. u \in Threads
  BY <1>2, RecordIs
<1>4. Latest(S, u, n)
  BY <1>1 DEF Latest
<1>5. QED
  BY <1>1, <1>2, <1>3, <1>4 DEF Fits, Heights, Fit

\* Sequences of frames.
LEMMA FramesAppend ==
  ASSUME NEW F \in Seq(Frames), NEW x \in Frames
  PROVE  /\ Append(F, x) \in Seq(Frames) /\ Len(Append(F, x)) = Len(F) + 1
         /\ \A i \in 1 .. Len(F) : Append(F, x)[i] = F[i]
         /\ Append(F, x)[Len(F) + 1] = x /\ Len(F) \in Nat
BY AppendProperties, LenProperties

LEMMA FramesCut ==
  ASSUME NEW F \in Seq(Frames), NEW n \in 0 .. Len(F)
  PROVE  /\ SubSeq(F, 1, n) \in Seq(Frames) /\ Len(SubSeq(F, 1, n)) = n
         /\ \A i \in 1 .. n : SubSeq(F, 1, n)[i] = F[i]
<1>1. Len(F) \in Nat /\ \A i \in 1 .. Len(F) : F[i] \in Frames
  BY LenProperties, ElementOfSeq
<1>2. QED
  BY <1>1, SubSeqProperties

LEMMA FramesFront ==
  ASSUME NEW F \in Seq(Frames), Len(F) > 0
  PROVE  /\ Front(F) \in Seq(Frames) /\ Len(Front(F)) = Len(F) - 1 /\ Len(F) - 1 \in 0 .. Len(F)
         /\ \A i \in 1 .. Len(F) - 1 : Front(F)[i] = F[i]
<1>1. Len(F) \in Nat
  BY LenProperties
<1>2. Len(F) - 1 \in 0 .. Len(F)
  BY <1>1
<1>3. QED
  BY <1>2, FramesCut DEF Front

LEMMA FramesTop ==
  ASSUME NEW F \in Seq(Frames), Len(F) > 0, NEW x \in Frames
  PROVE  /\ [F EXCEPT ![Len(F)] = x] \in Seq(Frames)
         /\ Len([F EXCEPT ![Len(F)] = x]) = Len(F)
         /\ \A i \in 1 .. Len(F) - 1 : [F EXCEPT ![Len(F)] = x][i] = F[i]
         /\ [F EXCEPT ![Len(F)] = x][Len(F)] = x
         /\ F[Len(F)] \in Frames /\ Len(F) \in Nat \ {0}
<1>1. Len(F) \in Nat
  BY LenProperties
<1>2. Len(F) \in 1 .. Len(F)
  BY <1>1
<1>3. QED
  BY <1>1, <1>2, ExceptSeq, ElementOfSeq

\* A function begins, or goes on, in a C function or a luaV_execute of its own.
LEMMA WorkFits ==
  ASSUME NEW S, Stacked(S), NEW f \in [Threads -> Seq(Frames)], NEW hs, Fits(S, f, hs), S # <<>>,
         NEW u, u = S[Len(S)].L, NEW lua \in BOOLEAN, NEW x \in Frames, x.lua = lua, lua => x.fresh,
         S[Len(S)].op # "body", lua => S[Len(S)].op # "execute"
  PROVE  \E h2 : Fits(Append(S, Working(u, lua)), [f EXCEPT ![u] = Append(@, x)], h2)
<1> DEFINE n == Len(S)
           r == Working(u, lua)
           T == Append(S, r)
           F == f[u]
           g == [f EXCEPT ![u] = Append(@, x)]
           h2 == [i \in 1 .. n + 1 |-> IF i = n + 1 THEN Len(F) + 1 ELSE hs[i]]
<1>1. /\ IsStack(S) /\ n \in Nat \ {0} /\ u \in Threads /\ Len(F) = hs[n] /\ hs[n] \in Nat
      /\ F \in Seq(Frames) /\ Record(S[n])
  BY LastHeight
<1>2. r.L = u /\ r.op = (IF lua THEN "execute" ELSE "body")
  BY DEF Working
<1>3. Record(r)
  <2>1. r.L \in Threads /\ r.op \in {"execute", "body"}
    BY <1>1, <1>2
  <2>2. QED
    BY <2>1 DEF Record
<1> HIDE DEF r
<1>4. Pushed(S, T, r)
  BY <1>1, <1>3, PushedIs
<1>5. /\ g[u] = Append(F, x) /\ \A t \in Threads \ {u} : g[t] = f[t]
      /\ Len(g[u]) = Len(F) + 1 /\ g[u][Len(F) + 1] = x
      /\ \A i \in 1 .. Len(F) : g[u][i] = F[i]
  BY <1>1, FramesAppend
<1>6. T[n + 1] = r /\ \A i \in 1 .. n : T[i] = S[i]
  BY <1>4 DEF Pushed
<1>7. /\ h2[n + 1] = Len(F) + 1 /\ h2[n] = hs[n] /\ \A i \in 1 .. n : h2[i] = hs[i]
  BY <1>1
<1> HIDE DEF g, h2, T
<1>8. (n + 1) - 1 = n /\ n + 1 > 1 /\ T[(n + 1) - 1] = S[n] /\ h2[(n + 1) - 1] = hs[n]
  BY <1>1, <1>6, <1>7
<1>9. Below(T, h2, n + 1) = hs[n]
  BY <1>2, <1>6, <1>8 DEF Below
<1>10. Fit(T, g[u], h2, n + 1)
  <2>1. CASE lua
    <3>1. FitExecute(T, g[u], h2, n + 1)
      <4>1. ~ Works(S[n])
        BY <2>1 DEF Works
      <4>2. x.lua /\ x.fresh
        BY <2>1
      <4>3. \A i \in hs[n] + 1 .. hs[n] + 1 : g[u][i].lua /\ (g[u][i].fresh <=> i = hs[n] + 1)
        <5>1. \A i \in hs[n] + 1 .. hs[n] + 1 : g[u][i] = x /\ i = hs[n] + 1
          <6>1. \A i \in hs[n] + 1 .. hs[n] + 1 : i = hs[n] + 1
            BY <1>1
          <6>2. g[u][hs[n] + 1] = x
            BY <1>1, <1>5
          <6>3. QED
            BY <6>1, <6>2
        <5>2. ASSUME NEW i \in hs[n] + 1 .. hs[n] + 1
              PROVE  g[u][i].lua /\ (g[u][i].fresh <=> i = hs[n] + 1)
          <6>1. g[u][i] = x /\ i = hs[n] + 1
            BY <5>1
          <6>2. g[u][i].lua = x.lua /\ g[u][i].fresh = x.fresh
            BY <6>1
          <6>3. QED
            BY <4>2, <6>1, <6>2
        <5>3. QED
          BY <5>2
      <4>4. n + 1 > 1 /\ ~ Works(T[(n + 1) - 1])
        BY <1>8, <4>1
      <4>5. h2[n + 1] = hs[n] + 1 /\ h2[n + 1] > Below(T, h2, n + 1)
        BY <1>1, <1>7, <1>9
      <4>6. \A i \in Below(T, h2, n + 1) + 1 .. h2[n + 1] :
              g[u][i].lua /\ (g[u][i].fresh <=> i = Below(T, h2, n + 1) + 1)
        BY <1>9, <4>3, <4>5
      <4>7. QED
        BY <4>4, <4>5, <4>6 DEF FitExecute
    <3>2. QED
      BY <1>1, <1>2, <1>6, <1>7, <1>9, <2>1, <3>1 DEF Fit
  <2>2. CASE ~ lua
    <3>1. FitBody(T, g[u], h2, n + 1)
      BY <1>1, <1>5, <1>7, <1>8, <1>9, <2>2 DEF FitBody
    <3>2. QED
      BY <1>1, <1>2, <1>6, <1>7, <1>9, <2>2, <3>1 DEF Fit
  <2>3. QED
    BY <2>1, <2>2
<1>11. Fits(T, g, h2)
  <2>1. Len(F) + 1 \in Nat /\ Len(F) + 1 >= Len(f[r.L]) /\ S[n].L = r.L
    BY <1>1, <1>2
  <2>2. Only(r.L, f, g) /\ Len(g[r.L]) = Len(F) + 1 /\ Longer(f[r.L], g[r.L])
    BY <1>1, <1>2, <1>5 DEF Only, Longer
  <2>3. Fit(T, g[r.L], h2, n + 1)
    BY <1>2, <1>10
  <2>4. Extends(S, hs, h2, Len(F) + 1)
    BY <1>7 DEF Extends
  <2>5. QED
    BY <1>1, <1>3, <1>4, <2>1, <2>2, <2>3, <2>4, PushFits
<1>12. QED
  BY <1>11 DEF g, T, r

\* A call is pushed.
LEMMA CallFits ==
  ASSUME NEW S, Stacked(S), NEW f, NEW hs, Fits(S, f, hs), S # <<>>,
         NEW u, u = S[Len(S)].L, NEW r, Record(r), r.L = u, r.op \in {"call", "pcall"},
         r.ci = Len(f[u]),
         r.op = "call" => /\ r.then = "throw" => r.noyield
                          /\ r.then # "throw" => Works(S[Len(S)])
                          /\ ~ r.noyield /\ S[Len(S)].op = "body" => f[u][Len(f[u])].k,
         r.op = "pcall" => /\ r.errfunc \in Handlers \cup {None}
                           /\ IF r.gc THEN ~ Finalizes(S[Len(S)]) ELSE Works(S[Len(S)])
  PROVE  \E h2 : Fits(Append(S, r), f, h2)
<1> DEFINE n == Len(S)
           T == Append(S, r)
           F == f[u]
           h2 == [i \in 1 .. n + 1 |-> IF i = n + 1 THEN Len(F) ELSE hs[i]]
<1>1. /\ IsStack(S) /\ n \in Nat \ {0} /\ u \in Threads /\ Len(F) = hs[n] /\ hs[n] \in Nat
      /\ Fit(S, F, hs, n) /\ Record(S[n])
  BY LastHeight
<1>2. Pushed(S, T, r)
  BY <1>1, PushedIs
<1>3. T[n + 1] = r /\ \A i \in 1 .. n : T[i] = S[i]
  BY <1>2 DEF Pushed
<1>4. /\ h2[n + 1] = Len(F) /\ h2[n] = hs[n] /\ \A i \in 1 .. n : h2[i] = hs[i]
  BY <1>1
<1> HIDE DEF h2, T
<1>5. (n + 1) - 1 = n /\ n + 1 > 1 /\ T[(n + 1) - 1] = S[n] /\ h2[(n + 1) - 1] = hs[n]
  BY <1>1, <1>3, <1>4
<1>6. Below(T, h2, n + 1) = hs[n]
  BY <1>3, <1>5 DEF Below
<1>7. Fit(T, F, h2, n + 1)
  <2>1. CASE r.op = "call"
    <3>1. S[n].op = "body" => hs[n] > 0
      BY <1>1 DEF Fit, FitBody
    <3>2. FitCall(T, F, h2, n + 1)
      BY <1>1, <1>3, <1>4, <1>5, <2>1, <3>1 DEF FitCall
    <3>3. QED
      BY <1>1, <1>3, <1>4, <1>6, <2>1, <3>2 DEF Fit
  <2>2. CASE r.op = "pcall"
    <3>1. FitPcall(T, n + 1)
      BY <1>3, <1>5, <2>2 DEF FitPcall
    <3>2. QED
      BY <1>1, <1>3, <1>4, <1>6, <2>2, <3>1 DEF Fit
  <2>3. QED
    BY <2>1, <2>2
<1>8. Fits(T, f, h2)
  <2>1. Len(F) \in Nat /\ Len(F) >= Len(f[r.L])
    BY <1>1
  <2>2. Only(r.L, f, f) /\ Longer(f[r.L], f[r.L]) /\ Len(f[r.L]) = Len(F)
    BY <1>1 DEF Only, Longer
  <2>3. Extends(S, hs, h2, Len(F))
    BY <1>4 DEF Extends
  <2>4. QED
    BY <1>1, <1>2, <1>7, <2>1, <2>2, <2>3, PushFits
<1>9. QED
  BY <1>8 DEF T

\* A thread comes onto the C stack, where its resume finds functions that wait.
LEMMA ResumeFits ==
  ASSUME NEW S, IsStack(S), NEW f, NEW hs, Fits(S, f, hs), NEW r, Record(r), r.op = "resume",
         ~ Has(S, r.L), NEW g, Only(r.L, f, g),
         Len(g[r.L]) \in Nat, Interrupted(g[r.L], Len(g[r.L]))
  PROVE  \E h2 : Fits(Append(S, r), g, h2)
<1> DEFINE n == Len(S)
           T == Append(S, r)
           F == g[r.L]
           h2 == [i \in 1 .. n + 1 |-> IF i = n + 1 THEN Len(F) ELSE hs[i]]
<1>1. Pushed(S, T, r) /\ n \in Nat
  BY PushedIs, StackFacts
<1>2. T[n + 1] = r /\ \A i \in 1 .. n : T[i] = S[i]
  BY <1>1 DEF Pushed
<1>3. h2[n + 1] = Len(F) /\ \A i \in 1 .. n : h2[i] = hs[i]
  BY <1>1
<1> HIDE DEF h2, T
<1>4. Below(T, h2, n + 1) = 0
  BY <1>2 DEF Below
<1>5. Fit(T, F, h2, n + 1)
  BY <1>2, <1>3, <1>4 DEF Fit
<1>6. Fits(T, g, h2)
  <2>1. Extends(S, hs, h2, Len(F))
    BY <1>3 DEF Extends
  <2>2. QED
    BY <1>1, <1>5, <2>1, PushFits
<1>7. QED
  BY <1>6 DEF T

\* When nothing of a thread forbids a yield, all its functions but the last can go on
\* without the C stack.
LEMMA YieldsAway ==
  ASSUME NEW S, Stacked(S), NEW f, NEW hs, Fits(S, f, hs), NEW t \in Threads, Has(S, t),
         \A j \in 1 .. Len(S) : S[j].L = t => ~ Walls(S[j])
  PROVE  Len(f[t]) \in Nat /\ Interrupted(f[t], Len(f[t]) - 1)
<1> DEFINE n == Len(S)
           F == f[t]
           M == {j \in 1 .. n : S[j].L = t}
<1>1. n \in Nat /\ \A j \in 1 .. n : Record(S[j])
  BY StackFacts DEF Stacked, IsStack
<1>2. PICK m \in M : \A j \in M : j <= m
  <2>1. M \in SUBSET (1 .. n) /\ M # {}
    BY DEF Has
  <2>2. QED
    BY <1>1, <2>1, MaxExists
<1>3. m \in 1 .. n /\ S[m].L = t /\ Len(F) = hs[m]
  <2>1. m \in 1 .. n /\ S[m].L = t
    OBVIOUS
  <2>2. Latest(S, t, m)
    BY <1>1, <1>2, <2>1 DEF Latest
  <2>3. QED
    BY <2>1, <2>2 DEF Fits, Heights
<1>4. \A j \in 1 .. n : hs[j] \in Nat
  BY DEF Fits, Fit
<1>5. Len(F) \in Nat
  BY <1>3, <1>4
<1>6. ASSUME NEW i \in 1 .. Len(F) - 1 PROVE F[i].lua \/ F[i].k
  <2> DEFINE J == {j \in M : i <= hs[j]}
  <2>1. J \subseteq Nat /\ J # {}
    <3>1. m \in J
      BY <1>3, <1>5
    <3>2. QED
      BY <3>1
  <2>2. PICK j \in J : \A y \in J : ~ (<<y, j>> \in OpToRel(<, Nat))
    BY <2>1, NatLessThanWellFounded, WFMin
  <2>3. \A y \in J : ~ (y < j)
    BY <2>1, <2>2 DEF OpToRel
  <2>4. /\ j \in 1 .. n /\ S[j].L = t /\ i <= hs[j] /\ hs[j] \in Nat
        /\ Record(S[j]) /\ Fit(S, F, hs, j)
    BY <1>1, <1>4 DEF Fits
  <2>5. Below(S, hs, j) < i
    <3>1. CASE j = 1 \/ S[j].op = "resume"
      BY <3>1 DEF Below
    <3>2. CASE ~ (j = 1 \/ S[j].op = "resume")
      <4>1. j \in 2 .. n /\ S[j].op # "resume"
        BY <1>1, <2>4, <3>2
      <4>2. S[j - 1].L = t
        BY <2>4, <4>1, Neighbour
      <4>3. j - 1 \in M /\ j - 1 < j /\ hs[j - 1] \in Nat
        BY <1>1, <1>4, <4>1, <4>2
      <4>4. ~ (i <= hs[j - 1])
        BY <2>3, <4>3
      <4>5. QED
        BY <3>2, <4>3, <4>4 DEF Below
    <3>3. QED
      BY <3>1, <3>2
  <2>6. Below(S, hs, j) \in Nat
    BY <2>4 DEF Fit
  <2>7. CASE S[j].op = "resume"
    BY <2>4, <2>7 DEF Fit, Interrupted
  <2>8. CASE S[j].op \in {"call", "pcall"}
    BY <2>4, <2>5, <2>6, <2>8 DEF Fit
  <2>9. CASE S[j].op = "execute"
    <3>1. i \in Below(S, hs, j) + 1 .. hs[j]
      BY <2>4, <2>5, <2>6
    <3>2. QED
      BY <2>4, <2>9, <3>1 DEF Fit, FitExecute
  <2>10. CASE S[j].op = "body"
    <3>1. hs[j] = i
      BY <2>4, <2>5, <2>6, <2>10 DEF Fit, FitBody
    <3>2. j < m
      <4>1. j # m
        BY <1>3, <1>5, <3>1
      <4>2. j <= m
        BY <1>2
      <4>3. QED
        BY <1>3, <2>4, <4>1, <4>2
    <3>3. j + 1 \in 1 .. n /\ j + 1 \in 2 .. n /\ (j + 1) - 1 = j /\ j < j + 1
      BY <1>1, <1>3, <2>4, <3>2
    <3>4. S[j + 1].op # "resume" \/ S[j + 1].L # t
      BY <2>4, <3>3 DEF Stacked
    <3>5. S[j + 1].L = t
      <4>1. SUFFICES ASSUME S[j + 1].L # t PROVE FALSE
        OBVIOUS
      <4>2. j + 1 < m
        BY <1>3, <2>4, <3>2, <4>1
      <4>3. PICK y \in (j + 1) + 1 .. m : S[y].op = "resume" /\ S[y].L = t
        BY <1>3, <3>3, <4>1, <4>2 DEF Stacked
      <4>4. y \in 1 .. n /\ j < y
        BY <1>1, <1>3, <2>4, <4>3
      <4>5. QED
        BY <2>4, <4>3, <4>4 DEF Stacked
    <3>6. Fit(S, F, hs, j + 1) /\ Record(S[j + 1]) /\ ~ Walls(S[j + 1])
      BY <1>1, <3>3, <3>5 DEF Fits
    <3>7. S[j + 1].op \notin {"body", "execute"}
      BY <2>10, <3>3, <3>6 DEF Fit, FitBody, FitExecute, Works
    <3>8. S[j + 1].op = "call" /\ ~ S[j + 1].noyield
      BY <3>4, <3>5, <3>6, <3>7, RecordIs DEF Walls
    <3>9. hs[j + 1] = i
      BY <2>4, <3>1, <3>3, <3>6, <3>8 DEF Fit, Below
    <3>10. QED
      BY <2>10, <3>3, <3>6, <3>8, <3>9 DEF Fit, FitCall
  <2>11. QED
    BY <2>4, <2>7, <2>8, <2>9, <2>10, RecordIs
<1>7. QED
  BY <1>5, <1>6 DEF Interrupted

-----------------------------------------------------------------------------
(* The inductive invariant                                                   *)

Functions ==
  /\ ci \in [Threads -> Seq(Frames)]
  /\ errfunc \in [Threads -> Handlers \cup {None}]
  /\ told \in Codes \cup {"none"}

\* A function that can recover from an error is called by others that can go on.
Recoverables(F) == \A i \in 1 .. Len(F) : F[i].ypcall => Interrupted(F, i - 1)

\* The functions of a thread that is not on the C stack: none, or those that wait
\* since it has yielded. (Those of a dead one are left where the error found them.)
Waiting ==
  \A t \in Threads :
    ~ Has(C, t) =>
      /\ status[t] = "ok" => ci[t] = <<>>
      /\ status[t] = "yield" => /\ Len(ci[t]) > 0 /\ ~ ci[t][Len(ci[t])].lua
                                /\ Interrupted(ci[t], Len(ci[t]) - 1)

\* What the step under way needs of the last record.
Going ==
  /\ ctl.at = "run" => Works(Top)
  /\ ctl.at = "call" => Top.op \in {"call", "pcall", "resume"}
  /\ ctl.at = "throw" => ctl.code # "ok"
  /\ Yielding(L) => Top.op = "body" /\ status[L] = "yield"

\* When a finalizer is called the collector is off, so that none is called before it has begun.
Collecting ==
  /\ gcrunning \in BOOLEAN
  /\ ctl.at = "call" /\ Finalizes(Top) => ~ gcrunning

FInv ==
  /\ Functions
  /\ \E hs : Fits(C, ci, hs)
  /\ \A t \in Threads : Recoverables(ci[t])
  /\ Waiting
  /\ Going

\* A thread that can yield has no call that forbids it.
LEMMA NoWalls ==
  ASSUME IInv, NEW t \in Threads, Has(C, t), nny[t] = 0
  PROVE  \A j \in 1 .. Len(C) : C[j].L = t => ~ Walls(C[j])
<1>1. Good(C, errorJmp, nny, nCcalls) /\ Len(C) \in Nat
  BY StackFacts DEF IInv, Good, Stacked
<1>2. nny[t] = Own(t) + Cardinality(WallsIn(C, t, Len(C)))
  BY <1>1 DEF Good, YieldsCounted
<1>3. IsFiniteSet(WallsIn(C, t, Len(C))) /\ Cardinality(WallsIn(C, t, Len(C))) \in Nat
  BY <1>1, WallStep
<1>4. Own(t) \in Nat
  BY DEF Own
<1>5. Cardinality(WallsIn(C, t, Len(C))) = 0
  BY <1>2, <1>3, <1>4
<1>6. WallsIn(C, t, Len(C)) = {}
  BY <1>3, <1>5, FS_EmptySet
<1>7. QED
  BY <1>6 DEF WallsIn

\* And so its functions can go on.
LEMMA CanGoOn ==
  ASSUME IInv, FInv, NEW t \in Threads, Has(C, t), nny[t] = 0
  PROVE  Interrupted(ci[t], Len(ci[t]) - 1)
<1>1. PICK hs : Fits(C, ci, hs)
  BY DEF FInv
<1>2. Stacked(C)
  BY DEF IInv, Good
<1>3. QED
  BY <1>1, <1>2, NoWalls, YieldsAway

-----------------------------------------------------------------------------
(* Every step preserves it                                                   *)

\* The state before a step that does not end the program.
LEMMA Running ==
  ASSUME IInv, FInv, ctl.at # "end"
  PROVE  /\ Stacked(C) /\ IsStack(C) /\ C # <<>> /\ Len(C) \in Nat \ {0} /\ Len(C) \in 1 .. Len(C)
         /\ L \in Threads /\ Top = C[Len(C)] /\ Top.L = L /\ Record(Top) /\ Has(C, L)
         /\ frames = ci[L] /\ frames \in Seq(Frames) /\ Len(frames) \in Nat
         /\ ci \in [Threads -> Seq(Frames)] /\ errfunc \in [Threads -> Handlers \cup {None}]
         /\ told \in Codes \cup {"none"} /\ ctl.code \in Codes
         /\ \E hs : Fits(C, ci, hs)
         /\ \A hs : Fits(C, ci, hs) => hs[Len(C)] = Len(frames) /\ Fit(C, frames, hs, Len(C))
         /\ Recoverables(frames)
         /\ Works(Top) => Len(frames) > 0 /\ frame = frames[Len(frames)] /\ frame \in Frames
                          /\ Len(C) > 1
<1>1. /\ C # <<>> /\ IsStack(C) /\ Len(C) \in Nat \ {0} /\ L \in Threads
      /\ C[Len(C)].L = L /\ Top = C[Len(C)] /\ Record(Top) /\ Has(C, L) /\ Stacked(C)
  BY Before DEF Good
<1>2. Len(C) \in 1 .. Len(C) /\ Top.L = L
  BY <1>1
<1>3. /\ ci \in [Threads -> Seq(Frames)] /\ errfunc \in [Threads -> Handlers \cup {None}]
      /\ told \in Codes \cup {"none"} /\ ctl.code \in Codes
  BY DEF FInv, Functions, IInv, Types
<1>4. frames = ci[L] /\ frames \in Seq(Frames) /\ Len(frames) \in Nat
  <2>1. frames = ci[L]
    BY DEF frames
  <2>2. QED
    BY <1>1, <1>3, <2>1, LenProperties
<1>5. ASSUME NEW hs, Fits(C, ci, hs) PROVE hs[Len(C)] = Len(frames) /\ Fit(C, frames, hs, Len(C))
  BY <1>1, <1>4, <1>5, LastHeight
<1>6. (\E hs : Fits(C, ci, hs)) /\ Recoverables(frames)
  BY <1>1, <1>4 DEF FInv
<1>7. ASSUME Works(Top)
      PROVE  Len(frames) > 0 /\ frame = frames[Len(frames)] /\ frame \in Frames /\ Len(C) > 1
  <2>1. PICK hs : Fits(C, ci, hs)
    BY <1>6
  <2>2. Len(C) > 1 /\ hs[Len(C)] \in Nat \ {0} /\ hs[Len(C)] = Len(frames)
    BY <1>1, <1>4, <1>7, <2>1, OwnFrames
  <2>3. Len(frames) > 0 /\ Len(frames) \in 1 .. Len(frames) /\ frame = frames[Len(frames)]
    BY <2>2 DEF frame
  <2>4. QED
    BY <1>4, <2>2, <2>3, ElementOfSeq
<1>8. QED
  BY <1>1, <1>2, <1>3, <1>4, <1>5, <1>6, <1>7

\* The threads whose records stay.
LEMMA HasKept ==
  ASSUME NEW S, IsStack(S), NEW n, NEW T, Cut(S, T, n), NEW u, AllOf(S, n, u)
  PROVE  \A t \in Threads \ {u} : Has(S, t) => Has(T, t)
<1> USE DEF AllOf
<1> SUFFICES ASSUME NEW t, t # u, Has(S, t) PROVE Has(T, t)
  OBVIOUS
<1>1. Len(S) \in Nat /\ Len(T) = n /\ n \in Nat /\ \A i \in 1 .. n : T[i] = S[i]
  BY StackFacts DEF Cut
<1>2. PICK j \in 1 .. Len(S) : S[j].L = t
  BY DEF Has
<1>3. j \in 1 .. n
  BY <1>1, <1>2
<1>4. QED
  BY <1>1, <1>2, <1>3 DEF Has

\* The recoverable functions of a list that differs from another in its last function.
LEMMA RecoverablesKept ==
  ASSUME NEW F, NEW G, Len(F) \in Nat, Len(G) \in Nat, Recoverables(F), Len(G) <= Len(F) + 1,
         \A i \in 1 .. Len(G) - 1 : G[i] = F[i],
         \/ G[Len(G)].ypcall => Interrupted(F, Len(G) - 1)
         \/ Len(G) <= Len(F) /\ G[Len(G)] = F[Len(G)]
  PROVE  Recoverables(G)
<1>1. ASSUME NEW i \in 1 .. Len(G), G[i].ypcall PROVE Interrupted(G, i - 1)
  <2>1. Interrupted(F, i - 1)
    <3>1. CASE i = Len(G)
      BY <1>1, <3>1 DEF Recoverables
    <3>2. CASE i # Len(G)
      <4>1. i \in 1 .. Len(G) - 1 /\ i \in 1 .. Len(F)
        BY <3>2
      <4>2. F[i].ypcall
        BY <1>1, <4>1
      <4>3. QED
        BY <4>1, <4>2 DEF Recoverables
    <3>3. QED
      BY <3>1, <3>2
  <2>2. \A m \in 1 .. i - 1 : m \in 1 .. Len(G) - 1
    OBVIOUS
  <2>3. QED
    BY <2>1, <2>2 DEF Interrupted
<1>2. QED
  BY <1>1 DEF Recoverables

\* Only the running thread changes.
LEMMA RunStep ==
  ASSUME IInv, FInv, ctl.at # "end", UNCHANGED status,
         NEW G \in Seq(Frames), ci' = [ci EXCEPT ![L] = G], Recoverables(G),
         errfunc' \in [Threads -> Handlers \cup {None}], told' \in Codes \cup {"none"},
         \E hs : Fits(C', ci', hs),
         \A t \in Threads \ {L} : Has(C, t) => Has(C', t), Has(C', L), Going'
  PROVE  FInv'
<1>1. L \in Threads /\ ci \in [Threads -> Seq(Frames)]
  BY Running
<1>2. ci'[L] = G /\ \A t \in Threads \ {L} : ci'[t] = ci[t]
  BY <1>1
<1>3. Functions'
  BY <1>1 DEF Functions
<1>4. \A t \in Threads : Recoverables(ci'[t])
  BY <1>2 DEF FInv
<1>5. Waiting'
  <2>1. ASSUME NEW t \in Threads, ~ Has(C', t)
        PROVE  ~ Has(C, t) /\ ci'[t] = ci[t] /\ status'[t] = status[t]
    BY <1>2, <2>1
  <2>2. QED
    BY <2>1 DEF FInv, Waiting
<1>6. QED
  BY <1>3, <1>4, <1>5 DEF FInv

\* What the running function does to its own CallInfo fits the same C stack.
LEMMA TouchRun ==
  ASSUME IInv, FInv, ctl.at # "end", Works(Top),
         NEW G \in Seq(Frames), Touched(frames, G), NEW g, g = [ci EXCEPT ![L] = G]
  PROVE  \E hs : Fits(C, g, hs)
<1>1. /\ Stacked(C) /\ C # <<>> /\ L \in Threads /\ Top = C[Len(C)] /\ Top.L = L /\ frames = ci[L]
      /\ ci \in [Threads -> Seq(Frames)]
  BY Running
<1>2. PICK hs : Fits(C, ci, hs)
  BY Running
<1>3. g[L] = G /\ \A t \in Threads \ {L} : g[t] = ci[t]
  BY <1>1
<1>4. Fits(C, g, hs)
  <2>1. Only(L, ci, g)
    BY <1>3 DEF Only
  <2>2. QED
    BY <1>1, <1>2, <1>3, <2>1, TouchFits
<1>5. QED
  BY <1>4

\* A call or a protected call.
LEMMA CallRun ==
  ASSUME IInv, FInv, ctl.at \in {"run", "call"}, UNCHANGED status,
         NEW G \in Seq(Frames), ci' = [ci EXCEPT ![L] = G], Recoverables(G),
         G = frames \/ (ctl.at = "run" /\ Touched(frames, G)),
         errfunc' \in [Threads -> Handlers \cup {None}], told' \in Codes \cup {"none"},
         NEW r, Record(r), r.L = L, r.op \in {"call", "pcall"}, r.ci = Len(frames),
         r.op = "call" => /\ r.then = "throw" => r.noyield
                          /\ r.then # "throw" => ctl.at = "run"
                          /\ ~ r.noyield /\ Top.op = "body" => G[Len(frames)].k,
         r.op = "pcall" => /\ r.errfunc \in Handlers \cup {None}
                           /\ IF r.gc THEN ~ Finalizes(Top) ELSE ctl.at = "run",
         C' = Append(C, r), ctl' = At("call", L)
  PROVE  FInv'
<1>1. /\ Stacked(C) /\ IsStack(C) /\ C # <<>> /\ L \in Threads /\ Top = C[Len(C)] /\ Top.L = L
      /\ frames = ci[L] /\ ci \in [Threads -> Seq(Frames)]
      /\ ctl.at = "run" => Works(Top)
  BY Running DEF FInv, Going
<1>2. ci'[L] = G /\ Len(ci'[L]) = Len(frames)
  BY <1>1 DEF Touched
<1>3. PICK hs : Fits(C, ci', hs)
  <2>1. CASE G = frames
    <3>1. ci' = ci
      BY <1>1, <2>1
    <3>2. PICK hs : Fits(C, ci, hs)
      BY Running
    <3>3. Fits(C, ci', hs)
      BY <3>1, <3>2
    <3>4. QED
      BY <3>3
  <2>2. CASE G # frames
    BY <1>1, <2>2, TouchRun
  <2>3. QED
    BY <2>1, <2>2
<1>4. \E h2 : Fits(C', ci', h2)
  BY <1>1, <1>2, <1>3, CallFits
<1>5. Pushed(C, C', r)
  BY <1>1, PushedIs
<1>6. Has(C', L) /\ \A t \in Threads \ {L} : Has(C, t) => Has(C', t)
  BY <1>1, <1>5, HasPushed
<1>7. Going'
  <2>1. C'[Len(C')] = r
    BY <1>1, <1>5, TopPushed
  <2>2. QED
    BY <2>1 DEF Going, Top, Yielding, At, L
<1>8. QED
  BY <1>4, <1>6, <1>7, RunStep

\* The functions of the running thread stay as they are.
LEMMA SameList ==
  ASSUME IInv, FInv, ctl.at # "end", UNCHANGED ci
  PROVE  frames \in Seq(Frames) /\ ci' = [ci EXCEPT ![L] = frames] /\ Recoverables(frames)
<1>1. L \in Threads /\ ci \in [Threads -> Seq(Frames)] /\ frames = ci[L] /\ frames \in Seq(Frames)
      /\ Recoverables(frames)
  BY Running
<1>2. QED
  BY <1>1

\* A function begins, or goes on, on top of the C stack.
LEMMA WorkRun ==
  ASSUME IInv, FInv, ctl.at \in {"run", "call"}, UNCHANGED <<status, errfunc>>, told' = "none",
         NEW lua \in BOOLEAN, NEW x \in Frames, x.lua = lua, ~ x.ypcall, lua => x.fresh,
         Top.op # "body", lua => Top.op # "execute",
         ci' = [ci EXCEPT ![L] = Append(@, x)], C' = Append(C, Working(L, lua)),
         ctl'.at = "run", ctl'.L = L
  PROVE  FInv'
<1> DEFINE G == Append(frames, x)
           r == Working(L, lua)
<1>1. /\ Stacked(C) /\ IsStack(C) /\ C # <<>> /\ L \in Threads /\ Top = C[Len(C)] /\ Top.L = L
      /\ frames = ci[L] /\ ci \in [Threads -> Seq(Frames)] /\ frames \in Seq(Frames)
      /\ Len(frames) \in Nat /\ Recoverables(frames)
  BY Running
<1>2. PICK hs : Fits(C, ci, hs)
  BY Running
<1>3. \E h2 : Fits(C', ci', h2)
  BY <1>1, <1>2, WorkFits
<1>4. /\ G \in Seq(Frames) /\ Len(G) = Len(frames) + 1 /\ G[Len(frames) + 1] = x
      /\ \A i \in 1 .. Len(frames) : G[i] = frames[i]
  BY <1>1, FramesAppend
<1>5. ci' = [ci EXCEPT ![L] = G]
  BY <1>1
<1> HIDE DEF G
<1>6. Recoverables(G)
  <2>1. Len(G) \in Nat /\ Len(G) - 1 = Len(frames) /\ ~ G[Len(G)].ypcall
    BY <1>1, <1>4
  <2>2. \A i \in 1 .. Len(G) - 1 : G[i] = frames[i]
    BY <1>4, <2>1
  <2>3. Len(G) <= Len(frames) + 1
    BY <1>1, <1>4
  <2>4. G[Len(G)].ypcall => Interrupted(frames, Len(G) - 1)
    BY <2>1
  <2>5. QED
    BY <1>1, <2>1, <2>2, <2>3, <2>4, RecoverablesKept
<1>7. r.L = L /\ r.op \in {"execute", "body"}
  BY DEF Working
<1>8. Record(r)
  BY <1>1, <1>7 DEF Record
<1>9. Pushed(C, C', r)
  BY <1>1, <1>8, PushedIs
<1>10. Has(C', L) /\ \A t \in Threads \ {L} : Has(C, t) => Has(C', t)
  BY <1>1, <1>7, <1>9, HasPushed
<1>11. Going'
  <2>1. C'[Len(C')] = r
    BY <1>1, <1>9, TopPushed
  <2>2. QED
    BY <1>7, <2>1 DEF Going, Top, Yielding, Works
<1>12. errfunc' \in [Threads -> Handlers \cup {None}] /\ told' \in Codes \cup {"none"}
  BY DEF FInv, Functions
<1>13. QED
  BY <1>3, <1>4, <1>5, <1>6, <1>10, <1>11, <1>12, RunStep

\* Frames.
LEMMA FramesAre ==
  ASSUME NEW x \in Frames
  PROVE  /\ Idle(x) \in Frames /\ Idle(x).lua = x.lua /\ Idle(x).fresh = x.fresh /\ ~ Idle(x).ypcall
         /\ [Idle(x) EXCEPT !.fresh = x.lua] \in Frames
         /\ [Idle(x) EXCEPT !.fresh = x.lua].lua = x.lua
         /\ x.lua => [Idle(x) EXCEPT !.fresh = x.lua].fresh
         /\ ~ [Idle(x) EXCEPT !.fresh = x.lua].ypcall
         /\ x.lua \in BOOLEAN /\ x.old_errfunc \in Handlers \cup {None}
         /\ \A k \in BOOLEAN : /\ [x EXCEPT !.k = k] \in Frames /\ [x EXCEPT !.k = k].k = k
                               /\ [x EXCEPT !.k = k].lua = x.lua
                               /\ [x EXCEPT !.k = k].fresh = x.fresh
                               /\ [x EXCEPT !.k = k].ypcall = x.ypcall
BY DEF Frames, Idle

LEMMA NewFrames ==
  /\ \A fresh \in BOOLEAN : /\ LuaFrame(fresh) \in Frames /\ LuaFrame(fresh).lua /\ ~ LuaFrame(fresh).ypcall
                            /\ LuaFrame(fresh).fresh = fresh /\ LuaFrame(fresh).lua = TRUE
  /\ CFrame \in Frames /\ ~ CFrame.lua /\ ~ CFrame.ypcall /\ CFrame.lua = FALSE
BY DEF Frames, LuaFrame, CFrame

\* luaV_execute has more functions, or less.
Relisted(S, hs, F, G) ==
  /\ Len(G) \in Nat /\ Below(S, hs, Len(S)) < Len(G) /\ hs[Len(S)] - 1 <= Len(G)
  /\ \A i \in 1 .. hs[Len(S)] - 1 : G[i] = F[i]
  /\ \A i \in hs[Len(S)] .. Len(G) : G[i].lua /\ (G[i].fresh <=> i = Below(S, hs, Len(S)) + 1)
LEMMA ExecuteFits ==
  ASSUME NEW S, Stacked(S), NEW f \in [Threads -> Seq(Frames)], NEW hs, Fits(S, f, hs), S # <<>>,
         NEW u, u = S[Len(S)].L, S[Len(S)].op = "execute",
         NEW G, Relisted(S, hs, f[u], G)
  PROVE  \E h2 : Fits(S, [f EXCEPT ![u] = G], h2)
<1>0. PICK v : v = Len(G)
  OBVIOUS
<1> DEFINE n == Len(S)
           b == Below(S, hs, n)
           g == [f EXCEPT ![u] = G]
           h2 == [i \in 1 .. n |-> IF i = n THEN v ELSE hs[i]]
<1>1. /\ IsStack(S) /\ n \in Nat /\ n > 1 /\ u \in Threads /\ Len(f[u]) = hs[n] /\ hs[n] \in Nat \ {0}
      /\ Fit(S, f[u], hs, n)
      /\ \A j \in 1 .. n - 1 : S[j].L = u => hs[j] < hs[n]
  BY LastHeight, OwnFrames DEF Works
<1>2. /\ FitExecute(S, f[u], hs, n) /\ b \in Nat
      /\ v \in Nat /\ b < v /\ hs[n] - 1 <= v
      /\ \A i \in 1 .. hs[n] - 1 : G[i] = f[u][i]
      /\ \A i \in hs[n] .. v : G[i].lua /\ (G[i].fresh <=> i = b + 1)
  BY <1>0, <1>1 DEF Fit, Relisted
<1>3. g[u] = G /\ \A t \in Threads \ {u} : g[t] = f[t]
  BY <1>1
<1>4. h2[n] = v /\ \A i \in 1 .. n - 1 : h2[i] = hs[i]
  BY <1>1
<1> HIDE DEF g, h2
<1>5. Below(S, h2, n) = b
  <2>1. n - 1 \in 1 .. n - 1
    BY <1>1
  <2>2. h2[n - 1] = hs[n - 1]
    BY <1>4, <2>1
  <2>3. QED
    BY <2>2 DEF Below
<1>6. ASSUME NEW i \in b + 1 .. v PROVE G[i].lua /\ (G[i].fresh <=> i = b + 1)
  <2>1. CASE i >= hs[n]
    BY <1>1, <1>2, <2>1
  <2>2. CASE i < hs[n]
    <3>1. i \in 1 .. hs[n] - 1 /\ i \in b + 1 .. hs[n]
      BY <1>1, <1>2, <2>2
    <3>2. G[i] = f[u][i]
      BY <1>2, <3>1
    <3>3. f[u][i].lua /\ (f[u][i].fresh <=> i = b + 1)
      <4>1. FitExecute(S, f[u], hs, n)
        BY <1>2
      <4>2. QED
        BY <3>1, <4>1 DEF FitExecute
    <3>4. QED
      BY <3>2, <3>3
  <2>3. QED
    BY <1>1, <1>2, <2>1, <2>2
<1>7. FitExecute(S, G, h2, n)
  BY <1>2, <1>4, <1>5, <1>6 DEF FitExecute
<1>8. Fit(S, g[u], h2, n)
  BY <1>2, <1>3, <1>4, <1>5, <1>7 DEF Fit
<1>9. ASSUME NEW j \in 1 .. n - 1, S[j].L = u
      PROVE  hs[j] <= v /\ \A i \in 1 .. hs[j] : g[u][i] = f[u][i]
  <2>1. hs[j] < hs[n] /\ hs[j] \in Nat
    <3>1. j \in 1 .. n
      BY <1>1
    <3>2. QED
      BY <1>1, <1>9, <3>1 DEF Fits, Fit
  <2>2. \A i \in 1 .. hs[j] : i \in 1 .. hs[n] - 1
    BY <1>1, <1>2, <2>1
  <2>3. QED
    BY <1>1, <1>2, <1>3, <2>1, <2>2
<1>10. Only(u, f, g) /\ Len(g[u]) = v /\ v \in Nat
  BY <1>0, <1>2, <1>3 DEF Only
<1>11. OthersKept(S, hs, u, f[u], g[u]) /\ LastIs(S, hs, h2, v)
  BY <1>4, <1>9, <1>10 DEF OthersKept, LastIs
<1>12. Fits(S, g, h2)
  BY <1>8, <1>10, <1>11, TopFits
<1>13. QED
  BY <1>12 DEF g

\* OP_CALL of a Lua function, which runs in the same luaV_execute.
LEMMA CallLuaStep ==
  ASSUME IInv, FInv, OP_CALL(TRUE)
  PROVE  FInv'
<1> DEFINE x == LuaFrame(FALSE)
           n == Len(C)
<1>1. /\ Stacked(C) /\ IsStack(C) /\ C # <<>> /\ L \in Threads /\ Top = C[n] /\ Top.L = L
      /\ frames = ci[L] /\ ci \in [Threads -> Seq(Frames)] /\ frames \in Seq(Frames)
      /\ Len(frames) \in Nat /\ Recoverables(frames) /\ Has(C, L) /\ n \in Nat \ {0}
      /\ ctl.at = "run" /\ Top.op = "execute"
  BY Running DEF OP_CALL, In
<1>2. UNCHANGED <<C, ctl, status, errfunc>> /\ told' = "none" /\ ci' = [ci EXCEPT ![L] = Append(@, x)]
  BY DEF OP_CALL
<1>3. PICK hs : Fits(C, ci, hs)
  BY <1>1, Running
<1>4. hs[n] = Len(frames) /\ Fit(C, frames, hs, n)
  BY <1>1, <1>3, Running
<1>5. FitExecute(C, frames, hs, n) /\ Below(C, hs, n) \in Nat /\ hs[n] > Below(C, hs, n)
  BY <1>1, <1>4 DEF Fit, FitExecute
<1>6. x \in Frames /\ x.lua /\ ~ x.fresh /\ ~ x.ypcall
  BY NewFrames
<1> HIDE DEF x
<1> DEFINE G == Append(frames, x)
<1>7. /\ G \in Seq(Frames) /\ Len(G) = Len(frames) + 1 /\ G[Len(frames) + 1] = x
      /\ \A i \in 1 .. Len(frames) : G[i] = frames[i]
  BY <1>1, <1>6, FramesAppend
<1>8. ci' = [ci EXCEPT ![L] = G]
  BY <1>1, <1>2
<1> HIDE DEF G
<1>9. ASSUME NEW i \in hs[n] .. Len(G) PROVE G[i].lua /\ (G[i].fresh <=> i = Below(C, hs, n) + 1)
  <2>1. CASE i = hs[n]
    <3>1. G[i] = frames[i] /\ i \in Below(C, hs, n) + 1 .. hs[n]
      BY <1>1, <1>4, <1>5, <1>7, <2>1
    <3>2. frames[i].lua /\ (frames[i].fresh <=> i = Below(C, hs, n) + 1)
      BY <1>5, <3>1 DEF FitExecute
    <3>3. QED
      BY <3>1, <3>2
  <2>2. CASE i # hs[n]
    <3>1. i = Len(frames) + 1 /\ i # Below(C, hs, n) + 1
      BY <1>1, <1>4, <1>5, <1>7, <2>2
    <3>2. G[i] = x
      BY <1>7, <3>1
    <3>3. QED
      BY <1>6, <3>1, <3>2
  <2>3. QED
    BY <2>1, <2>2
<1>10. \E h2 : Fits(C, [ci EXCEPT ![L] = G], h2)
  <2>1. /\ Len(G) \in Nat /\ Below(C, hs, n) < Len(G) /\ hs[n] - 1 <= Len(G)
        /\ \A i \in 1 .. hs[n] - 1 : G[i] = ci[L][i]
    BY <1>1, <1>4, <1>5, <1>7
  <2>2. \A i \in hs[n] .. Len(G) : G[i].lua /\ (G[i].fresh <=> i = Below(C, hs, n) + 1)
    BY <1>9
  <2>3. Relisted(C, hs, ci[L], G)
    BY <2>1, <2>2 DEF Relisted
  <2>4. QED
    BY <1>1, <1>3, <2>3, ExecuteFits
<1>11. Recoverables(G)
  <2>1. /\ Len(G) \in Nat /\ Len(G) - 1 = Len(frames) /\ ~ G[Len(G)].ypcall
        /\ Len(G) <= Len(frames) + 1
    BY <1>1, <1>6, <1>7
  <2>2. \A i \in 1 .. Len(G) - 1 : G[i] = frames[i]
    BY <1>7, <2>1
  <2>3. QED
    BY <1>1, <2>1, <2>2, RecoverablesKept
<1>12. Going'
  BY <1>1, <1>2 DEF Going, Top, Yielding, Works
<1>13. \E h2 : Fits(C', ci', h2)
  BY <1>2, <1>8, <1>10
<1>14. errfunc' \in [Threads -> Handlers \cup {None}] /\ told' \in Codes \cup {"none"}
  BY <1>2 DEF FInv, Functions
<1>15. Has(C', L) /\ \A t \in Threads \ {L} : Has(C, t) => Has(C', t)
  BY <1>1, <1>2
<1>16. QED
  BY <1>1, <1>2, <1>7, <1>8, <1>11, <1>12, <1>13, <1>14, <1>15, RunStep

\* The C stack is cut to record n of the running thread, and the list of functions to
\* those called then.
LEMMA CutRun ==
  ASSUME IInv, FInv, ctl.at # "end", NEW n \in 1 .. Len(C), NEW T, Cut(C, T, n), C[n].L = L,
         AllOf(C, n, L), NEW hs, Fits(C, ci, hs), NEW G, First(frames, hs[n], G)
  PROVE  /\ Fits(T, [ci EXCEPT ![L] = G], hs)
         /\ Has(T, L) /\ \A t \in Threads \ {L} : Has(C, t) => Has(T, t)
         /\ Stacked(T) /\ T # <<>> /\ Len(T) = n /\ T[Len(T)] = C[n]
         /\ Recoverables(G) /\ hs[n] \in 0 .. Len(frames)
<1> DEFINE g == [ci EXCEPT ![L] = G]
<1>1. /\ Stacked(C) /\ IsStack(C) /\ L \in Threads /\ frames = ci[L]
      /\ ci \in [Threads -> Seq(Frames)] /\ Len(C) \in Nat \ {0} /\ Len(C) \in 1 .. Len(C)
      /\ Len(frames) \in Nat /\ Recoverables(frames) /\ hs[Len(C)] = Len(frames)
      /\ Top = C[Len(C)] /\ Top.L = L
  BY Running
<1>2. g[L] = G /\ \A t \in Threads \ {L} : g[t] = ci[t]
  BY <1>1
<1> HIDE DEF g
<1>3. /\ IsStack(T) /\ Len(T) = n /\ n \in Nat /\ n > 0 /\ T[n] = C[n] /\ n \in 1 .. n
  BY <1>1 DEF Cut
<1>4. Fits(T, g, hs)
  <2>1. Only(L, ci, g) /\ First(ci[L], hs[n], g[L])
    BY <1>1, <1>2 DEF Only
  <2>2. QED
    BY <1>1, <1>3, <2>1, CutFits
<1>5. Has(T, L)
  BY <1>3 DEF Has
<1>6. \A t \in Threads \ {L} : Has(C, t) => Has(T, t)
  BY <1>1, HasKept
<1>7. Stacked(T) /\ T # <<>>
  BY <1>1, <1>3, CutStacked, StackFacts
<1>8. hs[n] \in 0 .. Len(frames)
  <2>1. hs[n] \in Nat
    BY DEF Fits, Fit
  <2>2. hs[n] <= hs[Len(C)]
    BY <1>1, <1>3, <2>1 DEF Fits, Growing
  <2>3. QED
    BY <1>1, <2>1, <2>2
<1>9. Recoverables(G)
  <2>1. ASSUME NEW i \in 1 .. Len(G), G[i].ypcall PROVE Interrupted(G, i - 1)
    <3>1. Len(G) = hs[n] /\ \A m \in 1 .. hs[n] : G[m] = frames[m]
      BY DEF First
    <3>2. i \in 1 .. hs[n] /\ i \in 1 .. Len(frames) /\ frames[i].ypcall
      BY <1>1, <1>8, <2>1, <3>1
    <3>3. Interrupted(frames, i - 1)
      BY <1>1, <3>2 DEF Recoverables
    <3>4. \A m \in 1 .. i - 1 : G[m] = frames[m]
      BY <1>1, <1>8, <3>1, <3>2
    <3>5. QED
      BY <3>3, <3>4 DEF Interrupted
  <2>2. QED
    BY <2>1 DEF Recoverables
<1>10. QED
  BY <1>3, <1>4, <1>5, <1>6, <1>7, <1>8, <1>9 DEF g

\* The running thread leaves the C stack.
LEMMA GoneStep ==
  ASSUME IInv, FInv, ctl.at # "end", NEW n, Cut(C, C', n), AllOf(C, n, L),
         ~ Has(C', L), NEW G \in Seq(Frames), ci' = [ci EXCEPT ![L] = G], Recoverables(G),
         \A t \in Threads \ {L} : status'[t] = status[t],
         status'[L] = "ok" => G = <<>>,
         status'[L] = "yield" => Len(G) > 0 /\ ~ G[Len(G)].lua /\ Interrupted(G, Len(G) - 1),
         errfunc' \in [Threads -> Handlers \cup {None}], told' \in Codes \cup {"none"}, Going'
  PROVE  FInv'
<1>1. L \in Threads /\ IsStack(C) /\ ci \in [Threads -> Seq(Frames)]
  BY Running
<1>2. ci'[L] = G /\ \A t \in Threads \ {L} : ci'[t] = ci[t]
  BY <1>1
<1>3. PICK hs : Fits(C, ci, hs)
  BY Running
<1>4. Fits(C', ci', hs)
  <2>1. Only(L, ci, ci')
    BY <1>2 DEF Only
  <2>2. QED
    BY <1>1, <1>3, <2>1, CutFits
<1>5. \A t \in Threads \ {L} : Has(C, t) => Has(C', t)
  BY <1>1, HasKept
<1>6. Functions'
  BY <1>1 DEF Functions
<1>7. \A t \in Threads : Recoverables(ci'[t])
  BY <1>2 DEF FInv
<1>8. Waiting'
  <2>1. ASSUME NEW t \in Threads \ {L}, ~ Has(C', t)
        PROVE  ~ Has(C, t) /\ ci'[t] = ci[t] /\ status'[t] = status[t]
    BY <1>2, <1>5, <2>1
  <2>2. QED
    BY <1>2, <2>1 DEF FInv, Waiting
<1>9. QED
  BY <1>4, <1>6, <1>7, <1>8 DEF FInv

\* The record below that of a running or called function.
LEMMA BelowTop ==
  ASSUME IInv, FInv, ctl.at # "end", Top.op # "resume", Len(C) > 1
  PROVE  /\ Len(C) - 1 \in 1 .. Len(C) /\ Cut(C, Front(C), Len(C) - 1)
         /\ C[Len(C) - 1].L = L /\ AllOf(C, Len(C) - 1, L)
         /\ \A hs : Below(C, hs, Len(C)) = hs[Len(C) - 1]
<1>1. /\ Stacked(C) /\ IsStack(C) /\ C # <<>> /\ Len(C) \in Nat \ {0} /\ Top = C[Len(C)] /\ Top.L = L
  BY Running
<1>2. Len(C) \in 2 .. Len(C)
  BY <1>1
<1>3. C[Len(C) - 1].L = L
  BY <1>1, <1>2, Neighbour
<1>4. Cut(C, Front(C), Len(C) - 1)
  BY <1>1, FrontIs
<1>5. \A hs : Below(C, hs, Len(C)) = hs[Len(C) - 1]
  BY <1>1, <1>2 DEF Below
<1>6. AllOf(C, Len(C) - 1, L)
  BY <1>1 DEF AllOf
<1>7. QED
  BY <1>1, <1>2, <1>3, <1>4, <1>5, <1>6

\* A function returns to who called it from C.
LEMMA PopWork ==
  ASSUME IInv, FInv, ctl.at = "run", UNCHANGED <<status, errfunc>>, UNCHANGED told \/ told' = "none",
         Top.op = "body" \/ (Top.op = "execute" /\ frame.fresh),
         ci' = [ci EXCEPT ![L] = Front(@)], C' = Front(C), ctl' = At("return", L)
  PROVE  FInv'
<1> DEFINE G == Front(frames)
<1>0. PICK n : n = Len(C) - 1
  OBVIOUS
<1>1. /\ C # <<>> /\ L \in Threads /\ Top = C[Len(C)] /\ Top.L = L /\ Len(C) \in Nat \ {0}
      /\ frames = ci[L] /\ frames \in Seq(Frames) /\ Len(frames) \in Nat
      /\ Len(frames) > 0 /\ frame = frames[Len(frames)] /\ Len(C) > 1 /\ Top.op # "resume"
      /\ errfunc \in [Threads -> Handlers \cup {None}] /\ told \in Codes \cup {"none"}
  BY Running DEF Works
<1>2. /\ n \in 1 .. Len(C) /\ Cut(C, C', n) /\ C[n].L = L
      /\ AllOf(C, n, L)
      /\ \A hs : Below(C, hs, Len(C)) = hs[n]
  <2>1. /\ Len(C) - 1 \in 1 .. Len(C) /\ Cut(C, Front(C), Len(C) - 1)
        /\ C[Len(C) - 1].L = L /\ AllOf(C, Len(C) - 1, L)
        /\ \A hs : Below(C, hs, Len(C)) = hs[Len(C) - 1]
    BY <1>1, BelowTop
  <2>2. QED
    BY <1>0, <2>1
<1>3. PICK hs : Fits(C, ci, hs)
  BY Running
<1>4. hs[Len(C)] = Len(frames) /\ Fit(C, frames, hs, Len(C))
  BY <1>3, Running
<1>5. hs[n] = Len(frames) - 1 /\ hs[n] \in Nat
  <2>0. Below(C, hs, Len(C)) = hs[n] /\ hs[n] \in Nat
    BY <1>2, <1>4 DEF Fit
  <2>1. CASE Top.op = "body"
    BY <1>1, <1>4, <2>0, <2>1 DEF Fit, FitBody
  <2>2. CASE Top.op = "execute" /\ frame.fresh
    <3>1. FitExecute(C, frames, hs, Len(C)) /\ hs[n] \in Nat /\ Below(C, hs, Len(C)) = hs[n]
      BY <1>1, <1>4, <2>0, <2>2 DEF Fit
    <3>2. Len(frames) > hs[n]
      BY <1>4, <3>1 DEF FitExecute
    <3>3. Len(frames) \in hs[n] + 1 .. Len(frames)
      BY <1>1, <3>1, <3>2
    <3>4. frames[Len(frames)].fresh <=> Len(frames) = hs[n] + 1
      BY <1>4, <3>1, <3>3 DEF FitExecute
    <3>5. frames[Len(frames)].fresh
      BY <1>1, <2>2
    <3>6. Len(frames) = hs[n] + 1
      BY <3>4, <3>5
    <3>7. QED
      BY <1>1, <3>1, <3>6
  <2>3. QED
    BY <2>1, <2>2
<1>6. /\ G \in Seq(Frames) /\ Len(G) = hs[n] /\ \A i \in 1 .. hs[n] : G[i] = frames[i]
  BY <1>1, <1>5, FramesFront
<1>7. ci' = [ci EXCEPT ![L] = G]
  BY <1>1
<1> HIDE DEF G
<1>8. /\ Fits(C', [ci EXCEPT ![L] = G], hs) /\ Has(C', L)
      /\ \A t \in Threads \ {L} : Has(C, t) => Has(C', t)
      /\ Recoverables(G)
  <2>1. n \in 1 .. Len(C) /\ Cut(C, C', n) /\ C[n].L = L /\ AllOf(C, n, L)
    BY <1>2
  <2>2. QED
    <3>1. First(frames, hs[n], G)
      BY <1>6 DEF First
    <3>2. QED
      BY <1>3, <2>1, <3>1, CutRun
<1>9. Going'
  BY DEF Going, At, Yielding
<1>10. \E h2 : Fits(C', ci', h2)
  BY <1>7, <1>8
<1>11. QED
  BY <1>1, <1>6, <1>7, <1>8, <1>9, <1>10, RunStep

\* OP_RETURN.
LEMMA ReturnStep ==
  ASSUME IInv, FInv, OP_RETURN
  PROVE  FInv'
<1> DEFINE G == Front(frames)
           n == Len(C)
<1>1. /\ Stacked(C) /\ C # <<>> /\ L \in Threads /\ Top = C[n] /\ Top.L = L
      /\ frames = ci[L] /\ ci \in [Threads -> Seq(Frames)] /\ frames \in Seq(Frames)
      /\ Len(frames) \in Nat /\ Recoverables(frames) /\ Has(C, L)
      /\ ctl.at = "run" /\ Top.op = "execute"
      /\ Len(frames) > 0 /\ frame = frames[Len(frames)]
      /\ errfunc \in [Threads -> Handlers \cup {None}]
  BY Running DEF OP_RETURN, In, Works
<1>2. UNCHANGED <<status, errfunc>> /\ ci' = [ci EXCEPT ![L] = Front(@)]
  BY DEF OP_RETURN
<1>3. CASE frame.fresh
  <2>1. C' = Front(C) /\ ctl' = At("return", L) /\ UNCHANGED told
    BY <1>3 DEF OP_RETURN
  <2>2. QED
    BY <1>1, <1>2, <1>3, <2>1, PopWork
<1>4. CASE ~ frame.fresh
  <2>1. UNCHANGED <<C, ctl>> /\ told' = "none"
    BY <1>4 DEF OP_RETURN
  <2>2. PICK hs : Fits(C, ci, hs)
    BY <1>1, Running
  <2>3. hs[n] = Len(frames) /\ Fit(C, frames, hs, n)
    BY <1>1, <2>2, Running
  <2>4. FitExecute(C, frames, hs, n) /\ Below(C, hs, n) \in Nat
    BY <1>1, <2>3 DEF Fit
  <2>5. /\ G \in Seq(Frames) /\ Len(G) = Len(frames) - 1 /\ Len(G) \in Nat
        /\ \A i \in 1 .. Len(frames) - 1 : G[i] = frames[i]
    <3>1. /\ G \in Seq(Frames) /\ Len(G) = Len(frames) - 1
          /\ \A i \in 1 .. Len(frames) - 1 : G[i] = frames[i]
      BY <1>1, FramesFront
    <3>2. QED
      BY <1>1, <3>1
  <2>6. ci' = [ci EXCEPT ![L] = G]
    BY <1>1, <1>2
  <2> HIDE DEF G
  <2>7. Below(C, hs, n) < Len(G)
    <3>1. Len(frames) > Below(C, hs, n)
      BY <2>3, <2>4 DEF FitExecute
    <3>2. Len(frames) \in Below(C, hs, n) + 1 .. Len(frames)
      BY <1>1, <2>4, <3>1
    <3>3. frames[Len(frames)].fresh <=> Len(frames) = Below(C, hs, n) + 1
      BY <2>3, <2>4, <3>2 DEF FitExecute
    <3>4. Len(frames) # Below(C, hs, n) + 1
      BY <1>1, <1>4, <3>3
    <3>5. QED
      BY <1>1, <2>4, <2>5, <3>1, <3>4
  <2>8. Relisted(C, hs, ci[L], G)
    <3>1. hs[n] - 1 <= Len(G) /\ \A i \in hs[n] .. Len(G) : FALSE
      BY <1>1, <2>3, <2>5
    <3>2. \A i \in 1 .. hs[n] - 1 : G[i] = ci[L][i]
      BY <1>1, <2>3, <2>5
    <3>3. QED
      BY <2>5, <2>7, <3>1, <3>2 DEF Relisted
  <2>9. \E h2 : Fits(C, [ci EXCEPT ![L] = G], h2)
    BY <1>1, <2>2, <2>8, ExecuteFits
  <2>10. Recoverables(G)
    <3>1. Len(G) \in 1 .. Len(frames) - 1 \/ Len(G) = 0
      BY <1>1, <2>5
    <3>2. \A i \in 1 .. Len(G) : i \in 1 .. Len(frames) - 1 /\ i \in 1 .. Len(frames)
      BY <1>1, <2>5
    <3>3. ASSUME NEW i \in 1 .. Len(G), G[i].ypcall PROVE Interrupted(G, i - 1)
      <4>1. frames[i].ypcall /\ i \in 1 .. Len(frames)
        BY <2>5, <3>2, <3>3
      <4>2. Interrupted(frames, i - 1)
        BY <1>1, <4>1 DEF Recoverables
      <4>3. \A m \in 1 .. i - 1 : m \in 1 .. Len(frames) - 1
        BY <3>2
      <4>4. QED
        BY <2>5, <4>2, <4>3 DEF Interrupted
    <3>4. QED
      BY <3>3 DEF Recoverables
  <2>11. Going'
    BY <1>1, <2>1 DEF Going, Top, Yielding, Works
  <2>12. (\E h2 : Fits(C', ci', h2)) /\ Has(C', L) /\ \A t \in Threads \ {L} : Has(C, t) => Has(C', t)
    BY <1>1, <2>1, <2>6, <2>9
  <2>13. QED
    BY <1>1, <1>2, <2>1, <2>5, <2>6, <2>10, <2>11, <2>12, RunStep
<1>5. QED
  BY <1>3, <1>4

\* Something happens to one thread.
LEMMA ThreadStep ==
  ASSUME IInv, FInv, NEW u \in Threads, \A t \in Threads \ {u} : status'[t] = status[t],
         NEW G \in Seq(Frames), ci' = [ci EXCEPT ![u] = G], Recoverables(G),
         errfunc' \in [Threads -> Handlers \cup {None}], told' \in Codes \cup {"none"},
         \E hs : Fits(C', ci', hs),
         \A t \in Threads \ {u} : Has(C, t) => Has(C', t),
         Has(C', u) \/ (status'[u] = "ok" /\ G = <<>>), Going'
  PROVE  FInv'
<1>1. ci \in [Threads -> Seq(Frames)]
  BY DEF FInv, Functions
<1>2. ci'[u] = G /\ \A t \in Threads \ {u} : ci'[t] = ci[t]
  BY <1>1
<1>3. Functions'
  BY <1>1 DEF Functions
<1>4. \A t \in Threads : Recoverables(ci'[t])
  BY <1>2 DEF FInv
<1>5. Waiting'
  <2>1. ASSUME NEW t \in Threads \ {u}, ~ Has(C', t)
        PROVE  ~ Has(C, t) /\ ci'[t] = ci[t] /\ status'[t] = status[t]
    BY <1>2, <2>1
  <2>2. ASSUME ~ Has(C', u) PROVE status'[u] = "ok" /\ ci'[u] = <<>>
    BY <1>2, <2>2
  <2>3. QED
    BY <2>1, <2>2 DEF FInv, Waiting
<1>6. QED
  BY <1>3, <1>4, <1>5 DEF FInv

\* A function returns to luaD_call.
LEMMA ToCallStep ==
  ASSUME IInv, FInv, toCall
  PROVE  FInv'
<1>0. PICK n : n = Len(C) - 1
  OBVIOUS
<1>1. /\ C # <<>> /\ L \in Threads /\ Top = C[Len(C)] /\ Top.L = L /\ Len(C) \in Nat \ {0}
      /\ frames = ci[L] /\ frames \in Seq(Frames) /\ Len(frames) \in Nat
      /\ ci \in [Threads -> Seq(Frames)] /\ Recoverables(frames)
      /\ errfunc \in [Threads -> Handlers \cup {None}] /\ told \in Codes \cup {"none"}
      /\ ctl.at = "return" /\ Top.op = "call" /\ C' = Front(C)
  BY Running DEF toCall, Back
<1>2. PICK hs : Fits(C, ci, hs)
  BY <1>1, Running
<1>3. hs[Len(C)] = Len(frames) /\ Fit(C, frames, hs, Len(C))
  BY <1>1, <1>2, Running
<1>4. FitCall(C, frames, hs, Len(C)) /\ Below(C, hs, Len(C)) = Len(frames)
  BY <1>1, <1>3 DEF Fit
<1>5. /\ n \in 1 .. Len(C) /\ Cut(C, C', n) /\ C[n].L = L
      /\ AllOf(C, n, L) /\ hs[n] = Len(frames)
  <2>1. Len(C) > 1
    BY <1>4 DEF FitCall
  <2>2. /\ Len(C) - 1 \in 1 .. Len(C) /\ Cut(C, Front(C), Len(C) - 1)
        /\ C[Len(C) - 1].L = L /\ AllOf(C, Len(C) - 1, L)
        /\ \A x : Below(C, x, Len(C)) = x[Len(C) - 1]
    BY <1>1, <2>1, BelowTop
  <2>3. QED
    BY <1>0, <1>1, <1>4, <2>2
<1>6. First(frames, hs[n], frames)
  BY <1>5 DEF First
<1>7. /\ Fits(C', [ci EXCEPT ![L] = frames], hs)
      /\ Has(C', L) /\ \A t \in Threads \ {L} : Has(C, t) => Has(C', t)
      /\ Stacked(C') /\ C' # <<>> /\ Len(C') = n /\ C'[Len(C')] = C[n]
  BY <1>1, <1>2, <1>5, <1>6, CutRun
<1>8. Fits(C', ci, hs)
  <2>1. [ci EXCEPT ![L] = frames] = ci
    BY <1>1
  <2>2. QED
    BY <1>7, <2>1
<1>9. CASE Top.then = "throw"
  <2>1. /\ ctl' = [at |-> "throw", L |-> L, code |-> "run"] /\ told' = "none"
        /\ UNCHANGED <<status, ci, errfunc>>
    BY <1>9 DEF toCall
  <2>2. Going'
    BY <2>1 DEF Going, Yielding
  <2>3. ci' = [ci EXCEPT ![L] = frames]
    BY <1>1, <2>1
  <2>4. \E h2 : Fits(C', ci', h2)
    BY <1>8, <2>1
  <2>5. QED
    BY <1>1, <1>7, <2>1, <2>2, <2>3, <2>4, RunStep
<1>10. CASE Top.then # "throw"
  <2> DEFINE x == Idle(frame)
             G == [frames EXCEPT ![Len(frames)] = x]
  <2>1. /\ ctl' = At("run", L) /\ ci' = [ci EXCEPT ![L][Len(frames)] = Idle(@)]
        /\ \/ errfunc' = [errfunc EXCEPT ![L] = frame.old_errfunc] /\ told' = "ok"
           \/ UNCHANGED errfunc /\ told' = "none"
        /\ UNCHANGED status
    BY <1>10 DEF toCall
  <2>2. Works(C[n]) /\ Works(C'[Len(C')])
    BY <1>0, <1>1, <1>4, <1>7, <1>10 DEF FitCall
  <2>3. Len(frames) > 0
    <3>1. C'[Len(C')].L = L
      BY <1>5, <1>7
    <3>2. hs[Len(C')] \in Nat \ {0}
      BY <1>7, <1>8, <2>2, <3>1, OwnFrames
    <3>3. QED
      BY <1>5, <1>7, <3>2
  <2>4. frame = frames[Len(frames)] /\ frame \in Frames
    <3>1. Len(frames) \in 1 .. Len(frames)
      BY <1>1, <2>3
    <3>2. QED
      BY <1>1, <3>1, ElementOfSeq DEF frame
  <2>5. /\ x \in Frames /\ x.lua = frame.lua /\ x.fresh = frame.fresh /\ ~ x.ypcall
        /\ frame.old_errfunc \in Handlers \cup {None}
    BY <2>4, FramesAre
  <2>6. ci' = [ci EXCEPT ![L] = G]
    BY <1>1, <2>1, <2>4
  <2> HIDE DEF x
  <2>7. /\ G \in Seq(Frames) /\ Len(G) = Len(frames) /\ G[Len(frames)] = x
        /\ \A i \in 1 .. Len(frames) - 1 : G[i] = frames[i]
    BY <1>1, <2>3, <2>5, FramesTop
  <2> HIDE DEF G
  <2>8. Touched(frames, G)
    <3>1. G[Len(frames)].lua = frames[Len(frames)].lua /\ G[Len(frames)].fresh = frames[Len(frames)].fresh
      BY <2>4, <2>5, <2>7
    <3>2. QED
      BY <2>7, <3>1 DEF Touched
  <2>9. Fits(C', ci', hs)
    <3>1. ci'[L] = G /\ Only(L, ci, ci')
      BY <1>1, <2>6 DEF Only
    <3>2. C'[Len(C')].L = L /\ Touched(ci[L], ci'[L])
      BY <1>1, <1>5, <1>7, <2>8, <3>1
    <3>3. QED
      BY <1>7, <1>8, <2>2, <3>1, <3>2, TouchFits
  <2>10. Recoverables(G)
    <3>1. Len(G) \in Nat /\ Len(G) <= Len(frames) + 1 /\ ~ G[Len(G)].ypcall
      BY <1>1, <2>5, <2>7
    <3>2. \A i \in 1 .. Len(G) - 1 : G[i] = frames[i]
      BY <2>7
    <3>3. QED
      BY <1>1, <3>1, <3>2, RecoverablesKept
  <2>11. Going'
    <3>1. ctl'.at = "run"
      BY <2>1 DEF At
    <3>2. QED
      BY <2>2, <3>1 DEF Going, Top, Yielding
  <2>12. errfunc' \in [Threads -> Handlers \cup {None}] /\ told' \in Codes \cup {"none"}
    BY <1>1, <2>1, <2>5 DEF Codes
  <2>13. \E h2 : Fits(C', ci', h2)
    BY <2>9
  <2>14. QED
    BY <1>1, <1>7, <2>1, <2>6, <2>7, <2>10, <2>11, <2>12, <2>13, RunStep
<1>11. QED
  BY <1>9, <1>10

\* A protected call is left.
LEMMA LeaveFits ==
  ASSUME IInv, FInv, ctl.at # "end", NEW j, NEW r, Leave(j, r), UNCHANGED status,
         NEW G \in Seq(Frames), First(frames, r.ci, G), ci' = [ci EXCEPT ![L] = G],
         errfunc' = [errfunc EXCEPT ![L] = r.errfunc], told' \in Codes \cup {"none"},
         \/ GoOn(j - 1)
         \/ \E c \in Codes \ {"ok", "yield"} : ctl' = [at |-> "throw", L |-> L, code |-> c]
  PROVE  FInv'
<1>0. PICK n : n = j - 1
  OBVIOUS
<1>1. /\ IsStack(C) /\ L \in Threads /\ C[Len(C)].L = L /\ Len(C) \in Nat \ {0} /\ Has(C, L)
      /\ frames = ci[L] /\ Recoverables(frames)
      /\ errfunc \in [Threads -> Handlers \cup {None}]
  BY Running
<1>2. PICK hs : Fits(C, ci, hs)
  BY Running
<1>3. /\ j \in 1 .. Len(C) /\ Target(C, j) /\ Cut(C, C', n) /\ r = C[j] /\ r.op = "pcall"
      /\ j = errorJmp[L]
  BY <1>0, Protector DEF Leave
<1>4. /\ C[j].L = L /\ \A i \in j .. Len(C) : C[i].L = L
      /\ j > 1 => C[j - 1].L = L
  <2>1. \A i \in j .. Len(C) : C[i].L = L
    BY <1>1, <1>3 DEF Target
  <2>2. j \in j .. Len(C)
    BY <1>1, <1>3
  <2>3. QED
    BY <1>3, <2>1, <2>2 DEF Target
<1>5. AllOf(C, n, L)
  BY <1>0, <1>1, <1>3, <1>4 DEF AllOf
<1>6. Fit(C, frames, hs, j) /\ r.ci = hs[j] /\ hs[j] = Below(C, hs, j) /\ FitPcall(C, j)
  <2>1. Fit(C, ci[C[j].L], hs, j)
    BY <1>2, <1>3 DEF Fits
  <2>2. Fit(C, frames, hs, j)
    BY <1>1, <1>4, <2>1
  <2>3. QED
    BY <1>3, <2>2 DEF Fit
<1>7. errfunc' \in [Threads -> Handlers \cup {None}]
  BY <1>1, <1>3, <1>6 DEF FitPcall
<1>8. status[L] = "ok" /\ ~ Yielding(L)
  <2>1. nny[L] > 0 /\ nny[L] # 0
    BY <1>1, <1>3, Before, Nny
  <2>2. QED
    BY <1>1, <2>1 DEF IInv, Alive
<1>9. CASE j = 1
  <2>1. r.ci = 0 /\ n = 0
    BY <1>0, <1>6, <1>9 DEF Below
  <2>2. Len(G) = 0 /\ G = <<>>
    <3>1. Len(G) = 0
      BY <2>1 DEF First
    <3>2. QED
      BY <3>1, EmptySeq
  <2>3. ~ Has(C', L)
    BY <1>3, <2>1 DEF Has, Cut
  <2>4. Recoverables(G)
    BY <2>2 DEF Recoverables
  <2>5. Going'
    <3>1. CASE GoOn(j - 1)
      BY <1>9, <3>1 DEF GoOn, At, Going, Yielding
    <3>2. CASE ~ GoOn(j - 1)
      BY <3>2 DEF Going, Yielding
    <3>3. QED
      BY <3>1, <3>2
  <2>6. status'[L] = "ok"
    BY <1>8
  <2>7. QED
    BY <1>3, <1>5, <1>7, <2>2, <2>3, <2>4, <2>5, <2>6, GoneStep
<1>10. CASE j # 1
  <2>1. n \in 1 .. Len(C) /\ C[n].L = L /\ hs[n] = r.ci
    <3>1. n \in 1 .. Len(C) /\ C[n].L = L
      BY <1>0, <1>1, <1>3, <1>4, <1>10
    <3>2. hs[n] = r.ci
      BY <1>0, <1>3, <1>6, <1>10 DEF Below
    <3>3. QED
      BY <3>1, <3>2
  <2>2. First(frames, hs[n], G)
    BY <2>1
  <2>3. /\ Fits(C', [ci EXCEPT ![L] = G], hs)
        /\ Has(C', L) /\ \A t \in Threads \ {L} : Has(C, t) => Has(C', t)
        /\ Len(C') = n /\ C'[Len(C')] = C[n]
        /\ Recoverables(G)
    BY <1>2, <1>3, <1>5, <2>1, <2>2, CutRun
  <2>4. C[n].op \in {"call", "pcall", "resume", "execute", "body"}
    BY <1>1, <2>1, RecordIs DEF IsStack
  <2>5. Going'
    <3>1. CASE GoOn(j - 1)
      <4>1. ctl'.at = IF Works(C[n]) THEN "run" ELSE "call"
        BY <1>0, <1>3, <1>10, <3>1 DEF GoOn, At, Works
      <4>2. QED
        BY <2>3, <2>4, <4>1 DEF Going, Top, Yielding, Works
    <3>2. CASE ~ GoOn(j - 1)
      BY <3>2 DEF Going, Yielding
    <3>3. QED
      BY <3>1, <3>2
  <2>6. \E h2 : Fits(C', ci', h2)
    BY <2>3
  <2>7. QED
    BY <1>7, <2>3, <2>5, <2>6, RunStep
<1>11. QED
  BY <1>9, <1>10

\* A function returns to luaD_pcall.
LEMMA ToPcallStep ==
  ASSUME IInv, FInv, toPcall
  PROVE  FInv'
<1>1. /\ ctl.at = "return" /\ Top.op = "pcall" /\ Top = C[Len(C)] /\ C # <<>> /\ IsStack(C)
      /\ Len(C) \in Nat \ {0} /\ frames \in Seq(Frames)
  BY Running DEF toPcall, Back
<1>2. errorJmp[L] = Len(C) /\ C[errorJmp[L]].op = "pcall" /\ nny[L] - 1 = Top.nny
  <2>1. errorJmp[L] = Len(C) /\ C[errorJmp[L]].op = "pcall"
    BY <1>1, Protector DEF Protects
  <2>2. C[errorJmp[L]].nny = nny[L] - 1
    BY <1>1, <2>1, Nny
  <2>3. QED
    BY <1>1, <2>1, <2>2
<1>3. Leave(errorJmp[L], Top)
  <2>1. C' = SubSeq(C, 1, Len(C) - 1)
    BY <1>1, FrontIs DEF toPcall
  <2>2. QED
    BY <1>1, <1>2, <2>1 DEF Leave, toPcall, unprotect
<1>4. First(frames, Top.ci, frames)
  <2>1. PICK hs : Fits(C, ci, hs)
    BY <1>1, Running
  <2>2. hs[Len(C)] = Len(frames) /\ Fit(C, frames, hs, Len(C))
    BY <1>1, <2>1, Running
  <2>3. Top.ci = Len(frames)
    BY <1>1, <2>2 DEF Fit
  <2>4. QED
    BY <2>3 DEF First
<1>5. ci' = [ci EXCEPT ![L] = frames] /\ frames \in Seq(Frames)
  BY <1>1, SameList DEF toPcall
<1>6. /\ UNCHANGED status /\ errfunc' = [errfunc EXCEPT ![L] = Top.errfunc]
      /\ told' \in Codes \cup {"none"} /\ GoOn(errorJmp[L] - 1)
  BY <1>2 DEF toPcall, unprotect, Codes
<1>7. QED
  BY <1>1, <1>3, <1>4, <1>5, <1>6, LeaveFits

\* An error is caught by luaD_pcall.
LEMMA CatchPcallStep ==
  ASSUME IInv, FInv, catchPcall
  PROVE  FInv'
<1> DEFINE j == errorJmp[L]
           r == C[j]
           G == SubSeq(frames, 1, r.ci)
<1>1. /\ ctl.at = "throw" /\ r.op = "pcall" /\ UNCHANGED status /\ L = ctl.L
      /\ ci' = [ci EXCEPT ![L] = SubSeq(@, 1, r.ci)]
      /\ errfunc' = [errfunc EXCEPT ![L] = r.errfunc]
  BY DEF catchPcall, Caught, unprotect, L
<1>2. /\ L \in Threads /\ frames = ci[L] /\ frames \in Seq(Frames) /\ Len(frames) \in Nat
      /\ ci \in [Threads -> Seq(Frames)] /\ Len(C) \in Nat \ {0} /\ Stacked(C)
      /\ Len(C) \in 1 .. Len(C) /\ C[Len(C)].L = L
  BY <1>1, Running
<1>3. ~ Yielding(L) /\ ctl.code # "yield" /\ ctl.code \in Codes \ {"ok", "yield"}
  <2>1. nny[L] > 0 /\ nny[L] # 0
    BY <1>1, <1>2, Before, Nny
  <2>2. ~ Yielding(L)
    BY <1>2, <2>1 DEF IInv, Alive
  <2>3. ctl.code # "ok" /\ ctl.code \in Codes
    BY <1>1, Running DEF FInv, Going
  <2>4. QED
    BY <1>1, <2>2, <2>3 DEF Yielding
<1>4. Leave(j, r)
  BY <1>1 DEF catchPcall, old_nny, unprotect, Leave
<1>5. r.ci \in 0 .. Len(frames)
  <2>1. PICK hs : Fits(C, ci, hs)
    BY <1>1, Running
  <2>2. j \in 1 .. Len(C) /\ C[j].L = L
    <3>1. j \in 1 .. Len(C) /\ \A i \in j .. Len(C) : C[i].L = L
      BY <1>1, <1>2, Protector DEF Target
    <3>2. j \in j .. Len(C)
      BY <1>2, <3>1
    <3>3. QED
      BY <3>1, <3>2
  <2>3. Fit(C, frames, hs, j)
    BY <1>2, <2>1, <2>2 DEF Fits
  <2>4. r.ci = hs[j] /\ hs[j] \in Nat
    BY <1>1, <2>3 DEF Fit
  <2>5. hs[Len(C)] = Len(frames)
    BY <1>1, <2>1, Running
  <2>6. hs[j] <= hs[Len(C)]
    <3>1. CASE j = Len(C)
      BY <1>2, <2>5, <3>1
    <3>2. CASE j # Len(C)
      <4>1. j < Len(C)
        BY <1>2, <2>2, <3>2
      <4>2. QED
        BY <1>2, <2>1, <2>2, <4>1 DEF Fits, Growing
    <3>3. QED
      BY <3>1, <3>2
  <2>7. QED
    BY <1>2, <2>4, <2>5, <2>6
<1>6. G \in Seq(Frames) /\ First(frames, r.ci, G)
  BY <1>2, <1>5, FramesCut DEF First
<1>7. ci' = [ci EXCEPT ![L] = G]
  BY <1>1, <1>2
<1>8. told' \in Codes \cup {"none"}
  BY <1>3 DEF catchPcall
<1>9. \/ GoOn(j - 1)
      \/ \E c \in Codes \ {"ok", "yield"} : ctl' = [at |-> "throw", L |-> L, code |-> c]
  <2>1. CASE ~ r.gc
    BY <2>1 DEF catchPcall
  <2>2. CASE r.gc
    <3>1. ctl' = [ctl EXCEPT !.code = IF @ = "run" THEN "gcmm" ELSE @]
      BY <2>2 DEF catchPcall
    <3>2. ctl \in [at : Points, L : Threads, code : Codes]
      BY DEF IInv, Types
    <3>3. CASE ctl.code = "run"
      <4>1. ctl' = [at |-> "throw", L |-> L, code |-> "gcmm"]
        BY <1>1, <3>1, <3>2, <3>3
      <4>2. QED
        BY <4>1 DEF Codes, Errors
    <3>4. CASE ctl.code # "run"
      <4>1. ctl' = [at |-> "throw", L |-> L, code |-> ctl.code]
        BY <1>1, <3>1, <3>2, <3>4
      <4>2. QED
        BY <1>3, <4>1
    <3>5. QED
      BY <3>3, <3>4
  <2>3. QED
    BY <2>1, <2>2
<1> HIDE DEF G, r, j
<1>10. QED
  BY <1>1, <1>4, <1>6, <1>7, <1>8, <1>9, LeaveFits

\* A resume returns.
LEMMA ResumedGone ==
  ASSUME IInv, FInv, ctl.at # "end", NEW j, j = errorJmp[L], C[j].op = "resume",
         NEW st \in Codes, resumed(j, st), UNCHANGED <<ci, errfunc>>,
         \A t \in Threads \ {L} : status'[t] = status[t],
         status'[L] = "ok" => frames = <<>>,
         status'[L] = "yield" => /\ Len(frames) > 0 /\ ~ frames[Len(frames)].lua
                                 /\ Interrupted(frames, Len(frames) - 1)
  PROVE  FInv'
<1>0. PICK n : n = j - 1
  OBVIOUS
<1>1. /\ L \in Threads /\ Len(C) \in Nat \ {0} /\ C[Len(C)].L = L /\ IsStack(C)
      /\ errfunc \in [Threads -> Handlers \cup {None}]
  BY Running
<1>2. /\ C' = SubSeq(C, 1, j - 1) /\ GoOn(j - 1) /\ told' = st
  BY DEF resumed
<1>3. /\ j \in 1 .. Len(C) /\ Cut(C, C', n) /\ j > 1 /\ C[j].L = L
      /\ \A i \in j .. Len(C) : C[i].L = L
      /\ \A i \in 1 .. j - 1 : C[i].L # L
      /\ C[j - 1].op = "body"
  <2>1. Target(C, j) /\ j \in 1 .. Len(C) /\ Cut(C, C', n)
    BY <1>0, <1>2, Protector
  <2>2. \A i \in j .. Len(C) : C[i].L = L
    BY <1>1, <2>1 DEF Target
  <2>3. C[j].L = L
    <3>1. j \in j .. Len(C)
      BY <1>1, <2>1
    <3>2. QED
      BY <2>2, <3>1
  <2>4. QED
    BY <2>1, <2>2, <2>3 DEF Target
<1>4. AllOf(C, n, L)
  BY <1>0, <1>1, <1>3 DEF AllOf
<1>5. Len(C') = n /\ n \in Nat \ {0} /\ \A i \in 1 .. n : C'[i] = C[i]
  BY <1>0, <1>1, <1>3 DEF Cut
<1>6. ~ Has(C', L)
  BY <1>0, <1>3, <1>5 DEF Has
<1>7. Going'
  <2>1. ctl'.at = "run"
    BY <1>0, <1>2, <1>3, <1>5 DEF GoOn, At
  <2>2. n \in 1 .. n
    BY <1>5
  <2>3. C'[Len(C')].op = "body"
    BY <1>0, <1>3, <1>5, <2>2
  <2>4. QED
    BY <2>1, <2>3 DEF Going, Top, Yielding, Works
<1>8. frames \in Seq(Frames) /\ ci' = [ci EXCEPT ![L] = frames] /\ Recoverables(frames)
  BY SameList
<1>9. errfunc' \in [Threads -> Handlers \cup {None}] /\ told' \in Codes \cup {"none"}
  BY <1>1, <1>2
<1>10. QED
  BY <1>3, <1>4, <1>6, <1>7, <1>8, <1>9, GoneStep

\* A list but for its last function, with another one.
LEMMA NewTop ==
  ASSUME NEW F \in Seq(Frames), Len(F) > 0, NEW x \in Frames
  PROVE  Append(Front(F), x) = [F EXCEPT ![Len(F)] = x]
<1> DEFINE A == Front(F)
           B == [F EXCEPT ![Len(F)] = x]
           G == Append(A, x)
<1>1. /\ A \in Seq(Frames) /\ Len(A) = Len(F) - 1 /\ \A i \in 1 .. Len(F) - 1 : A[i] = F[i]
  BY FramesFront
<1>2. /\ B \in Seq(Frames) /\ Len(B) = Len(F) /\ B[Len(F)] = x
      /\ Len(F) \in Nat \ {0} /\ \A i \in 1 .. Len(F) - 1 : B[i] = F[i]
  BY FramesTop
<1> HIDE DEF A, B
<1>3. /\ G \in Seq(Frames) /\ Len(G) = Len(A) + 1 /\ G[Len(A) + 1] = x
      /\ \A i \in 1 .. Len(A) : G[i] = A[i]
  BY <1>1, FramesAppend
<1> HIDE DEF G
<1>4. Len(G) = Len(B)
  BY <1>1, <1>2, <1>3
<1>5. ASSUME NEW i \in 1 .. Len(G) PROVE G[i] = B[i]
  <2>1. CASE i = Len(F)
    BY <1>1, <1>2, <1>3, <2>1
  <2>2. CASE i # Len(F)
    <3>1. i \in 1 .. Len(F) - 1 /\ i \in 1 .. Len(A)
      BY <1>1, <1>2, <1>3, <2>2
    <3>2. QED
      BY <1>1, <1>2, <1>3, <3>1
  <2>3. QED
    BY <2>1, <2>2
<1>6. G = B
  BY <1>2, <1>3, <1>4, <1>5, SeqEqual
<1>7. QED
  BY <1>6 DEF G, A, B

\* The last function of a thread goes on, on top of its resume.
LEMMA ContinueFits ==
  ASSUME NEW S, Stacked(S), NEW f \in [Threads -> Seq(Frames)], NEW hs, Fits(S, f, hs), S # <<>>,
         NEW u, u = S[Len(S)].L, S[Len(S)].op = "resume",
         NEW F \in Seq(Frames), Len(F) > 0, Interrupted(F, Len(F) - 1),
         NEW x \in Frames, NEW lua \in BOOLEAN, x.lua = lua, lua => x.fresh,
         NEW G, G = [F EXCEPT ![Len(F)] = x]
  PROVE  \E h2 : Fits(Append(S, Working(u, lua)), [f EXCEPT ![u] = G], h2)
<1> DEFINE n == Len(S)
           A == Front(F)
           v == Len(F) - 1
           g == [f EXCEPT ![u] = A]
           h1 == [i \in 1 .. n |-> IF i = n THEN v ELSE hs[i]]
<1>1. IsStack(S) /\ n \in Nat \ {0} /\ n \in 1 .. n /\ u \in Threads
  BY LastHeight
<1>2. A \in Seq(Frames) /\ Len(A) = v /\ v \in Nat /\ \A i \in 1 .. v : A[i] = F[i]
  <2>1. /\ A \in Seq(Frames) /\ Len(A) = v /\ v \in 0 .. Len(F) /\ \A i \in 1 .. v : A[i] = F[i]
    BY FramesFront
  <2>2. QED
    BY <2>1
<1>3. g \in [Threads -> Seq(Frames)] /\ g[u] = A /\ \A t \in Threads \ {u} : g[t] = f[t]
  BY <1>1, <1>2
<1>4. h1[n] = v /\ \A i \in 1 .. n - 1 : h1[i] = hs[i]
  BY <1>1
<1>5. Interrupted(A, v)
  BY <1>2 DEF Interrupted
<1>6. [g EXCEPT ![u] = Append(@, x)] = [f EXCEPT ![u] = G]
  <2>1. Append(A, x) = G
    BY NewTop
  <2> HIDE DEF A
  <2>2. QED
    BY <1>1, <2>1
<1> HIDE DEF A, v, g, h1
<1>7. Fits(S, g, h1)
  <2>1. LastIs(S, hs, h1, v) /\ Only(u, f, g) /\ Len(g[u]) = v
    BY <1>2, <1>3, <1>4 DEF LastIs, Only
  <2>2. \A j \in 1 .. n - 1 : S[j].L # u
    <3>1. ASSUME NEW j \in 1 .. n - 1 PROVE S[j].L # u
      <4>1. j \in 1 .. n /\ j < n
        BY <1>1
      <4>2. QED
        BY <1>1, <4>1 DEF Stacked
    <3>2. QED
      BY <3>1
  <2>3. OthersKept(S, hs, u, f[u], g[u])
    BY <2>2 DEF OthersKept
  <2>4. Fit(S, g[u], h1, n)
    <3>1. Below(S, h1, n) = 0
      BY DEF Below
    <3>2. QED
      BY <1>2, <1>3, <1>4, <1>5, <3>1 DEF Fit
  <2>5. QED
    BY <1>2, <2>1, <2>3, <2>4, TopFits
<1>8. \E h2 : Fits(Append(S, Working(u, lua)), [g EXCEPT ![u] = Append(@, x)], h2)
  BY <1>3, <1>7, WorkFits
<1>9. QED
  BY <1>6, <1>8

\* Up to the resume of the running thread, C stack S fits the functions f.
Resumable(S, f) ==
  /\ Stacked(S) /\ S # <<>> /\ S[Len(S)].op = "resume" /\ S[Len(S)].L = L
  /\ f \in [Threads -> Seq(Frames)] /\ (\E hs : Fits(S, f, hs)) /\ Only(L, ci, f)
  /\ \A t \in Threads \ {L} : Has(C, t) => Has(S, t)

\* lua_resume goes on with the last of the functions F.
LEMMA ContinueStep ==
  ASSUME IInv, FInv, ctl.at # "end", UNCHANGED status, NEW S, NEW f, Resumable(S, f),
         NEW F \in Seq(Frames), Len(F) > 0, Interrupted(F, Len(F) - 1), Recoverables(F),
         NEW h \in Handlers \cup {None}, continue(F, S, h), told' \in Codes \cup {"none"}
  PROVE  FInv'
<1> DEFINE y == F[Len(F)]
           x == [Idle(y) EXCEPT !.fresh = y.lua]
           lua == y.lua
           G == [F EXCEPT ![Len(F)] = x]
<1>1. /\ C' = Append(S, Working(L, lua)) /\ ci' = [ci EXCEPT ![L] = G]
      /\ errfunc' = [errfunc EXCEPT ![L] = IF y.ypcall THEN y.old_errfunc ELSE h]
      /\ ctl' = At("run", L)
  BY DEF continue
<1>2. /\ L \in Threads /\ ci \in [Threads -> Seq(Frames)]
      /\ errfunc \in [Threads -> Handlers \cup {None}]
  BY Running
<1>3. y \in Frames /\ Len(F) \in Nat \ {0}
  BY FramesTop
<1>4. /\ x \in Frames /\ x.lua = lua /\ (lua => x.fresh) /\ ~ x.ypcall /\ lua \in BOOLEAN
      /\ y.old_errfunc \in Handlers \cup {None}
  BY <1>3, FramesAre
<1> HIDE DEF x, lua
<1>5. /\ G \in Seq(Frames) /\ Len(G) = Len(F) /\ G[Len(F)] = x
      /\ \A i \in 1 .. Len(F) - 1 : G[i] = F[i]
  BY <1>4, FramesTop
<1>6. PICK hs : Fits(S, f, hs)
  BY DEF Resumable
<1>7. /\ Stacked(S) /\ S # <<>> /\ S[Len(S)].op = "resume" /\ S[Len(S)].L = L
      /\ f \in [Threads -> Seq(Frames)] /\ \A t \in Threads \ {L} : Has(C, t) => Has(S, t)
  BY DEF Resumable
<1>8. [f EXCEPT ![L] = G] = [ci EXCEPT ![L] = G]
  <2> HIDE DEF G
  <2>1. \A t \in Threads \ {L} : f[t] = ci[t]
    BY DEF Resumable, Only
  <2>2. QED
    BY <1>2, <1>7, <2>1
<1>9. G = [F EXCEPT ![Len(F)] = x]
  OBVIOUS
<1> HIDE DEF G, y
<1>10. \E h2 : Fits(C', ci', h2)
  <2>1. \E h2 : Fits(Append(S, Working(L, lua)), [f EXCEPT ![L] = G], h2)
    BY <1>4, <1>6, <1>7, <1>9, ContinueFits
  <2>2. QED
    BY <1>1, <1>8, <2>1
<1>11. Recoverables(G)
  <2>1. Len(G) \in Nat /\ Len(G) <= Len(F) + 1 /\ ~ G[Len(G)].ypcall
    BY <1>3, <1>4, <1>5
  <2>2. \A i \in 1 .. Len(G) - 1 : G[i] = F[i]
    BY <1>5
  <2>3. QED
    BY <1>3, <2>1, <2>2, RecoverablesKept
<1>12. errfunc' \in [Threads -> Handlers \cup {None}]
  BY <1>1, <1>2, <1>4
<1> DEFINE r == Working(L, lua)
<1>13. Pushed(S, C', r) /\ IsStack(S) /\ r.L = L /\ Works(r)
  <2>1. r.L = L /\ r.op \in {"execute", "body"}
    BY DEF Working
  <2>2. Record(r)
    BY <1>2, <2>1 DEF Record
  <2> HIDE DEF r
  <2>3. Pushed(S, Append(S, r), r) /\ IsStack(S)
    BY <1>7, <2>2, PushedIs DEF Stacked
  <2>4. QED
    BY <1>1, <2>1, <2>3 DEF r, Works
<1> HIDE DEF r
<1>14. Has(C', L) /\ \A t \in Threads \ {L} : Has(C, t) => Has(C', t)
  BY <1>7, <1>13, HasPushed
<1>15. Going'
  <2>1. ctl'.at = "run" /\ C'[Len(C')] = r
    BY <1>1, <1>13, TopPushed DEF At
  <2>2. QED
    BY <1>13, <2>1 DEF Going, Top, Yielding
<1>16. QED
  BY <1>1, <1>5, <1>10, <1>11, <1>12, <1>14, <1>15, RunStep

\* A function returns to unroll, or to lua_resume.
LEMMA UnrollStep ==
  ASSUME IInv, FInv, unroll
  PROVE  FInv'
<1>1. /\ ctl.at = "return" /\ Top.op = "resume" /\ UNCHANGED status /\ Top = C[Len(C)]
      /\ L \in Threads /\ Stacked(C) /\ C # <<>> /\ Top.L = L /\ Has(C, L)
      /\ frames \in Seq(Frames) /\ frames = ci[L] /\ ci \in [Threads -> Seq(Frames)]
      /\ Recoverables(frames) /\ Len(frames) \in Nat /\ Len(C) \in Nat \ {0}
      /\ errfunc \in [Threads -> Handlers \cup {None}]
  BY Running DEF unroll, Back
<1>2. errorJmp[L] = Len(C)
  BY <1>1, Protector DEF Protects
<1>3. status[L] = "ok"
  BY <1>1 DEF IInv, Alive, Yielding
<1>4. CASE frames = <<>>
  <2>1. resumed(errorJmp[L], "ok") /\ UNCHANGED <<ci, errfunc>>
    BY <1>2, <1>4 DEF unroll
  <2>2. C[errorJmp[L]].op = "resume" /\ "ok" \in Codes
    BY <1>1, <1>2 DEF Codes
  <2>3. /\ \A t \in Threads \ {L} : status'[t] = status[t]
        /\ status'[L] = "ok"
    BY <1>1, <1>3
  <2>4. QED
    BY <1>1, <1>4, <2>1, <2>2, <2>3, ResumedGone
<1>5. CASE frames # <<>>
  <2>1. continue(frames, C, errfunc[L]) /\ told' = IF frame.ypcall THEN "ok" ELSE "none"
    BY <1>5 DEF unroll
  <2>2. PICK hs : Fits(C, ci, hs)
    BY <1>1, Running
  <2>3. hs[Len(C)] = Len(frames) /\ Fit(C, frames, hs, Len(C))
    BY <1>1, <2>2, Running
  <2>4. Len(frames) > 0
    BY <1>1, <1>5, EmptySeq
  <2>5. Interrupted(frames, Len(frames) - 1)
    <3>1. Interrupted(frames, Len(frames))
      BY <1>1, <2>3 DEF Fit
    <3>2. QED
      BY <1>1, <3>1 DEF Interrupted
  <2>6. Resumable(C, ci)
    BY <1>1, <2>2 DEF Resumable, Only
  <2>7. told' \in Codes \cup {"none"} /\ errfunc[L] \in Handlers \cup {None}
    BY <1>1, <2>1 DEF Codes
  <2>8. QED
    BY <1>1, <2>1, <2>4, <2>5, <2>6, <2>7, ContinueStep
<1>6. QED
  BY <1>4, <1>5

\* The function that recovers is the innermost one that can.
LEMMA Recovering ==
  ASSUME frames \in Seq(Frames), Recoverable # {}
  PROVE  findpcall \in 1 .. Len(frames) /\ frames[findpcall].ypcall
<1>1. Len(frames) \in Nat /\ DOMAIN frames = 1 .. Len(frames)
  BY LenProperties
<1>2. \E m \in Recoverable : \A i \in Recoverable : i <= m
  <2>1. Recoverable \in SUBSET (1 .. Len(frames))
    BY <1>1 DEF Recoverable
  <2>2. QED
    BY <1>1, <2>1, MaxExists
<1>3. findpcall \in Recoverable
  BY <1>2 DEF findpcall
<1>4. QED
  BY <1>1, <1>3 DEF Recoverable

\* A long jump to lua_resume.
LEMMA CatchResumeStep ==
  ASSUME IInv, FInv, catchResume
  PROVE  FInv'
<1>0. PICK j : j = errorJmp[L]
  OBVIOUS
<1>1. /\ ctl.at = "throw" /\ C[j].op = "resume" /\ UNCHANGED ready
  BY <1>0 DEF catchResume, Caught
<1>2. /\ L \in Threads /\ Stacked(C) /\ C # <<>> /\ Top.L = L /\ Has(C, L) /\ Top = C[Len(C)]
      /\ frames \in Seq(Frames) /\ frames = ci[L] /\ ci \in [Threads -> Seq(Frames)]
      /\ Recoverables(frames) /\ Len(frames) \in Nat /\ Len(C) \in Nat \ {0}
      /\ errfunc \in [Threads -> Handlers \cup {None}] /\ ctl.code \in Codes
  BY <1>1, Running
<1>3. PICK hs : Fits(C, ci, hs)
  BY <1>1, Running
<1>4. ctl.code # "ok" /\ (ctl.code = "yield" => Top.op = "body" /\ status[L] = "yield" /\ nny[L] = 0)
  BY <1>1, <1>2 DEF FInv, Going, Yielding, IInv, Alive
<1>5. CASE ctl.code # "yield" /\ Recoverable # {}
  <2> DEFINE F == SubSeq(frames, 1, findpcall)
             T == SubSeq(C, 1, j)
             H == SubSeq(frames, 1, hs[j])
  <2>1. /\ continue(F, T, None) /\ told' = ctl.code /\ UNCHANGED status
    BY <1>0, <1>5 DEF catchResume
  <2>2. findpcall \in 1 .. Len(frames) /\ frames[findpcall].ypcall
    BY <1>2, <1>5, Recovering
  <2>3. F \in Seq(Frames) /\ Len(F) = findpcall /\ \A i \in 1 .. findpcall : F[i] = frames[i]
    BY <1>2, <2>2, FramesCut
  <2> HIDE DEF F
  <2>4. Len(F) > 0 /\ Interrupted(F, Len(F) - 1)
    <3>1. Interrupted(frames, findpcall - 1)
      BY <1>2, <2>2 DEF Recoverables
    <3>2. QED
      BY <1>2, <2>2, <2>3, <3>1 DEF Interrupted
  <2>5. Recoverables(F)
    <3>1. ASSUME NEW i \in 1 .. Len(F), F[i].ypcall PROVE Interrupted(F, i - 1)
      <4>1. i \in 1 .. Len(frames) /\ frames[i].ypcall
        BY <1>2, <2>2, <2>3, <3>1
      <4>2. Interrupted(frames, i - 1)
        BY <1>2, <4>1 DEF Recoverables
      <4>3. QED
        BY <2>2, <2>3, <4>2 DEF Interrupted
    <3>2. QED
      BY <3>1 DEF Recoverables
  <2>6. /\ j \in 1 .. Len(C) /\ Cut(C, T, j) /\ C[j].L = L /\ AllOf(C, j, L)
    <3>1. Target(C, j) /\ j \in 1 .. Len(C) /\ Cut(C, T, j)
      BY <1>0, <1>1, Protector
    <3>2. \A i \in j .. Len(C) : C[i].L = L
      BY <1>2, <3>1 DEF Target
    <3>3. j \in j .. Len(C) /\ \A i \in j + 1 .. Len(C) : i \in j .. Len(C)
      BY <1>2, <3>1
    <3>4. QED
      BY <3>1, <3>2, <3>3 DEF AllOf
  <2> HIDE DEF T
  <2>7. hs[j] \in 0 .. Len(frames)
    <3>1. hs[Len(C)] = Len(frames) /\ hs[j] \in Nat
      BY <1>1, <1>3, <2>6, Running DEF Fits, Fit
    <3>2. CASE j = Len(C)
      BY <1>2, <3>1, <3>2
    <3>3. CASE j # Len(C)
      <4>1. j < Len(C) /\ Len(C) \in 1 .. Len(C) /\ C[j].L = C[Len(C)].L
        BY <1>2, <2>6, <3>3
      <4>2. hs[j] <= hs[Len(C)]
        BY <1>3, <2>6, <4>1 DEF Fits, Growing
      <4>3. QED
        BY <1>2, <3>1, <4>2
    <3>4. QED
      BY <3>2, <3>3
  <2>8. H \in Seq(Frames) /\ First(frames, hs[j], H)
    BY <1>2, <2>7, FramesCut DEF First
  <2> HIDE DEF H
  <2> DEFINE f == [ci EXCEPT ![L] = H]
  <2>9. /\ Fits(T, f, hs) /\ Has(T, L) /\ \A t \in Threads \ {L} : Has(C, t) => Has(T, t)
        /\ Stacked(T) /\ T # <<>> /\ Len(T) = j /\ T[Len(T)] = C[j]
    BY <1>1, <1>3, <2>6, <2>8, CutRun
  <2>10. f \in [Threads -> Seq(Frames)] /\ \A t \in Threads \ {L} : f[t] = ci[t]
    BY <1>2, <2>8
  <2> HIDE DEF f
  <2>11. Resumable(T, f)
    BY <1>1, <2>6, <2>9, <2>10 DEF Resumable, Only
  <2>12. told' \in Codes \cup {"none"} /\ None \in Handlers \cup {None}
    BY <1>2, <2>1
  <2>13. QED
    BY <1>1, <2>1, <2>3, <2>4, <2>5, <2>11, <2>12, ContinueStep
<1>6. CASE ~ (ctl.code # "yield" /\ Recoverable # {})
  <2> DEFINE st == IF ctl.code = "yield" THEN "ok" ELSE ctl.code
  <2>1. /\ resumed(j, st) /\ UNCHANGED <<ci, errfunc>>
        /\ status' = IF ctl.code = "yield" THEN status ELSE [status EXCEPT ![L] = ctl.code]
    BY <1>0, <1>6 DEF catchResume, ended
  <2>2. st \in Codes
    BY <1>2 DEF Codes
  <2>3. status \in [Threads -> Codes]
    BY DEF IInv, Types
  <2>4. /\ \A t \in Threads \ {L} : status'[t] = status[t]
        /\ status'[L] = ctl.code
    BY <1>2, <1>4, <2>1, <2>3
  <2>5. ASSUME ctl.code = "yield"
        PROVE  /\ Len(frames) > 0 /\ ~ frames[Len(frames)].lua
               /\ Interrupted(frames, Len(frames) - 1)
    <3>1. Interrupted(frames, Len(frames) - 1)
      BY <1>2, <1>4, <2>5, CanGoOn
    <3>2. Works(Top)
      BY <1>4, <2>5 DEF Works
    <3>3. Len(frames) > 0
      BY <1>1, <3>2, Running
    <3>4. hs[Len(C)] = Len(frames) /\ Fit(C, frames, hs, Len(C))
      BY <1>1, <1>3, Running
    <3>5. ~ frames[Len(frames)].lua
      BY <1>2, <1>4, <2>5, <3>4 DEF Fit, FitBody
    <3>6. QED
      BY <3>1, <3>3, <3>5
  <2> HIDE DEF st
  <2>6. QED
    BY <1>0, <1>1, <1>4, <2>1, <2>2, <2>4, <2>5, ResumedGone
<1>7. QED
  BY <1>5, <1>6

\* lua_resume, up to where it runs a function.
LEMMA Resuming1 ==
  ASSUME IInv, FInv, NEW t \in Threads, lua_resume(t), NEW S, S = Append(C, Resumption(t))
  PROVE  /\ Stacked(S) /\ S # <<>> /\ S[Len(S)].op = "resume" /\ S[Len(S)].L = t
         /\ ~ Has(C, t) /\ t # L /\ Has(S, t) /\ \A u \in Threads : Has(C, u) => Has(S, u)
         /\ \A g : Only(t, ci, g) /\ Len(g[t]) \in Nat /\ Interrupted(g[t], Len(g[t]))
                   => \E hs : Fits(S, g, hs)
<1> DEFINE r == Resumption(t)
<1>1. /\ ctl.at = "run" /\ Top.op = "body" /\ nCcalls[L] + 1 < MaxCCalls
      /\ ready[t] \/ status[t] = "yield"
  BY DEF lua_resume, In
<1>2. /\ C # <<>> /\ IsStack(C) /\ Stacked(C) /\ L \in Threads /\ Top = C[Len(C)] /\ Has(C, L)
      /\ nny \in [Threads -> Nat] /\ nCcalls \in [Threads -> Nat] /\ Len(C) \in Nat \ {0}
  BY <1>1, Before DEF Good
<1>3. ~ Has(C, t) /\ t # L
  BY <1>1, <1>2 DEF IInv, Alive, Yielding
<1>4. /\ r.op = "resume" /\ r.L = t /\ r.nny = nny[t] /\ r.nCcalls = nCcalls[L] + 1
  BY DEF Resumption
<1>5. S = Append(C, r)
  OBVIOUS
<1> HIDE DEF r
<1>6. Record(r)
  <2>1. nCcalls[L] \in Nat /\ nny[t] \in Nat
    BY <1>2
  <2>2. nCcalls[L] + 1 \in 1 .. MaxCCalls - 1
    BY <1>1, <2>1, LimitIs
  <2>3. QED
    BY <1>4, <2>1, <2>2 DEF Record
<1>7. Pushed(C, S, r)
  BY <1>2, <1>5, <1>6, PushedIs
<1>8. Stacked(S)
  BY <1>1, <1>2, <1>3, <1>4, <1>6, <1>7, PushStacked
<1>9. S # <<>> /\ S[Len(S)] = r
  BY <1>2, <1>7, TopPushed
<1>10. Has(S, t) /\ \A u \in Threads : Has(C, u) => Has(S, u)
  BY <1>2, <1>4, <1>7, HasPushed
<1>11. PICK hs : Fits(C, ci, hs)
  BY DEF FInv
<1>12. ASSUME NEW g, Only(t, ci, g), Len(g[t]) \in Nat, Interrupted(g[t], Len(g[t]))
       PROVE  \E h2 : Fits(S, g, h2)
  <2>1. ~ Has(C, r.L) /\ Only(r.L, ci, g) /\ Len(g[r.L]) \in Nat /\ Interrupted(g[r.L], Len(g[r.L]))
    BY <1>3, <1>4, <1>12
  <2>2. QED
    BY <1>2, <1>4, <1>5, <1>6, <1>11, <2>1, ResumeFits
<1>13. QED
  BY <1>3, <1>4, <1>8, <1>9, <1>10, <1>12

\* A function of thread u runs on top of C stack S.
LEMMA WorkOn ==
  ASSUME NEW S, Stacked(S), S # <<>>, NEW u \in Threads, S[Len(S)].L = u, NEW lua \in BOOLEAN,
         NEW T, T = Append(S, Working(u, lua))
  PROVE  /\ T[Len(T)].L = u /\ Works(T[Len(T)])
         /\ \A t \in Threads : Has(S, t) => Has(T, t)
<1> DEFINE r == Working(u, lua)
<1>1. r.L = u /\ r.op \in {"execute", "body"} /\ T = Append(S, r)
  BY DEF Working
<1> HIDE DEF r
<1>2. Record(r) /\ Works(r)
  BY <1>1 DEF Record, Works
<1>3. IsStack(S) /\ Pushed(S, T, r)
  BY <1>1, <1>2, PushedIs DEF Stacked
<1>4. QED
  BY <1>1, <1>2, <1>3, TopPushed, HasPushed

\* lua_resume of a thread that has not started.
LEMMA StartStep ==
  ASSUME IInv, FInv, NEW t \in Threads, lua_resume(t), ready[t],
         C' = Append(C, Resumption(t)), ctl' = At("call", t), UNCHANGED <<status, ci>>
  PROVE  FInv'
<1>1. /\ C' # <<>> /\ C'[Len(C')].op = "resume"
      /\ ~ Has(C, t) /\ Has(C', t) /\ \A u \in Threads : Has(C, u) => Has(C', u)
      /\ \A g : Only(t, ci, g) /\ Len(g[t]) \in Nat /\ Interrupted(g[t], Len(g[t]))
                => \E hs : Fits(C', g, hs)
  BY Resuming1
<1>2. /\ ci \in [Threads -> Seq(Frames)] /\ errfunc \in [Threads -> Handlers \cup {None}]
      /\ told' = "none" /\ UNCHANGED errfunc
  BY DEF FInv, Functions, lua_resume
<1>3. ci[t] = <<>>
  BY <1>1 DEF IInv, Alive, FInv, Waiting
<1>4. \E hs : Fits(C', ci', hs)
  BY <1>1, <1>3 DEF Only, Interrupted
<1>5. Recoverables(ci[t]) /\ ci[t] \in Seq(Frames) /\ ci' = [ci EXCEPT ![t] = ci[t]]
  BY <1>2 DEF FInv
<1>6. Going'
  BY <1>1 DEF Going, Top, Yielding, At
<1>7. errfunc' \in [Threads -> Handlers \cup {None}] /\ told' \in Codes \cup {"none"}
  BY <1>2
<1>8. QED
  BY <1>1, <1>4, <1>5, <1>6, <1>7, ThreadStep

\* lua_resume of a thread that has yielded, from a function with a continuation or not.
LEMMA WakeStep ==
  ASSUME IInv, FInv, NEW t \in Threads, lua_resume(t), status[t] = "yield",
         NEW S, S = Append(C, Resumption(t)), status' = [status EXCEPT ![t] = "ok"],
         NEW top, top = Len(ci[t]),
         \/ /\ ctl' = At("run", t) /\ C' = Append(S, Working(t, FALSE))
            /\ ci' = [ci EXCEPT ![t][top] = Idle(@)]
         \/ ctl' = At("return", t) /\ C' = S /\ ci' = [ci EXCEPT ![t] = Front(@)]
  PROVE  FInv'
<1> DEFINE F == ci[t]
           A == Front(F)
           y == F[top]
           x == Idle(y)
           G == [F EXCEPT ![top] = x]
<1>1. /\ Stacked(S) /\ S # <<>> /\ S[Len(S)].op = "resume" /\ S[Len(S)].L = t
      /\ ~ Has(C, t) /\ Has(S, t) /\ \A u \in Threads : Has(C, u) => Has(S, u)
      /\ \A g : Only(t, ci, g) /\ Len(g[t]) \in Nat /\ Interrupted(g[t], Len(g[t]))
                => \E hs : Fits(S, g, hs)
  BY Resuming1
<1>2. /\ ci \in [Threads -> Seq(Frames)] /\ errfunc \in [Threads -> Handlers \cup {None}]
      /\ told' = "none" /\ UNCHANGED errfunc /\ F \in Seq(Frames) /\ Recoverables(F)
  BY DEF FInv, Functions, lua_resume
<1>3. Len(F) > 0 /\ ~ y.lua /\ Interrupted(F, Len(F) - 1)
  BY <1>1 DEF FInv, Waiting
<1>4. /\ A \in Seq(Frames) /\ Len(A) = Len(F) - 1 /\ \A i \in 1 .. Len(F) - 1 : A[i] = F[i]
  BY <1>2, <1>3, FramesFront
<1>5. y \in Frames /\ Len(F) \in Nat \ {0}
  BY <1>2, <1>3, FramesTop
<1>6. x \in Frames /\ x.lua = FALSE /\ ~ x.ypcall
  BY <1>3, <1>5, FramesAre DEF Frames
<1>7. ci' = [ci EXCEPT ![t][top] = Idle(@)] => ci' = [ci EXCEPT ![t] = G]
  BY <1>2
<1>8. ci' = [ci EXCEPT ![t] = Front(@)] => ci' = [ci EXCEPT ![t] = A]
  BY <1>2
<1> HIDE DEF x
<1>9. /\ G \in Seq(Frames) /\ Len(G) = Len(F) /\ G[Len(F)] = x
      /\ \A i \in 1 .. Len(F) - 1 : G[i] = F[i]
  BY <1>2, <1>3, <1>6, FramesTop
<1>10. G = [F EXCEPT ![Len(F)] = x]
  OBVIOUS
<1> DEFINE g == [ci EXCEPT ![t] = A]
<1> HIDE DEF A, G
<1>11. g \in [Threads -> Seq(Frames)] /\ g[t] = A /\ Only(t, ci, g)
       /\ [g EXCEPT ![t] = G] = [ci EXCEPT ![t] = G]
  BY <1>2, <1>4, <1>9 DEF Only
<1> HIDE DEF g
<1>12. PICK hs : Fits(S, g, hs)
  <2>1. Len(g[t]) \in Nat /\ Interrupted(g[t], Len(g[t]))
    BY <1>3, <1>4, <1>5, <1>11 DEF Interrupted
  <2>2. QED
    BY <1>1, <1>11, <2>1
<1>13. \A u \in Threads \ {t} : status'[u] = status[u]
  BY DEF IInv, Types
<1>14. errfunc' \in [Threads -> Handlers \cup {None}] /\ told' \in Codes \cup {"none"}
  BY <1>2
<1>15. CASE /\ ctl' = At("run", t) /\ C' = Append(S, Working(t, FALSE))
            /\ ci' = [ci EXCEPT ![t][top] = Idle(@)]
  <2>1. ci' = [ci EXCEPT ![t] = G]
    BY <1>7, <1>15
  <2>2. PICK lua \in BOOLEAN : lua = FALSE
    OBVIOUS
  <2>3. C' = Append(S, Working(t, lua)) /\ x.lua = lua /\ ~ lua
    BY <1>6, <1>15, <2>2
  <2>4. \E h2 : Fits(C', ci', h2)
    <3>1. \E h2 : Fits(Append(S, Working(t, lua)), [g EXCEPT ![t] = G], h2)
      <4> HIDE DEF F
      <4>1. F \in Seq(Frames) /\ Len(F) > 0 /\ Interrupted(F, Len(F) - 1) /\ G = [F EXCEPT ![Len(F)] = x]
        BY <1>2, <1>3, <1>10 DEF F
      <4>2. Stacked(S) /\ S # <<>> /\ S[Len(S)].op = "resume" /\ t = S[Len(S)].L
        BY <1>1
      <4>3. x \in Frames /\ x.lua = lua /\ (lua => x.fresh)
        BY <1>6, <2>3
      <4>4. QED
        BY <1>11, <1>12, <4>1, <4>2, <4>3, ContinueFits
    <3>2. QED
      BY <1>11, <2>1, <2>3, <3>1
  <2>5. Recoverables(G)
    <3>1. Len(G) \in Nat /\ Len(G) <= Len(F) + 1 /\ ~ G[Len(G)].ypcall
      BY <1>5, <1>6, <1>9
    <3>2. \A i \in 1 .. Len(G) - 1 : G[i] = F[i]
      BY <1>9
    <3>3. QED
      BY <1>2, <1>5, <3>1, <3>2, RecoverablesKept
  <2>6. Works(C'[Len(C')]) /\ \A u \in Threads : Has(S, u) => Has(C', u)
    BY <1>1, <2>3, WorkOn
  <2>7. Going'
    BY <1>15, <2>6 DEF Going, Top, Yielding, At
  <2>8. \A u \in Threads \ {t} : Has(C, u) => Has(C', u)
    BY <1>1, <2>6
  <2>9. QED
    BY <1>1, <1>9, <1>13, <1>14, <2>1, <2>4, <2>5, <2>6, <2>7, <2>8, ThreadStep
<1>16. CASE ctl' = At("return", t) /\ C' = S /\ ci' = [ci EXCEPT ![t] = Front(@)]
  <2>1. ci' = [ci EXCEPT ![t] = A] /\ C' = S
    BY <1>8, <1>16
  <2>2. \E h2 : Fits(C', ci', h2)
    BY <1>12, <2>1 DEF g
  <2>3. Recoverables(A)
    <3>1. ASSUME NEW i \in 1 .. Len(A), A[i].ypcall PROVE Interrupted(A, i - 1)
      <4>1. i \in 1 .. Len(F) /\ F[i].ypcall
        BY <1>4, <1>5, <3>1
      <4>2. Interrupted(F, i - 1)
        BY <1>2, <4>1 DEF Recoverables
      <4>3. \A m \in 1 .. i - 1 : A[m] = F[m]
        BY <1>4, <1>5, <3>1
      <4>4. QED
        BY <4>2, <4>3 DEF Interrupted
    <3>2. QED
      BY <3>1 DEF Recoverables
  <2>4. Going'
    BY <1>16 DEF Going, Yielding, At
  <2>5. Has(C', t) /\ \A u \in Threads \ {t} : Has(C, u) => Has(C', u)
    BY <1>1, <2>1
  <2>6. QED
    BY <1>4, <1>13, <1>14, <2>1, <2>2, <2>3, <2>4, <2>5, ThreadStep
<1>17. QED
  BY <1>15, <1>16

\* lua_resume.
LEMMA ResumeKeeps ==
  ASSUME IInv, FInv, NEW t \in Threads, lua_resume(t)
  PROVE  FInv'
<1> DEFINE S == Append(C, Resumption(t))
<1>1. S = Append(C, [op |-> "resume", L |-> t, nny |-> nny[t],
                     nCcalls |-> nCcalls[L] + 1, previous |-> errorJmp[t]])
  BY DEF Resumption
<1> HIDE DEF S
<1>2. CASE ready[t] /\ C' = S /\ ctl' = At("call", t) /\ UNCHANGED <<status, ci>>
  BY <1>2, StartStep DEF S
<1>3. CASE /\ status[t] = "yield" /\ status' = [status EXCEPT ![t] = "ok"]
           /\ \/ /\ ctl' = At("run", t) /\ C' = Append(S, Working(t, FALSE))
                 /\ ci' = [ci EXCEPT ![t][Len(ci[t])] = Idle(@)]
              \/ ctl' = At("return", t) /\ C' = S /\ ci' = [ci EXCEPT ![t] = Front(@)]
  BY <1>3, WakeStep DEF S
<1>4. QED
  BY <1>1, <1>2, <1>3 DEF lua_resume

\* luaB_cocreate.
LEMMA CreateStep ==
  ASSUME IInv, FInv, NEW t \in Threads, luaB_cocreate(t)
  PROVE  FInv'
<1>1. /\ ctl.at = "run" /\ t \notin Chained /\ UNCHANGED <<C, ctl>> /\ told' = "none"
      /\ ci' = [ci EXCEPT ![t] = <<>>] /\ errfunc' = [errfunc EXCEPT ![t] = None]
      /\ status' = [status EXCEPT ![t] = "ok"]
  BY DEF luaB_cocreate, In
<1>2. /\ Stacked(C) /\ IsStack(C) /\ Len(C) \in Nat \ {0} /\ ci \in [Threads -> Seq(Frames)]
      /\ errfunc \in [Threads -> Handlers \cup {None}] /\ Has(C, L) /\ Top = C[Len(C)]
  BY <1>1, Running
<1>3. ~ Has(C, t) /\ t # L
  BY <1>1, <1>2, ChainedIs
<1>4. PICK hs : Fits(C, ci, hs)
  BY DEF FInv
<1>5. Cut(C, C, Len(C)) /\ AllOf(C, Len(C), t)
  BY <1>2 DEF Cut, AllOf
<1>6. Fits(C', ci', hs)
  <2>1. Only(t, ci, ci')
    BY <1>1, <1>2 DEF Only
  <2>2. QED
    BY <1>1, <1>2, <1>3, <1>4, <1>5, <2>1, CutFits
<1>7. Going'
  BY <1>1 DEF FInv, Going, Top, Yielding
<1>8. <<>> \in Seq(Frames) /\ Recoverables(<<>>)
  BY DEF Recoverables
<1>9. status \in [Threads -> Codes]
  BY DEF IInv, Types
<1>10. /\ \A u \in Threads \ {t} : status'[u] = status[u]
       /\ status'[t] = "ok"
  BY <1>1, <1>9
<1>11. errfunc' \in [Threads -> Handlers \cup {None}] /\ told' \in Codes \cup {"none"}
  BY <1>1, <1>2
<1>12. \E h2 : Fits(C', ci', h2)
  BY <1>6
<1>13. QED
  BY <1>1, <1>7, <1>8, <1>10, <1>11, <1>12, ThreadStep

\* Nothing changes that matters here.
LEMMA Idles ==
  ASSUME FInv, UNCHANGED <<status, ci, errfunc, C>>, told' \in Codes \cup {"none"}, Going'
  PROVE  FInv'
<1>1. Functions' /\ Waiting'
  BY DEF FInv, Functions, Waiting
<1>2. QED
  BY <1>1 DEF FInv

\* An error is thrown.
LEMMA ThrowStep ==
  ASSUME FInv, NEW code \in Errors, luaD_throw(code), UNCHANGED <<status, ci, errfunc>>,
         told' = "none"
  PROVE  FInv'
<1>1. Going'
  BY DEF luaD_throw, Going, Yielding, Errors
<1>2. UNCHANGED C
  BY DEF luaD_throw
<1>3. QED
  BY <1>1, <1>2, Idles

\* luaD_call.
LEMMA CallKeeps ==
  ASSUME IInv, FInv, ctl.at \in {"run", "call"}, UNCHANGED status,
         NEW noyield \in BOOLEAN, NEW then \in {"proceed", "unprotect", "throw"},
         luaD_call(noyield, then),
         NEW G \in Seq(Frames), ci' = [ci EXCEPT ![L] = G], Recoverables(G),
         G = frames \/ (ctl.at = "run" /\ Touched(frames, G)),
         errfunc' \in [Threads -> Handlers \cup {None}], told' \in Codes \cup {"none"},
         then = "throw" => noyield, then # "throw" => ctl.at = "run",
         ~ noyield /\ Top.op = "body" => G[Len(frames)].k
  PROVE  FInv'
<1> DEFINE r == [op |-> "call", L |-> L, ci |-> Len(frames), noyield |-> noyield, then |-> then]
<1>1. /\ r.op = "call" /\ r.L = L /\ r.ci = Len(frames) /\ r.noyield = noyield /\ r.then = then
  OBVIOUS
<1>2. C' = Append(C, r) /\ ctl' = At("call", L)
  BY DEF luaD_call
<1> HIDE DEF r
<1>3. L \in Threads
  BY Running
<1>4. Record(r)
  BY <1>1, <1>3 DEF Record
<1>5. QED
  BY <1>1, <1>2, <1>4, CallRun

\* luaG_errormsg.
LEMMA ErrorKeeps ==
  ASSUME IInv, FInv, ctl.at \in {"run", "call"}, luaG_errormsg, UNCHANGED <<status, ci, errfunc>>,
         told' = "none"
  PROVE  FInv'
<1>1. /\ frames \in Seq(Frames) /\ ci' = [ci EXCEPT ![L] = frames] /\ Recoverables(frames)
      /\ errfunc' \in [Threads -> Handlers \cup {None}] /\ told' \in Codes \cup {"none"}
  BY SameList, Running
<1>2. CASE luaD_call(TRUE, "throw")
  <2>1. PICK noyield \in BOOLEAN : noyield = TRUE
    OBVIOUS
  <2>2. PICK then \in {"proceed", "unprotect", "throw"} : then = "throw"
    OBVIOUS
  <2>3. luaD_call(noyield, then)
    BY <1>2, <2>1, <2>2
  <2>4. noyield /\ then = "throw"
    BY <2>1, <2>2
  <2>5. QED
    BY <1>1, <2>3, <2>4, CallKeeps
<1>3. CASE luaD_throw("run")
  BY <1>3, ThrowStep DEF Errors
<1>4. QED
  BY <1>2, <1>3 DEF luaG_errormsg

\* luaD_pcall.
LEMMA PcallKeeps ==
  ASSUME IInv, FInv, ctl.at \in {"run", "call"}, nCcalls[L] < Limit,
         NEW h \in Handlers \cup {None}, NEW gc \in BOOLEAN,
         IF gc THEN ~ Finalizes(Top) ELSE ctl.at = "run",
         luaD_pcall(h, gc), UNCHANGED <<status, ci>>, told' = "none"
  PROVE  FInv'
<1> DEFINE r == [op |-> "pcall", L |-> L, ci |-> Len(frames), nny |-> nny[L],
                 errfunc |-> errfunc[L], nCcalls |-> nCcalls[L],
                 previous |-> errorJmp[L], gc |-> gc, running |-> gc /\ gcrunning]
<1>1. /\ r.op = "pcall" /\ r.L = L /\ r.ci = Len(frames) /\ r.gc = gc /\ r.nny = nny[L]
      /\ r.errfunc = errfunc[L] /\ r.nCcalls = nCcalls[L] /\ r.running \in BOOLEAN
  OBVIOUS
<1>2. C' = Append(C, r) /\ ctl' = At("call", L) /\ errfunc' = [errfunc EXCEPT ![L] = h]
  BY DEF luaD_pcall
<1> HIDE DEF r
<1>3. /\ L \in Threads /\ errfunc \in [Threads -> Handlers \cup {None}]
      /\ frames \in Seq(Frames) /\ ci' = [ci EXCEPT ![L] = frames] /\ Recoverables(frames)
  BY SameList, Running
<1>4. Record(r)
  <2>1. nny[L] \in Nat /\ nCcalls[L] \in 0 .. Limit
    BY <1>3 DEF IInv, Types
  <2>2. nCcalls[L] \in 0 .. Limit - 1
    BY <2>1, LimitIs
  <2>3. QED
    BY <1>1, <1>3, <2>1, <2>2 DEF Record
<1>5. /\ errfunc' \in [Threads -> Handlers \cup {None}] /\ told' \in Codes \cup {"none"}
      /\ errfunc[L] \in Handlers \cup {None}
  BY <1>2, <1>3
<1>6. QED
  BY <1>1, <1>2, <1>3, <1>4, <1>5, CallRun

\* The recoverable functions after one changes its own CallInfo.
LEMMA RecoverablesTop ==
  ASSUME NEW F \in Seq(Frames), NEW G, Touched(F, G), Len(F) > 0, Recoverables(F),
         G[Len(F)].ypcall => F[Len(F)].ypcall \/ Interrupted(F, Len(F) - 1)
  PROVE  Recoverables(G)
<1>1. Len(F) \in Nat /\ Len(F) \in 1 .. Len(F)
  BY LenProperties
<1>2. G[Len(F)].ypcall => Interrupted(F, Len(F) - 1)
  BY <1>1 DEF Recoverables
<1>3. /\ Len(G) = Len(F) /\ Len(G) \in Nat /\ Len(G) <= Len(F) + 1
      /\ \A i \in 1 .. Len(G) - 1 : G[i] = F[i]
  BY <1>1 DEF Touched
<1>4. QED
  BY <1>1, <1>2, <1>3, RecoverablesKept

\* The running function changes its own CallInfo.
LEMMA TouchTop ==
  ASSUME IInv, FInv, ctl.at = "run", NEW x \in Frames, NEW G, G = [frames EXCEPT ![Len(frames)] = x],
         x.lua = frame.lua, x.fresh = frame.fresh,
         x.ypcall => frame.ypcall \/ Interrupted(frames, Len(frames) - 1)
  PROVE  /\ G \in Seq(Frames) /\ Touched(frames, G) /\ G[Len(frames)] = x /\ Recoverables(G)
         /\ Works(Top) /\ Len(frames) > 0 /\ frame = frames[Len(frames)]
<1>1. /\ frames \in Seq(Frames) /\ Len(frames) \in Nat /\ Recoverables(frames)
      /\ Len(frames) > 0 /\ frame = frames[Len(frames)] /\ Works(Top)
  BY Running DEF FInv, Going
<1>2. /\ G \in Seq(Frames) /\ Len(G) = Len(frames) /\ G[Len(frames)] = x
      /\ \A i \in 1 .. Len(frames) - 1 : G[i] = frames[i]
  BY <1>1, FramesTop
<1>3. Touched(frames, G)
  <2>1. G[Len(frames)].lua = frames[Len(frames)].lua /\ G[Len(frames)].fresh = frames[Len(frames)].fresh
    BY <1>1, <1>2
  <2>2. QED
    BY <1>2, <2>1 DEF Touched
<1>4. Recoverables(G)
  <2>1. G[Len(frames)].ypcall => frames[Len(frames)].ypcall \/ Interrupted(frames, Len(frames) - 1)
    BY <1>1, <1>2
  <2>2. QED
    BY <1>1, <1>3, <2>1, RecoverablesTop
<1>5. QED
  BY <1>1, <1>2, <1>3, <1>4

\* lua_callk.
LEMMA CallkStep ==
  ASSUME IInv, FInv, NEW k \in BOOLEAN, lua_callk(k)
  PROVE  FInv'
<1>1. /\ ctl.at = "run" /\ luaD_call(~ Continues(k), "proceed") /\ UNCHANGED <<status, errfunc>>
      /\ told' = "none"
      /\ ci' = IF Continues(k) THEN [ci EXCEPT ![L][Len(frames)].k = k] ELSE ci
  BY DEF lua_callk, In
<1>2. /\ frames = ci[L] /\ ci \in [Threads -> Seq(Frames)] /\ L \in Threads /\ Works(Top)
      /\ errfunc' \in [Threads -> Handlers \cup {None}] /\ told' \in Codes \cup {"none"}
      /\ frame = frames[Len(frames)] /\ frame \in Frames
  BY <1>1, Running DEF FInv, Going
<1>3. PICK then \in {"proceed", "unprotect", "throw"} : then = "proceed"
  OBVIOUS
<1>4. PICK noyield \in BOOLEAN : noyield <=> ~ Continues(k)
  OBVIOUS
<1>5. luaD_call(noyield, then)
  <2>1. noyield = ~ Continues(k)
    BY <1>4 DEF Continues
  <2>2. QED
    BY <1>1, <1>3, <2>1
<1>6. CASE Continues(k)
  <2> DEFINE x == [frame EXCEPT !.k = k]
             G == [frames EXCEPT ![Len(frames)] = x]
  <2>1. /\ x \in Frames /\ x.lua = frame.lua /\ x.fresh = frame.fresh /\ x.ypcall = frame.ypcall
        /\ x.k = k
    BY <1>2 DEF Frames
  <2>2. ci' = [ci EXCEPT ![L] = G]
    BY <1>1, <1>2, <1>6
  <2> HIDE DEF x
  <2>3. G \in Seq(Frames) /\ Touched(frames, G) /\ G[Len(frames)] = x /\ Recoverables(G)
    BY <1>1, <2>1, TouchTop
  <2>4. k /\ ~ noyield
    BY <1>4, <1>6 DEF Continues
  <2> HIDE DEF G
  <2>5. G[Len(frames)].k
    BY <2>1, <2>3, <2>4
  <2>6. QED
    BY <1>1, <1>2, <1>3, <1>5, <2>2, <2>3, <2>5, CallKeeps
<1>7. CASE ~ Continues(k)
  <2>1. UNCHANGED ci /\ noyield
    BY <1>1, <1>4, <1>7
  <2>2. frames \in Seq(Frames) /\ ci' = [ci EXCEPT ![L] = frames] /\ Recoverables(frames)
    BY <1>1, <2>1, SameList
  <2>3. QED
    BY <1>1, <1>2, <1>3, <1>5, <2>1, <2>2, CallKeeps
<1>8. QED
  BY <1>6, <1>7

\* lua_pcallk.
LEMMA PcallkStep ==
  ASSUME IInv, FInv, NEW h \in Handlers \cup {None}, NEW k \in BOOLEAN, lua_pcallk(h, k)
  PROVE  FInv'
<1>1. /\ ctl.at = "run" /\ UNCHANGED status /\ told' = "none"
  BY DEF lua_pcallk, In
<1>2. /\ frames = ci[L] /\ ci \in [Threads -> Seq(Frames)] /\ L \in Threads /\ Works(Top)
      /\ errfunc \in [Threads -> Handlers \cup {None}] /\ Has(C, L) /\ Len(frames) > 0
      /\ frame = frames[Len(frames)] /\ frame \in Frames
  BY <1>1, Running DEF FInv, Going
<1>3. CASE ~ Continues(k)
  <2>1. luaD_pcall(h, FALSE) /\ UNCHANGED ci
    BY <1>3 DEF lua_pcallk
  <2>2. PICK gc \in BOOLEAN : gc = FALSE
    OBVIOUS
  <2>3. luaD_pcall(h, gc) /\ ~ gc /\ nCcalls[L] < Limit
    BY <1>1, <2>1, <2>2 DEF IInv, Control
  <2>4. QED
    BY <1>1, <2>1, <2>3, PcallKeeps
<1>4. CASE Continues(k)
  <2> DEFINE x == [frame EXCEPT !.k = TRUE, !.ypcall = TRUE, !.old_errfunc = errfunc[L]]
             G == [frames EXCEPT ![Len(frames)] = x]
  <2>1. /\ ci' = [ci EXCEPT ![L][Len(frames)] =
                      [@ EXCEPT !.k = TRUE, !.ypcall = TRUE, !.old_errfunc = errfunc[L]]]
        /\ errfunc' = [errfunc EXCEPT ![L] = h]
        /\ luaD_call(FALSE, "unprotect")
    BY <1>4 DEF lua_pcallk
  <2>2. /\ x \in Frames /\ x.lua = frame.lua /\ x.fresh = frame.fresh /\ x.k
    BY <1>2 DEF Frames
  <2>3. ci' = [ci EXCEPT ![L] = G]
    BY <1>2, <2>1
  <2> HIDE DEF x
  <2>4. Interrupted(frames, Len(frames) - 1)
    BY <1>2, <1>4, CanGoOn DEF Continues
  <2>5. G \in Seq(Frames) /\ Touched(frames, G) /\ G[Len(frames)] = x /\ Recoverables(G)
    BY <1>1, <2>2, <2>4, TouchTop
  <2> HIDE DEF G
  <2>6. G[Len(frames)].k
    BY <2>2, <2>5
  <2>7. PICK noyield \in BOOLEAN : noyield = FALSE
    OBVIOUS
  <2>8. PICK then \in {"proceed", "unprotect", "throw"} : then = "unprotect"
    OBVIOUS
  <2>9. luaD_call(noyield, then)
    BY <2>1, <2>7, <2>8
  <2>10. errfunc' \in [Threads -> Handlers \cup {None}] /\ told' \in Codes \cup {"none"}
    BY <1>1, <1>2, <2>1
  <2>11. QED
    BY <1>1, <2>3, <2>5, <2>6, <2>8, <2>9, <2>10, CallKeeps
<1>5. QED
  BY <1>3, <1>4

\* lua_yieldk.
LEMMA YieldkStep ==
  ASSUME IInv, FInv, NEW k \in BOOLEAN, lua_yieldk(k)
  PROVE  FInv'
<1>1. ctl.at = "run" /\ Top.op = "body" /\ UNCHANGED errfunc
  BY DEF lua_yieldk, In
<1>2. CASE nny[L] > 0
  BY <1>1, <1>2, ErrorKeeps DEF lua_yieldk
<1>3. CASE ~ (nny[L] > 0)
  <2> DEFINE x == [frame EXCEPT !.k = k]
             G == [frames EXCEPT ![Len(frames)] = x]
  <2>1. /\ status' = [status EXCEPT ![L] = "yield"] /\ UNCHANGED told
        /\ ci' = [ci EXCEPT ![L][Len(frames)].k = k]
        /\ luaD_throw("yield")
    BY <1>3 DEF lua_yieldk
  <2>2. /\ frames = ci[L] /\ ci \in [Threads -> Seq(Frames)] /\ L \in Threads /\ Works(Top)
        /\ errfunc \in [Threads -> Handlers \cup {None}] /\ Has(C, L) /\ L = ctl.L
        /\ frame = frames[Len(frames)] /\ frame \in Frames /\ told \in Codes \cup {"none"}
    BY <1>1, Running DEF FInv, Going, L
  <2>3. /\ x \in Frames /\ x.lua = frame.lua /\ x.fresh = frame.fresh /\ x.ypcall = frame.ypcall
    BY <2>2 DEF Frames
  <2>4. ci' = [ci EXCEPT ![L] = G]
    BY <2>1, <2>2
  <2> HIDE DEF x
  <2>5. G \in Seq(Frames) /\ Touched(frames, G) /\ Recoverables(G)
    BY <1>1, <2>3, TouchTop
  <2> HIDE DEF G
  <2>6. UNCHANGED C /\ ctl' = [at |-> "throw", L |-> L, code |-> "yield"]
    BY <2>1 DEF luaD_throw
  <2>7. \E hs : Fits(C', ci', hs)
    BY <1>1, <2>2, <2>4, <2>5, <2>6, TouchRun
  <2>8. status \in [Threads -> Codes]
    BY DEF IInv, Types
  <2>9. status'[L] = "yield" /\ \A t \in Threads \ {L} : status'[t] = status[t]
    BY <2>1, <2>2, <2>8
  <2>10. Going'
    BY <1>1, <2>2, <2>6, <2>9 DEF Going, Top, Yielding, L
  <2>11. errfunc' \in [Threads -> Handlers \cup {None}] /\ told' \in Codes \cup {"none"}
    BY <1>1, <2>1, <2>2
  <2>12. Has(C', L) /\ \A t \in Threads \ {L} : Has(C, t) => Has(C', t)
    BY <2>2, <2>6
  <2>13. QED
    BY <2>2, <2>4, <2>5, <2>7, <2>9, <2>10, <2>11, <2>12, ThreadStep
<1>4. QED
  BY <1>2, <1>3

\* The steps of the program.
LEMMA ProgramKeeps ==
  ASSUME IInv, FInv, Collecting, Program
  PROVE  FInv'
<1>1. ASSUME NEW lua \in BOOLEAN, OP_CALL(lua) PROVE FInv'
  <2>1. CASE lua
    <3>1. OP_CALL(TRUE)
      BY <1>1, <2>1 DEF OP_CALL
    <3>2. QED
      BY <3>1, CallLuaStep
  <2>2. CASE ~ lua
    <3>1. /\ ctl.at = "run" /\ Top.op = "execute" /\ UNCHANGED <<status, errfunc, ctl>>
          /\ told' = "none" /\ ci' = [ci EXCEPT ![L] = Append(@, CFrame)]
          /\ C' = Append(C, Working(L, FALSE))
      BY <1>1, <2>2 DEF OP_CALL, In
    <3>2. ctl'.at = "run" /\ ctl'.L = L
      BY <3>1 DEF L
    <3>3. PICK l \in BOOLEAN : l = FALSE
      OBVIOUS
    <3>4. PICK x \in Frames : x = CFrame
      BY NewFrames
    <3>5. x.lua = l /\ ~ l /\ ~ x.ypcall
      BY <3>3, <3>4, NewFrames
    <3>6. C' = Append(C, Working(L, l)) /\ ci' = [ci EXCEPT ![L] = Append(@, x)]
      BY <3>1, <3>3, <3>4
    <3>7. QED
      BY <3>1, <3>2, <3>5, <3>6, WorkRun
  <2>3. QED
    BY <2>1, <2>2
<1>2. ASSUME NEW lua \in BOOLEAN, luaD_precall(lua) PROVE FInv'
  <2>1. /\ ctl.at = "call" /\ ci' = [ci EXCEPT ![L] = Append(@, FrameOf(lua))]
        /\ C' = Append(C, Working(L, lua)) /\ ctl'.at = "run" /\ ctl'.L = L /\ told' = "none"
        /\ UNCHANGED <<status, errfunc>>
    BY <1>2 DEF luaD_precall, At
  <2>2. Top.op \notin {"body", "execute"}
    BY <2>1 DEF FInv, Going
  <2>3. FrameOf(lua) \in Frames /\ FrameOf(lua).lua = lua /\ ~ FrameOf(lua).ypcall
        /\ (lua => FrameOf(lua).fresh)
    BY NewFrames DEF FrameOf
  <2>4. PICK x \in Frames : x = FrameOf(lua)
    BY <2>3
  <2>5. x.lua = lua /\ ~ x.ypcall /\ (lua => x.fresh) /\ ci' = [ci EXCEPT ![L] = Append(@, x)]
    BY <2>1, <2>3, <2>4
  <2>6. QED
    BY <2>1, <2>2, <2>5, WorkRun
<1>3. ASSUME OP_RETURN PROVE FInv'
  BY <1>3, ReturnStep
<1>4. ASSUME return PROVE FInv'
  <2>1. /\ ctl.at = "run" /\ Top.op = "body" /\ UNCHANGED <<status, errfunc, told>>
        /\ ci' = [ci EXCEPT ![L] = Front(@)] /\ C' = Front(C) /\ ctl' = At("return", L)
    BY <1>4 DEF return, In
  <2>2. QED
    BY <2>1, PopWork
<1>5. ASSUME callTM PROVE FInv'
  <2>1. /\ ctl.at = "run" /\ Top.op = "execute" /\ luaD_call(FALSE, "proceed")
        /\ UNCHANGED <<status, ci, errfunc>> /\ told' = "none"
    BY <1>5 DEF callTM, In
  <2>2. /\ frames \in Seq(Frames) /\ ci' = [ci EXCEPT ![L] = frames] /\ Recoverables(frames)
        /\ errfunc' \in [Threads -> Handlers \cup {None}] /\ told' \in Codes \cup {"none"}
    BY <2>1, SameList, Running
  <2>3. PICK noyield \in BOOLEAN : noyield = FALSE
    OBVIOUS
  <2>4. PICK then \in {"proceed", "unprotect", "throw"} : then = "proceed"
    OBVIOUS
  <2>5. luaD_call(noyield, then)
    BY <2>1, <2>3, <2>4
  <2>6. QED
    BY <2>1, <2>2, <2>4, <2>5, CallKeeps
<1>6. ASSUME GCTM PROVE FInv'
  <2>1. /\ ctl.at \in {"run", "call"} /\ luaD_pcall(None, TRUE) /\ UNCHANGED <<status, ci>>
        /\ told' = "none" /\ nCcalls[L] < Limit /\ ~ Finalizes(Top)
    BY <1>6 DEF GCTM, CollectsHere, Allowed, Limit, IInv, Control, FInv, Going, Works,
                Collecting, Finalizes
  <2>2. PICK h \in Handlers \cup {None} : h = None
    OBVIOUS
  <2>3. PICK gc \in BOOLEAN : gc = TRUE
    OBVIOUS
  <2>4. luaD_pcall(h, gc) /\ gc
    BY <2>1, <2>2, <2>3
  <2>5. QED
    BY <2>1, <2>4, PcallKeeps
<1>7. ASSUME error PROVE FInv'
  <2>1. ctl.at \in {"run", "call"} /\ UNCHANGED <<status, ci, errfunc>> /\ told' = "none"
    BY <1>7 DEF error
  <2>2. CASE luaG_errormsg
    BY <2>1, <2>2, ErrorKeeps
  <2>3. CASE luaD_throw("mem") \/ luaD_throw("err")
    BY <2>1, <2>3, ThrowStep DEF Errors
  <2>4. QED
    BY <1>7, <2>2, <2>3 DEF error
<1>8. ASSUME NEW k \in BOOLEAN, lua_callk(k) PROVE FInv'
  BY <1>8, CallkStep
<1>9. ASSUME NEW k \in BOOLEAN, lua_yieldk(k) PROVE FInv'
  BY <1>9, YieldkStep
<1>10. ASSUME NEW k \in BOOLEAN, NEW h \in Handlers \cup {None}, lua_pcallk(h, k) PROVE FInv'
  BY <1>10, PcallkStep
<1>11. ASSUME NEW t \in Threads, luaB_cocreate(t) PROVE FInv'
  BY <1>11, CreateStep
<1>12. ASSUME NEW t \in Threads, lua_resume(t) PROVE FInv'
  BY <1>12, ResumeKeeps
<1>13. ASSUME NEW t \in Threads, resume_error(t) PROVE FInv'
  <2>1. /\ UNCHANGED <<status, ci, errfunc, C, ctl>> /\ told' = "run"
    BY <1>13 DEF resume_error
  <2>2. Going'
    BY <2>1 DEF FInv, Going, Top, Yielding, L
  <2>3. told' \in Codes \cup {"none"}
    BY <2>1 DEF Codes, Errors
  <2>4. QED
    BY <2>1, <2>2, <2>3, Idles
<1>14. ASSUME NEW k \in BOOLEAN, lua_gc(k) PROVE FInv'
  <2>1. UNCHANGED <<status, ci, errfunc, C, ctl, told>>
    BY <1>14 DEF lua_gc, thread
  <2>2. Going' /\ told' \in Codes \cup {"none"}
    BY <2>1 DEF FInv, Functions, Going, Top, Yielding, L
  <2>3. QED
    BY <2>1, <2>2, Idles
<1>15. QED
  BY <1>1, <1>2, <1>3, <1>4, <1>5, <1>6, <1>7, <1>8, <1>9, <1>10, <1>11, <1>12, <1>13, <1>14
     DEF Program

\* The steps of the interpreter.
LEMMA InterpreterKeeps ==
  ASSUME IInv, FInv, Interpreter
  PROVE  FInv'
<1>1. ASSUME stackerror PROVE FInv'
  <2>1. ctl.at = "call" /\ UNCHANGED <<status, ci, errfunc>> /\ told' = "none"
    BY <1>1 DEF stackerror
  <2>2. CASE luaG_errormsg
    BY <2>1, <2>2, ErrorKeeps
  <2>3. CASE luaD_throw("err")
    BY <2>1, <2>3, ThrowStep DEF Errors
  <2>4. QED
    BY <1>1, <2>2, <2>3 DEF stackerror
<1>2. ASSUME toLua PROVE FInv'
  <2>1. /\ UNCHANGED <<status, ci, errfunc, C>> /\ told' = "none" /\ ctl' = At("run", L)
        /\ Top.op = "execute"
    BY <1>2 DEF toLua, Back, thread
  <2>2. Going'
    BY <2>1 DEF Going, Top, Yielding, Works, At
  <2>3. QED
    BY <2>1, <2>2, Idles
<1>3. QED
  BY <1>1, <1>2, ToCallStep, ToPcallStep, UnrollStep, CatchPcallStep, CatchResumeStep DEF Interpreter

\* All steps.
LEMMA StepKeeps ==
  ASSUME IInv, FInv, Collecting, [Next]_vars
  PROVE  FInv'
<1>1. CASE Program
  BY <1>1, ProgramKeeps
<1>2. CASE Interpreter
  BY <1>2, InterpreterKeeps
<1>3. CASE Done \/ UNCHANGED vars
  <2>1. UNCHANGED <<status, ci, errfunc, C, ctl, told>>
    BY <1>3 DEF Done, vars, thread
  <2>2. Going'
    BY <2>1 DEF FInv, Going, Top, Yielding, L
  <2>3. told' \in Codes \cup {"none"}
    BY <2>1 DEF FInv, Functions
  <2>4. QED
    BY <2>1, <2>2, <2>3, Idles
<1>4. QED
  BY <1>1, <1>2, <1>3 DEF Next

\* What is pushed is on top of the C stack.
LEMMA TopIs ==
  ASSUME IInv, ctl.at # "end", NEW r, Record(r), C' = Append(C, r)
  PROVE  Top' = r
<1>1. IsStack(C)
  BY Before
<1>2. Pushed(C, C', r)
  BY <1>1, PushedIs
<1>3. QED
  BY <1>1, <1>2, TopPushed DEF Top

\* luaD_call calls no finalizer.
LEMMA CallCollects ==
  ASSUME IInv, Collecting, ctl.at # "end", NEW noyield \in BOOLEAN,
         NEW then \in {"proceed", "unprotect", "throw"}, luaD_call(noyield, then), UNCHANGED gcrunning
  PROVE  Collecting'
<1> DEFINE r == [op |-> "call", L |-> L, ci |-> Len(frames), noyield |-> noyield, then |-> then]
<1>1. C' = Append(C, r)
  BY DEF luaD_call
<1>2. r.op = "call" /\ Record(r)
  BY Before DEF Record
<1> HIDE DEF r
<1>3. Top' = r
  BY <1>1, <1>2, TopIs
<1>4. QED
  BY <1>2, <1>3 DEF Collecting, Finalizes

\* luaG_errormsg.
LEMMA ErrorCollects ==
  ASSUME IInv, Collecting, ctl.at # "end", luaG_errormsg, UNCHANGED gcrunning
  PROVE  Collecting'
<1>1. CASE luaD_call(TRUE, "throw")
  <2>1. PICK noyield \in BOOLEAN, then \in {"proceed", "unprotect", "throw"} :
          noyield = TRUE /\ then = "throw"
    OBVIOUS
  <2>2. luaD_call(noyield, then)
    BY <1>1, <2>1
  <2>3. QED
    BY <2>2, CallCollects
<1>2. CASE luaD_throw("run")
  BY <1>2 DEF luaD_throw, Collecting
<1>3. QED
  BY <1>1, <1>2 DEF luaG_errormsg

\* luaD_pcall of GCTM keeps the collector from running.
LEMMA PcallCollects ==
  ASSUME IInv, Collecting, ctl.at # "end", nCcalls[L] < Limit, NEW h, NEW gc \in BOOLEAN,
         luaD_pcall(h, gc)
  PROVE  Collecting'
<1> DEFINE r == [op |-> "pcall", L |-> L, ci |-> Len(frames), nny |-> nny[L],
                 errfunc |-> errfunc[L], nCcalls |-> nCcalls[L],
                 previous |-> errorJmp[L], gc |-> gc, running |-> gc /\ gcrunning]
<1>1. C' = Append(C, r) /\ gcrunning' = (gcrunning /\ ~ gc)
  BY DEF luaD_pcall
<1>2. /\ r.op = "pcall" /\ r.L = L /\ r.gc = gc /\ r.nny = nny[L] /\ r.nCcalls = nCcalls[L]
      /\ r.running \in BOOLEAN
  OBVIOUS
<1> HIDE DEF r
<1>3. Record(r)
  <2>1. L \in Threads /\ nny[L] \in Nat /\ nCcalls[L] \in 0 .. Limit
    BY Before
  <2>2. nCcalls[L] \in 0 .. Limit - 1
    BY <2>1, LimitIs
  <2>3. QED
    BY <1>2, <2>1, <2>2 DEF Record
<1>4. Top' = r
  BY <1>1, <1>3, TopIs
<1>5. QED
  BY <1>1, <1>2, <1>4 DEF Collecting, Finalizes

\* A protected call is left: the one below it is no finalizer.
LEMMA LeaveCollects ==
  ASSUME IInv, FInv, Collecting, ctl.at # "end", NEW j, NEW r, Leave(j, r),
         GoOn(j - 1) \/ ctl'.at = "throw", gcrunning' = restored(r)
  PROVE  Collecting'
<1>0. PICK n : n = j - 1
  OBVIOUS
<1>1. /\ j \in 1 .. Len(C) /\ Cut(C, C', n) /\ Record(r) /\ r = C[j] /\ r.op = "pcall"
      /\ Len(C) \in Nat
  BY <1>0, Protector, Running DEF Leave
<1>2. gcrunning' \in BOOLEAN
  BY <1>1 DEF restored, Record, Collecting
<1>3. CASE GoOn(n) /\ n # 0
  <2>1. n \in 1 .. n /\ Len(C') = n /\ C'[n] = C[n]
    BY <1>0, <1>1, <1>3 DEF Cut
  <2>2. Top' = C[n]
    BY <2>1 DEF Top
  <2>3. PICK hs : Fits(C, ci, hs)
    BY Running
  <2>4. FitPcall(C, j)
    BY <1>1, <2>3 DEF Fits, Fit
  <2>5. Works(C[n]) \/ ~ Finalizes(C[n])
    BY <1>0, <1>1, <2>1, <2>4 DEF FitPcall
  <2>6. QED
    BY <1>2, <2>2, <2>5 DEF Collecting, Works, Finalizes
<1>4. CASE GoOn(n) /\ n = 0
  BY <1>2, <1>4 DEF Collecting, GoOn, At
<1>5. CASE ctl'.at = "throw"
  BY <1>2, <1>5 DEF Collecting
<1>6. QED
  BY <1>0, <1>3, <1>4, <1>5

\* Who called lua_resume is a C function at work.
LEMMA ResumedCollects ==
  ASSUME IInv, Collecting, ctl.at # "end", NEW j, j = errorJmp[L], C[j].op = "resume", NEW st,
         resumed(j, st), UNCHANGED gcrunning
  PROVE  Collecting'
<1>0. PICK n : n = j - 1
  OBVIOUS
<1>1. /\ C' = SubSeq(C, 1, j - 1) /\ GoOn(j - 1)
  BY DEF resumed
<1>2. /\ j \in 1 .. Len(C) /\ Len(C) \in Nat /\ Stacked(C) /\ C # <<>>
  BY <1>1, Protector, Before DEF Good
<1>3. j \in 2 .. Len(C)
  BY <1>2 DEF Stacked
<1>4. C[n].op = "body" /\ n # 0
  BY <1>0, <1>2, <1>3 DEF Stacked
<1>5. ctl'.at = "run"
  BY <1>0, <1>1, <1>4 DEF GoOn, At
<1>6. QED
  BY <1>5 DEF Collecting

\* Every step preserves it.
LEMMA CollectingKept ==
  ASSUME IInv, FInv, Collecting, [Next]_vars
  PROVE  Collecting'
<1>1. ASSUME Program PROVE Collecting'
  <2>1. ASSUME NEW lua \in BOOLEAN, OP_CALL(lua) \/ luaD_precall(lua) PROVE Collecting'
    <3>1. CASE OP_CALL(lua)
      <4>1. ctl.at = "run" /\ UNCHANGED <<gcrunning, ctl>>
        BY <3>1 DEF OP_CALL, In
      <4>2. QED
        BY <4>1 DEF Collecting
    <3>2. CASE luaD_precall(lua)
      <4>1. ctl' = At("run", L) /\ UNCHANGED gcrunning
        BY <3>2 DEF luaD_precall
      <4>2. QED
        BY <4>1 DEF At, Collecting
    <3>3. QED
      BY <2>1, <3>1, <3>2
  <2>2. ASSUME OP_RETURN \/ return PROVE Collecting'
    BY <2>2 DEF OP_RETURN, return, In, At, Collecting
  <2>3. ASSUME callTM PROVE Collecting'
    <3>1. PICK noyield \in BOOLEAN, then \in {"proceed", "unprotect", "throw"} :
            noyield = FALSE /\ then = "proceed"
      OBVIOUS
    <3>2. luaD_call(noyield, then) /\ ctl.at # "end" /\ UNCHANGED gcrunning
      BY <2>3, <3>1 DEF callTM, In
    <3>3. QED
      BY <3>2, CallCollects
  <2>4. ASSUME GCTM PROVE Collecting'
    <3>1. PICK gc \in BOOLEAN : gc = TRUE
      OBVIOUS
    <3>2. ctl.at # "end" /\ nCcalls[L] < Limit /\ luaD_pcall(None, gc)
      BY <2>4, <3>1 DEF GCTM, CollectsHere, Allowed, Limit, IInv, Control
    <3>3. QED
      BY <3>2, PcallCollects
  <2>5. ASSUME error PROVE Collecting'
    <3>1. ctl.at # "end" /\ UNCHANGED gcrunning
      BY <2>5 DEF error
    <3>2. CASE luaG_errormsg
      BY <3>1, <3>2, ErrorCollects
    <3>3. CASE luaD_throw("mem") \/ luaD_throw("err")
      BY <3>1, <3>3 DEF luaD_throw, Collecting
    <3>4. QED
      BY <2>5, <3>2, <3>3 DEF error
  <2>6. ASSUME NEW k \in BOOLEAN, lua_callk(k) PROVE Collecting'
    <3>1. PICK noyield \in BOOLEAN, then \in {"proceed", "unprotect", "throw"} :
            (noyield <=> ~ Continues(k)) /\ then = "proceed"
      OBVIOUS
    <3>2. noyield = ~ Continues(k)
      BY <3>1 DEF Continues
    <3>3. luaD_call(noyield, then) /\ ctl.at # "end" /\ UNCHANGED gcrunning
      BY <2>6, <3>1, <3>2 DEF lua_callk, In
    <3>4. QED
      BY <3>3, CallCollects
  <2>7. ASSUME NEW k \in BOOLEAN, lua_yieldk(k) PROVE Collecting'
    <3>1. ctl.at # "end" /\ UNCHANGED gcrunning
      BY <2>7 DEF lua_yieldk, In
    <3>2. CASE luaG_errormsg
      BY <3>1, <3>2, ErrorCollects
    <3>3. CASE luaD_throw("yield")
      BY <3>1, <3>3 DEF luaD_throw, Collecting
    <3>4. QED
      BY <2>7, <3>2, <3>3 DEF lua_yieldk
  <2>8. ASSUME NEW k \in BOOLEAN, lua_gc(k) PROVE Collecting'
    BY <2>8 DEF lua_gc, In, Collecting
  <2>9. ASSUME NEW k \in BOOLEAN, NEW h \in Handlers \cup {None}, lua_pcallk(h, k) PROVE Collecting'
    <3>1. ctl.at # "end" /\ nCcalls[L] < Limit
      BY <2>9 DEF lua_pcallk, In, IInv, Control
    <3>2. CASE ~ Continues(k)
      <4>1. PICK gc \in BOOLEAN : gc = FALSE
        OBVIOUS
      <4>2. luaD_pcall(h, gc)
        BY <2>9, <3>2, <4>1 DEF lua_pcallk
      <4>3. QED
        BY <3>1, <4>2, PcallCollects
    <3>3. CASE Continues(k)
      <4>1. PICK noyield \in BOOLEAN, then \in {"proceed", "unprotect", "throw"} :
              noyield = FALSE /\ then = "unprotect"
        OBVIOUS
      <4>2. luaD_call(noyield, then) /\ UNCHANGED gcrunning
        BY <2>9, <3>3, <4>1 DEF lua_pcallk
      <4>3. QED
        BY <3>1, <4>2, CallCollects
    <3>4. QED
      BY <3>2, <3>3
  <2>10. ASSUME NEW t \in Threads, luaB_cocreate(t) \/ resume_error(t) PROVE Collecting'
    BY <2>10 DEF luaB_cocreate, resume_error, In, Collecting
  <2>11. ASSUME NEW t \in Threads, lua_resume(t) PROVE Collecting'
    <3>1. UNCHANGED gcrunning
      BY <2>11 DEF lua_resume
    <3>2. CASE C' = Append(C, Resumption(t))
      <4>1. C' # <<>> /\ C'[Len(C')].op = "resume"
        BY <2>11, <3>2, Resuming1
      <4>2. QED
        BY <3>1, <4>1 DEF Collecting, Top, Finalizes
    <3>3. CASE ctl'.at # "call"
      BY <3>1, <3>3 DEF Collecting
    <3>4. \/ C' = Append(C, Resumption(t))
          \/ ctl' = At("run", t)
          \/ ctl' = At("return", t)
      BY <2>11 DEF lua_resume, Resumption
    <3>5. ctl' \in {At("run", t), At("return", t)} => ctl'.at # "call"
      BY DEF At
    <3>6. QED
      BY <3>2, <3>3, <3>4, <3>5
  <2>12. QED
    BY <1>1, <2>1, <2>2, <2>3, <2>4, <2>5, <2>6, <2>7, <2>8, <2>9, <2>10, <2>11 DEF Program
<1>2. ASSUME Interpreter PROVE Collecting'
  <2>1. ASSUME stackerror PROVE Collecting'
    <3>1. ctl.at # "end" /\ UNCHANGED gcrunning
      BY <2>1 DEF stackerror
    <3>2. CASE luaG_errormsg
      BY <3>1, <3>2, ErrorCollects
    <3>3. CASE luaD_throw("err")
      BY <3>1, <3>3 DEF luaD_throw, Collecting
    <3>4. QED
      BY <2>1, <3>2, <3>3 DEF stackerror
  <2>2. ASSUME toLua \/ toCall PROVE Collecting'
    BY <2>2 DEF toLua, toCall, At, Collecting
  <2>3. ASSUME toPcall PROVE Collecting'
    <3>1. /\ ctl.at = "return" /\ Top.op = "pcall" /\ Top = C[Len(C)] /\ C # <<>> /\ IsStack(C)
          /\ Len(C) \in Nat \ {0}
      BY <2>3, Running DEF toPcall, Back
    <3>2. errorJmp[L] = Len(C) /\ C[errorJmp[L]].op = "pcall" /\ nny[L] - 1 = Top.nny
      <4>1. errorJmp[L] = Len(C) /\ C[errorJmp[L]].op = "pcall"
        BY <3>1, Protector DEF Protects
      <4>2. C[errorJmp[L]].nny = nny[L] - 1
        BY <3>1, <4>1, Nny
      <4>3. QED
        BY <3>1, <4>1, <4>2
    <3>3. C' = SubSeq(C, 1, Len(C) - 1)
      BY <2>3, <3>1, FrontIs DEF toPcall
    <3>4. Leave(errorJmp[L], Top) /\ GoOn(errorJmp[L] - 1) /\ gcrunning' = restored(Top)
      BY <2>3, <3>1, <3>2, <3>3 DEF Leave, toPcall, unprotect
    <3>5. QED
      BY <3>1, <3>4, LeaveCollects
  <2>4. ASSUME unroll PROVE Collecting'
    <3>1. ctl.at = "return" /\ Top.op = "resume" /\ UNCHANGED gcrunning
      BY <2>4 DEF unroll, Back
    <3>2. errorJmp[L] = Len(C) /\ C[errorJmp[L]].op = "resume"
      BY <3>1, Protector, Running DEF Protects
    <3>3. CASE resumed(Len(C), "ok")
      BY <3>1, <3>2, <3>3, ResumedCollects
    <3>4. CASE continue(frames, C, errfunc[L])
      BY <3>1, <3>4 DEF continue, At, Collecting
    <3>5. QED
      BY <2>4, <3>3, <3>4 DEF unroll
  <2>5. ASSUME catchPcall PROVE Collecting'
    <3>1. ctl.at = "throw" /\ Leave(errorJmp[L], C[errorJmp[L]])
          /\ gcrunning' = restored(C[errorJmp[L]])
      BY <2>5 DEF catchPcall, Caught, old_nny, unprotect, Leave
    <3>2. ctl \in [at : Points, L : Threads, code : Codes]
      BY DEF IInv, Types
    <3>3. GoOn(errorJmp[L] - 1) \/ ctl'.at = "throw"
      BY <2>5, <3>1, <3>2 DEF catchPcall
    <3>4. QED
      BY <3>1, <3>3, LeaveCollects
  <2>6. ASSUME catchResume PROVE Collecting'
    <3>1. ctl.at = "throw" /\ C[errorJmp[L]].op = "resume" /\ UNCHANGED gcrunning
      BY <2>6 DEF catchResume, Caught
    <3>2. ASSUME NEW st, resumed(errorJmp[L], st) PROVE Collecting'
      BY <3>1, <3>2, ResumedCollects
    <3>3. ASSUME NEW F, NEW S, continue(F, S, None) PROVE Collecting'
      BY <3>1, <3>3 DEF continue, At, Collecting
    <3>4. QED
      BY <2>6, <3>2, <3>3 DEF catchResume
  <2>7. QED
    BY <1>2, <2>1, <2>2, <2>3, <2>4, <2>5, <2>6 DEF Interpreter
<1>3. ASSUME Done \/ UNCHANGED vars PROVE Collecting'
  BY <1>3 DEF Done, vars, Collecting, Top
<1>4. QED
  BY <1>1, <1>2, <1>3 DEF Next

\* pmain runs in the first protected call.
LEMMA InitFits ==
  ASSUME Init
  PROVE  FInv
<1> DEFINE r == [op |-> "pcall", L |-> Main, ci |-> 0, nny |-> 1, errfunc |-> None,
                 nCcalls |-> 0, previous |-> 0, gc |-> FALSE, running |-> FALSE]
           S == <<r>>
           f == [t \in Threads |-> <<>>]
           hs == [j \in {1} |-> 0]
<1>1. /\ Main \in Threads /\ C = Append(S, Working(Main, FALSE))
      /\ ci = [t \in Threads |-> IF t = Main THEN <<CFrame>> ELSE <<>>]
      /\ status = [t \in Threads |-> "ok"] /\ errfunc = [t \in Threads |-> None]
      /\ told = "none" /\ ctl.at = "run"
  <2>1. C = <<r, Working(Main, FALSE)>>
    BY DEF Init
  <2>2. C = Append(S, Working(Main, FALSE))
    BY <2>1, TwoRecords
  <2>3. QED
    BY <2>2, CallsAssumption DEF Init, At
<1>2. Len(S) = 1 /\ S[1] = r /\ S # <<>> /\ S \in Seq({r})
  OBVIOUS
<1>3. /\ r.op = "pcall" /\ r.L = Main /\ r.nny = 1 /\ r.nCcalls = 0 /\ r.ci = 0 /\ r.gc = FALSE
      /\ r.errfunc = None /\ r.running = FALSE
  OBVIOUS
<1> HIDE DEF r
<1>4. Record(r)
  <2>1. 0 \in 0 .. Limit - 1 /\ 1 \in Nat
    BY LimitIs
  <2>2. r.gc \in BOOLEAN /\ r.running \in BOOLEAN
    BY <1>3
  <2>3. QED
    BY <1>1, <1>3, <2>1, <2>2 DEF Record
<1> HIDE DEF S
<1>5. Stacked(S)
  <2>1. IsStack(S)
    BY <1>2, <1>4 DEF IsStack
  <2>2. QED
    BY <1>2, <1>3, <2>1 DEF Stacked
<1>6. f \in [Threads -> Seq(Frames)] /\ \A t \in Threads : f[t] = <<>>
  OBVIOUS
<1>7. hs[1] = 0
  OBVIOUS
<1> HIDE DEF f, hs
<1>8. Fits(S, f, hs)
  <2>1. Growing(S, hs)
    BY <1>2 DEF Growing
  <2>2. Heights(S, f, hs)
    BY <1>2, <1>6, <1>7 DEF Heights
  <2>3. Fit(S, f[S[1].L], hs, 1)
    BY <1>2, <1>3, <1>7 DEF Fit, Below, FitPcall
  <2>4. QED
    BY <1>2, <2>1, <2>2, <2>3 DEF Fits
<1>9. CFrame \in Frames /\ ~ CFrame.lua /\ CFrame.lua = FALSE /\ ~ CFrame.ypcall
  BY NewFrames
<1>10. [f EXCEPT ![Main] = Append(@, CFrame)] = ci
  <2>1. Append(<<>>, CFrame) = <<CFrame>>
    OBVIOUS
  <2>2. f = [t \in Threads |-> <<>>]
    BY DEF f
  <2>3. QED
    BY <1>1, <2>1, <2>2
<1>11. \E h2 : Fits(C, ci, h2)
  <2>1. PICK l \in BOOLEAN : l = FALSE
    OBVIOUS
  <2>2. CFrame.lua = l /\ ~ l
    BY <1>9, <2>1
  <2>3. /\ Stacked(S) /\ S # <<>> /\ Main = S[Len(S)].L
        /\ S[Len(S)].op # "body"
    BY <1>2, <1>3, <1>5
  <2>4. \E h2 : Fits(Append(S, Working(Main, l)), [f EXCEPT ![Main] = Append(@, CFrame)], h2)
    BY <1>6, <1>8, <1>9, <2>2, <2>3, WorkFits
  <2>5. QED
    BY <1>1, <1>10, <2>1, <2>4
<1>12. Functions
  <2>1. <<CFrame>> \in Seq(Frames) /\ <<>> \in Seq(Frames)
    BY <1>9
  <2>2. QED
    BY <1>1, <2>1 DEF Functions
<1>13. \A t \in Threads : Recoverables(ci[t])
  <2>1. Recoverables(<<CFrame>>) /\ Recoverables(<<>>)
    <3>1. Len(<<CFrame>>) = 1 /\ <<CFrame>>[1] = CFrame
      OBVIOUS
    <3>2. QED
      BY <1>9, <3>1 DEF Recoverables
  <2>2. QED
    BY <1>1, <2>1
<1>14. C[Len(C)].L = Main /\ Works(C[Len(C)])
  <2>1. PICK l \in BOOLEAN : l = FALSE
    OBVIOUS
  <2>2. PICK G : G = Append(S, Working(Main, l))
    OBVIOUS
  <2>3. G = C
    BY <1>1, <2>1, <2>2
  <2>4. Stacked(S) /\ S # <<>> /\ S[Len(S)].L = Main
    BY <1>2, <1>3, <1>5
  <2>5. G[Len(G)].L = Main /\ Works(G[Len(G)])
    <3>1. PICK u \in Threads : u = Main
      BY <1>1
    <3>2. S[Len(S)].L = u /\ G = Append(S, Working(u, l))
      BY <2>2, <2>4, <3>1
    <3>3. G[Len(G)].L = u /\ Works(G[Len(G)])
      BY ONLY <2>4, <3>2, WorkOn, l \in BOOLEAN, u \in Threads
    <3>4. QED
      BY <3>1, <3>3
  <2>6. QED
    BY <2>3, <2>5
<1>15. Has(C, Main)
  <2>1. IsStack(C) /\ C # <<>>
    BY InitStep DEF IInv, Good, Stacked, Init, Control
  <2>2. Len(C) \in 1 .. Len(C)
    <3>1. Len(C) \in Nat \ {0}
      BY <2>1, StackFacts
    <3>2. QED
      BY <3>1
  <2>3. QED
    BY <1>14, <2>2 DEF Has
<1>16. Waiting
  BY <1>1, <1>15 DEF Waiting
<1>17. Going
  BY <1>1, <1>14 DEF Going, Top, Yielding
<1>18. QED
  BY <1>11, <1>12, <1>13, <1>16, <1>17 DEF FInv

-----------------------------------------------------------------------------
(* The theorems                                                              *)

\* In every reachable state each record of the C stack fits the functions that its
\* thread has called, those of the finalizers that interrupt them included (ldo.c,
\* lstate.h, lgc.c:801-837).
THEOREM FramesFit == Spec => [](IInv /\ FInv /\ Collecting)
<1>1. Init => IInv /\ FInv /\ Collecting
  <2>1. Init => Collecting
    BY DEF Init, Collecting, At
  <2>2. QED
    BY <2>1, InitStep, InitFits
<1>2. (IInv /\ FInv /\ Collecting) /\ [Next]_vars => (IInv /\ FInv /\ Collecting)'
  BY NextStep, StepKeeps, CollectingKept
<1>3. QED
  BY <1>1, <1>2, PTL DEF Spec

\* What the invariants say of the types.
LEMMA TypesRight ==
  ASSUME IInv, FInv, Collecting
  PROVE  TypeOK
<1>1. /\ status \in [Threads -> Codes] /\ ready \in [Threads -> BOOLEAN] /\ nny \in [Threads -> Nat]
      /\ nCcalls \in [Threads -> 0 .. MaxCCalls + ExtraCCalls]
      /\ ctl \in [at : {"run", "call", "return", "throw", "end"}, L : Threads, code : Codes]
      /\ errorJmp \in [Threads -> Nat]
  BY DEF IInv, Types, Limit, Points
<1>2. /\ ci \in [Threads -> Seq(Frames)] /\ told \in Codes \cup {"none"}
      /\ errfunc \in [Threads -> Handlers \cup {None}]
  BY DEF FInv, Functions
<1>3. \A t \in Threads : \A i \in DOMAIN ci[t] : ci[t][i] \in Frames
  BY <1>2, ElementOfSeq
<1>4. errorJmp \in [Threads -> 0 .. Len(C)]
  <2>1. Len(C) \in Nat /\ Jumps(C, errorJmp)
    BY StackFacts DEF IInv, Good, Stacked
  <2>2. ASSUME NEW t \in Threads PROVE errorJmp[t] \in 0 .. Len(C)
    <3>1. errorJmp[t] = 0 \/ errorJmp[t] \in 1 .. Len(C)
      BY <2>1 DEF Jumps, Innermost, ProtectedIn
    <3>2. QED
      BY <2>1, <3>1
  <2>3. QED
    BY <1>1, <2>2
<1>5. QED
  BY <1>1, <1>2, <1>3, <1>4 DEF TypeOK, Collecting

\* Every field of every thread keeps its type, and the counters are those of the C
\* calls under way, whatever the program calls, raises, yields and resumes (ldo.c).
THEOREM ConsistentAlways == Spec => []Consistent
<1>1. IInv /\ FInv /\ Collecting => Consistent
  BY TypesRight, CountersRight DEF Consistent
<1>2. QED
  BY <1>1, FramesFit, PTL

\* A thread that can yield has no C function that could not go on afterwards: the
\* assertion of lua_resume and finishCcall holds (ldo.c:519-523, 739-758).
THEOREM YieldsAreSafe == Spec => []YieldSafe
<1>1. ASSUME IInv, FInv PROVE YieldSafe
  <2>1. Stacked(C) /\ IsStack(C)
    BY <1>1 DEF IInv, Good, Stacked
  <2>2. Chained \subseteq Threads
    <3>1. \A j \in 1 .. Len(C) : C[j].L \in Threads
      BY <2>1 DEF IsStack, Record
    <3>2. DOMAIN C = 1 .. Len(C)
      <4>1. \E X : C \in Seq(X)
        BY <2>1 DEF IsStack
      <4>2. QED
        BY <4>1
    <3>3. QED
      BY <3>1, <3>2, CallsAssumption DEF Chained, Resuming
  <2>3. ASSUME NEW t \in Chained, nny[t] = 0
        PROVE  \A i \in 1 .. Len(ci[t]) - 1 : ci[t][i].lua \/ ci[t][i].k
    <3>1. t \in Threads /\ Has(C, t)
      BY <2>1, <2>2, ChainedIs
    <3>2. QED
      BY <1>1, <2>3, <3>1, CanGoOn DEF Interrupted
  <2>4. QED
    BY <2>3 DEF YieldSafe
<1>2. IInv /\ FInv => YieldSafe
  BY <1>1
<1>3. QED
  BY <1>2, FramesFit, PTL

\* A thread that waits for one it resumed has a function that waits.
LEMMA Normal ==
  ASSUME IInv, FInv, ctl.at # "end", NEW t \in Threads \ {L}, Has(C, t)
  PROVE  ci[t] # <<>>
<1> DEFINE M == {j \in 1 .. Len(C) : C[j].L = t}
<1>1. /\ Stacked(C) /\ IsStack(C) /\ Len(C) \in Nat \ {0} /\ C[Len(C)].L = L
  BY Running
<1>2. PICK hs : Fits(C, ci, hs)
  BY DEF FInv
<1>3. PICK m \in M : \A j \in M : j <= m
  <2>1. M \in SUBSET (1 .. Len(C)) /\ M # {}
    BY DEF Has
  <2>2. QED
    BY <1>1, <2>1, MaxExists
<1>4. m \in 1 .. Len(C) /\ C[m].L = t /\ m # Len(C)
  BY <1>1
<1>5. Len(ci[t]) = hs[m]
  <2>1. Latest(C, t, m)
    BY <1>1, <1>3, <1>4 DEF Latest
  <2>2. QED
    BY <1>2, <1>4, <2>1 DEF Fits, Heights
<1>6. m + 1 \in 2 .. Len(C) /\ m + 1 \in 1 .. Len(C) /\ (m + 1) - 1 = m
  BY <1>1, <1>4
<1>7. C[m + 1].L # t
  <2>1. m + 1 \notin M
    BY <1>3, <1>4
  <2>2. QED
    BY <1>6, <2>1
<1>8. C[m + 1].op = "resume"
  BY <1>1, <1>4, <1>6, <1>7, Neighbour
<1>9. C[m].op = "body"
  BY <1>1, <1>6, <1>8 DEF Stacked
<1>10. hs[m] > 0
  <2>1. Fit(C, ci[t], hs, m)
    BY <1>2, <1>4 DEF Fits
  <2>2. hs[m] = Below(C, hs, m) + 1 /\ Below(C, hs, m) \in Nat
    BY <1>9, <2>1 DEF Fit, FitBody
  <2>3. QED
    BY <2>2
<1>11. QED
  BY <1>5, <1>10

\* coroutine.status says "normal" of the threads that wait for one they resumed and
\* "suspended" of those that a resume wakes, and of no others (lcorolib.c:97-125).
THEOREM StatusAlwaysRight == Spec => []StatusRight
<1>1. ASSUME IInv, FInv, ctl.at = "run", NEW t \in Threads \ {L}
      PROVE  /\ luaB_costatus(t) = "normal" <=> t \in Chained
             /\ luaB_costatus(t) = "suspended" <=> ready[t] \/ (status[t] = "yield" /\ ci[t] # <<>>)
  <2>1. t \in Chained <=> Has(C, t)
    BY <1>1, ChainedIs DEF IInv, Good
  <2>2. /\ Has(C, t) => ~ ready[t] /\ status[t] = "ok" /\ ci[t] # <<>>
        /\ ready[t] => status[t] = "ok"
    BY <1>1, Normal DEF IInv, Alive, Yielding
  <2>3. ASSUME ~ Has(C, t)
        PROVE  /\ status[t] = "ok" => ci[t] = <<>>
               /\ status[t] = "yield" => ci[t] # <<>>
    BY <1>1, <2>3 DEF FInv, Waiting
  <2>4. status[t] \in Errors \cup {"ok", "yield"}
    BY <1>1 DEF IInv, Types, Codes
  <2>5. CASE status[t] = "yield"
    <3>1. luaB_costatus(t) = "suspended"
      BY <2>5 DEF luaB_costatus, Errors
    <3>2. QED
      BY <2>1, <2>2, <2>3, <2>5, <3>1
  <2>6. CASE status[t] = "ok"
    <3>1. luaB_costatus(t) = IF ci[t] # <<>> THEN "normal" ELSE IF ready[t] THEN "suspended" ELSE "dead"
      BY <2>6 DEF luaB_costatus, Errors
    <3>2. QED
      BY <2>1, <2>2, <2>3, <2>6, <3>1
  <2>7. CASE status[t] \in Errors
    <3>1. luaB_costatus(t) = "dead"
      BY <2>7 DEF luaB_costatus, Errors
    <3>2. status[t] \notin {"ok", "yield"}
      BY <2>7 DEF Errors
    <3>3. QED
      BY <2>1, <2>2, <3>1, <3>2
  <2>8. QED
    BY <2>4, <2>5, <2>6, <2>7
<1>2. IInv /\ FInv => StatusRight
  BY <1>1 DEF StatusRight
<1>3. QED
  BY <1>2, FramesFit, PTL
=============================================================================
