-------------------------- MODULE LuaUpval_proofs ---------------------------
(* Closures and their upvalues: the inductive invariant; that each step      *)
(* keeps references, lists of open upvalues and stacks as they must be;      *)
(* colors, and what the collector keeps; for any closures, threads,          *)
(* prototypes and bounds.                                                    *)
EXTENDS LuaUpval, FiniteSetTheorems, SequenceTheorems, TLAPS

-----------------------------------------------------------------------------
(* The inductive invariant                                                   *)

\* What upvalues point to when they are open.
Slots == Threads \X (1 .. StackSize)

Types ==
  /\ stack \in [Threads -> Seq(Values \cup {Nil})]
  /\ \A th \in Threads : Len(stack[th]) <= StackSize
  /\ L \in Threads
  /\ proto \in [Closures -> Protos \cup {Nil}]
  /\ upvals \in [Closures -> Seq(UpVal)]
  /\ cache \in [Protos -> Closures \cup {Nil}]
  /\ at \in [UpVal -> {Freed, Own} \cup Slots]
  /\ value \in [UpVal -> Values \cup {Nil}]
  /\ refcount \in [UpVal -> Nat] /\ touched \in [UpVal -> BOOLEAN]
  /\ openupval \in [Threads -> Seq(UpVal)]
  /\ twups \subseteq Threads
  /\ gcstate \in {"pause", "propagate", "sweep"}
  /\ color \in [Obj -> {"free", "white", "dead", "gray", "black"}]
  /\ gray \subseteq Obj /\ unswept \subseteq Obj

\* The places where the closures, with the upvalues G, refer to upvalue u.
Refs(G, u) == {x \in Closures \X Nat : x[2] \in DOMAIN G[x[1]] /\ G[x[1]][x[2]] = u}

\* R counts the references of closures with the upvalues G.
Exact(G, R) == \A u \in UpVal : IsFiniteSet(Refs(G, u)) /\ R[u] = Cardinality(Refs(G, u))

Counts == /\ Exact(upvals, refcount)
          /\ \A u \in UpVal : /\ at[u] = Freed => refcount[u] = 0
                              /\ at[u] = Own => refcount[u] > 0

\* 'open' holds upvalues of thread th that are open, for slots up to n, in order,
Ordered(open, where, th, n) ==
  /\ \A i \in 1 .. Len(open) :
       LET w == where[open[i]] IN w \in Slots /\ w[1] = th /\ w[2] <= n
  /\ \A i, j \in 1 .. Len(open) : i < j => where[open[j]][2] < where[open[i]][2]
\* and all of them.
Complete(open, where, th) ==
  \A u \in UpVal : where[u] \in Slots /\ where[u][1] = th => \E i \in 1 .. Len(open) : open[i] = u
Lists == \A th \in Threads : /\ Ordered(openupval[th], at, th, Len(stack[th]))
                             /\ Complete(openupval[th], at, th)

\* What is not there refers to nothing.
Gone == /\ \A c \in Closures : color[c] = "free" => upvals[c] = <<>>
        /\ \A th \in Threads : color[th] = "free" => openupval[th] = <<>>

SInv == Types /\ Counts /\ Lists /\ Gone

\* What a traversed closure refers to is marked, or will be looked for.
Marked(x) == x = Nil \/ color[x] \in {"gray", "black"}
Traversed(c) == \A u \in ToSet(upvals[c]) : IF upisopen(u) THEN touched[u] ELSE Marked(value[u])

\* The colors in each state of the collector.
Hues ==
  /\ gcstate = "pause" => \A o \in Obj : color[o] \in {"free", "white"}
  /\ gcstate # "propagate" => gray = {}
  /\ gcstate = "propagate" =>
       /\ \A o \in Obj : color[o] # "dead"
       /\ \A o \in gray : color[o] = "gray"
       /\ \A o \in Obj \ Threads : color[o] = "gray" => o \in gray
       /\ \A th \in Threads : color[th] # "black"
       /\ \A o \in Roots : color[o] \in {"gray", "black"}
  /\ gcstate = "sweep" =>
       /\ MainThread \notin unswept
       /\ \A o \in Obj \ unswept : color[o] \in {"free", "white"} \/ o = MainThread
       /\ \A o \in unswept : Exists(o)
  /\ gcstate # "sweep" => unswept = {}
\* The invariant of the propagation.
Blacks ==
  gcstate = "propagate" =>
    /\ \A c \in Closures : color[c] = "black" => Traversed(c)
    /\ \A f \in Protos : color[f] = "black" => Marked(cache[f])
Colors == Hues /\ Blacks

\* What is in use, and what it refers to.
Alive ==
  /\ Live(L) /\ \A o \in Roots : Live(o)
  /\ LiveValues /\ LiveCache /\ Twups

IInv == SInv /\ Colors /\ Alive

-----------------------------------------------------------------------------
(* Numbers, sequences and sets                                               *)

\* Induction, for a set of numbers.
LEMMA AllNumbers ==
  ASSUME NEW S, 0 \in S, \A n \in Nat : n \in S => n + 1 \in S
  PROVE  Nat \subseteq S
<1> DEFINE T == Nat \ S
<1> SUFFICES ASSUME T # {} PROVE FALSE
  OBVIOUS
<1>1. PICK x \in T : \A y \in T : ~ (<<y, x>> \in OpToRel(<, Nat))
  BY NatLessThanWellFounded, WFMin
<1>2. \A y \in T : ~ (y < x)
  BY <1>1 DEF OpToRel
<1>3. x \in Nat \ {0} /\ x \notin S
  OBVIOUS
<1>4. x - 1 \in Nat /\ x - 1 < x /\ (x - 1) + 1 = x
  BY <1>3
<1>5. x - 1 \in S
  BY <1>2, <1>4
<1>6. QED
  BY <1>3, <1>4, <1>5

\* A set of numbers up to n that is not empty has a greatest one.
LEMMA Greatest ==
  ASSUME NEW n \in Nat, NEW T \in SUBSET (0 .. n), T # {}
  PROVE  \E m \in T : \A i \in T : i <= m
<1> DEFINE D == {n - i : i \in T}
<1>1. D \subseteq Nat /\ D # {}
  <2>1. \A i \in T : n - i \in Nat
    OBVIOUS
  <2>2. QED
    BY <2>1
<1>2. PICK x \in D : \A y \in D : ~ (<<y, x>> \in OpToRel(<, Nat))
  BY <1>1, NatLessThanWellFounded, WFMin
<1>3. \A y \in D : ~ (y < x)
  BY <1>1, <1>2 DEF OpToRel
<1>4. PICK m \in T : x = n - m
  BY <1>2
<1>5. ASSUME NEW i \in T PROVE i <= m
  <2>1. ~ (n - i < n - m)
    BY <1>3, <1>4
  <2>2. QED
    BY <2>1
<1>6. QED
  BY <1>4, <1>5

-----------------------------------------------------------------------------
(* Objects and the places of upvalues                                        *)

LEMMA Kinds ==
  /\ Nil \notin Obj /\ MainThread \in Threads /\ Obj = Values \cup Protos
  /\ Values = Closures \cup Threads
  /\ Closures \cap Threads = {} /\ Protos \cap Closures = {} /\ Protos \cap Threads = {}
  /\ Coroutines = Threads \ {MainThread} /\ Roots = Protos \cup {MainThread}
  /\ StackSize \in Nat \ {0} /\ NUpval \in Nat
BY UpvalAssumption, ObjectsAssumption DEF Obj, Values, Threads, Roots

LEMMA Places ==
  /\ Freed # Own /\ Freed \notin Slots /\ Own \notin Slots
  /\ Len(Freed) # 2 /\ Len(Own) # 2
  /\ \A w \in Slots : w[1] \in Threads /\ w[2] \in 1 .. StackSize /\ w = <<w[1], w[2]>> /\ Len(w) = 2
  /\ \A th \in Threads, n \in 1 .. StackSize : <<th, n>> \in Slots /\ <<th, n>>[1] = th /\ <<th, n>>[2] = n
<1>1. Len(Freed) = 0 /\ Len(Own) = 1
  BY DEF Freed, Own
<1>2. \A w \in Slots : w[1] \in Threads /\ w[2] \in 1 .. StackSize /\ w = <<w[1], w[2]>>
  BY DEF Slots
<1>3. ASSUME NEW w \in Slots PROVE Len(w) = 2
  <2>1. PICK x, y : w = <<x, y>>
    BY <1>2
  <2>2. Len(<<x, y>>) = 2
    OBVIOUS
  <2>3. QED
    BY <2>1, <2>2
<1>4. \A th \in Threads, n \in 1 .. StackSize : <<th, n>> \in Slots /\ <<th, n>>[1] = th /\ <<th, n>>[2] = n
  BY DEF Slots
<1>5. Freed # Own /\ Freed \notin Slots /\ Own \notin Slots
  BY <1>1, <1>3
<1>6. QED
  BY <1>1, <1>2, <1>3, <1>4, <1>5

\* What an upvalue is.
LEMMA Upvalues ==
  ASSUME at \in [UpVal -> {Freed, Own} \cup Slots], NEW u \in UpVal
  PROVE  /\ upisopen(u) <=> at[u] \in Slots
         /\ upisopen(u) => ThreadOf(u) \in Threads /\ LevelOf(u) \in 1 .. StackSize
                           /\ at[u] = <<ThreadOf(u), LevelOf(u)>>
<1>1. at[u] = Freed \/ at[u] = Own \/ at[u] \in Slots
  OBVIOUS
<1>2. Len(at[u]) = 2 <=> at[u] \in Slots
  BY <1>1, Places
<1>3. at[u] \in Slots => at[u][1] \in Threads /\ at[u][2] \in 1 .. StackSize
                         /\ at[u] = <<at[u][1], at[u][2]>>
  BY Places
<1>4. QED
  BY <1>2, <1>3 DEF upisopen, ThreadOf, LevelOf

-----------------------------------------------------------------------------
(* References                                                                *)

Uses(us, u) == {i \in DOMAIN us : us[i] = u}

LEMMA UsesFinite ==
  ASSUME NEW us \in Seq(UpVal), NEW u
  PROVE  IsFiniteSet(Uses(us, u)) /\ Uses(us, u) \subseteq Nat
         /\ (Cardinality(Uses(us, u)) = 0 <=> \A i \in DOMAIN us : us[i] # u)
<1>1. IsFiniteSet(1 .. Len(us)) /\ DOMAIN us = 1 .. Len(us) /\ Len(us) \in Nat
  BY FS_Interval
<1>2. Uses(us, u) \subseteq 1 .. Len(us)
  BY <1>1 DEF Uses
<1>3. IsFiniteSet(Uses(us, u))
  BY <1>1, <1>2, FS_Subset
<1>4. Cardinality(Uses(us, u)) = 0 <=> Uses(us, u) = {}
  BY <1>3, FS_EmptySet
<1>5. Uses(us, u) = {} <=> \A i \in DOMAIN us : us[i] # u
  BY DEF Uses
<1>6. QED
  BY <1>1, <1>2, <1>3, <1>4, <1>5

LEMMA PairsFinite ==
  ASSUME NEW c, NEW S, IsFiniteSet(S)
  PROVE  IsFiniteSet({c} \X S) /\ Cardinality({c} \X S) = Cardinality(S)
<1> DEFINE f == [i \in S |-> <<c, i>>]
<1>1. f \in Bijection(S, {c} \X S)
  <2>1. f \in [S -> {c} \X S]
    OBVIOUS
  <2>2. \A i, j \in DOMAIN f : f[i] = f[j] => i = j
    OBVIOUS
  <2>3. \A x \in {c} \X S : \E i \in S : f[i] = x
    OBVIOUS
  <2>4. QED
    BY <2>1, <2>2, <2>3 DEF Bijection, Injection, Surjection, IsInjective
<1>2. ExistsBijection(S, {c} \X S)
  BY <1>1 DEF ExistsBijection
<1>3. QED
  BY <1>2, FS_Bijection

\* Closures with the upvalues G and H; in H closure c has upvalues, in G none.
OneMore(G, H, c) ==
  /\ G \in [Closures -> Seq(UpVal)] /\ H \in [Closures -> Seq(UpVal)]
  /\ G[c] = <<>> /\ \A d \in Closures \ {c} : H[d] = G[d]

LEMMA RefsMore ==
  ASSUME NEW G, NEW H, NEW c \in Closures, OneMore(G, H, c), NEW u, IsFiniteSet(Refs(G, u))
  PROVE  /\ IsFiniteSet(Refs(H, u))
         /\ Cardinality(Refs(H, u)) = Cardinality(Refs(G, u)) + Cardinality(Uses(H[c], u))
<1> DEFINE X == {c} \X Uses(H[c], u)
<1>1. DOMAIN G[c] = {}
  BY DEF OneMore
<1>2. Uses(H[c], u) \subseteq Nat /\ IsFiniteSet(Uses(H[c], u))
  BY UsesFinite DEF OneMore
<1>3. IsFiniteSet(X) /\ Cardinality(X) = Cardinality(Uses(H[c], u))
  BY <1>2, PairsFinite
<1>4. Refs(H, u) = Refs(G, u) \cup X
  <2>1. \A d \in Closures \ {c} : H[d] = G[d]
    BY DEF OneMore
  <2>2. ASSUME NEW x \in Refs(H, u) PROVE x \in Refs(G, u) \cup X
    <3>1. x \in Closures \X Nat /\ x = <<x[1], x[2]>> /\ x[2] \in DOMAIN H[x[1]] /\ H[x[1]][x[2]] = u
      BY DEF Refs
    <3>2. CASE x[1] = c
      BY <2>1, <3>1, <3>2 DEF Uses
    <3>3. CASE x[1] # c
      BY <2>1, <3>1, <3>3 DEF Refs
    <3>4. QED
      BY <3>2, <3>3
  <2>3. ASSUME NEW x \in Refs(G, u) PROVE x \in Refs(H, u)
    BY <1>1, <2>1 DEF Refs
  <2>4. ASSUME NEW x \in X PROVE x \in Refs(H, u)
    BY <1>2, <2>1 DEF Refs, Uses
  <2>5. QED
    BY <2>2, <2>3, <2>4
<1>5. Refs(G, u) \cap X = {}
  BY <1>1 DEF Refs
<1> HIDE DEF X
<1>6. Cardinality(Refs(G, u) \cap X) = 0
  BY <1>5, FS_EmptySet
<1>7. /\ IsFiniteSet(Refs(G, u) \cup X)
      /\ Cardinality(Refs(G, u) \cup X) = Cardinality(Refs(G, u)) + Cardinality(X) - 0
  BY <1>3, <1>6, FS_Union
<1>8. Cardinality(Refs(G, u)) \in Nat /\ Cardinality(X) \in Nat
  BY <1>3, FS_CardinalityType
<1>9. Cardinality(Refs(G, u)) + Cardinality(X) - 0 = Cardinality(Refs(G, u)) + Cardinality(Uses(H[c], u))
  BY <1>3, <1>8
<1>10. QED
  BY <1>4, <1>7, <1>9

LEMMA RefsLess ==
  ASSUME NEW G, NEW H, NEW c \in Closures, OneMore(G, H, c), NEW u, IsFiniteSet(Refs(H, u))
  PROVE  IsFiniteSet(Refs(G, u))
<1>1. Refs(G, u) \subseteq Refs(H, u)
  <2>1. DOMAIN G[c] = {} /\ \A d \in Closures \ {c} : H[d] = G[d]
    BY DEF OneMore
  <2>2. QED
    BY <2>1 DEF Refs
<1>2. QED
  BY <1>1, FS_Subset

\* The upvalues H of closures are G with reference i of closure c moved from u to v,
OneMoved(G, c, i, u, v, H) ==
  c \in Closures /\ i \in DOMAIN G[c] /\ u = G[c][i] /\ u # v /\ H = [G EXCEPT ![c][i] = v]
\* which is what becomes of the references.
RefMoves(G, H, u, v) ==
  \E x : /\ Refs(H, v) = Refs(G, v) \cup {x} /\ x \notin Refs(G, v)
         /\ Refs(H, u) = Refs(G, u) \ {x} /\ x \in Refs(G, u)
         /\ \A w \in UpVal \ {v, u} : Refs(H, w) = Refs(G, w)

LEMMA RefsMoved ==
  ASSUME NEW G \in [Closures -> Seq(UpVal)], NEW c, NEW i, NEW u \in UpVal, NEW v \in UpVal, NEW H,
         OneMoved(G, c, i, u, v, H)
  PROVE  RefMoves(G, H, u, v)
<1>0. c \in Closures /\ i \in DOMAIN G[c] /\ G[c][i] = u /\ u # v /\ H = [G EXCEPT ![c][i] = v]
  BY DEF OneMoved
<1>1. DOMAIN G[c] = 1 .. Len(G[c]) /\ Len(G[c]) \in Nat
  BY <1>0
<1>2. /\ H[c] = [G[c] EXCEPT ![i] = v] /\ \A d \in Closures \ {c} : H[d] = G[d]
  BY <1>0
<1>3. DOMAIN H[c] = DOMAIN G[c] /\ H[c][i] = v /\ \A j \in DOMAIN G[c] \ {i} : H[c][j] = G[c][j]
  BY <1>0, <1>2
<1>4. ASSUME NEW w, NEW x \in Closures \X Nat, x # <<c, i>>
      PROVE  x \in Refs(H, w) <=> x \in Refs(G, w)
  <2>1. PICK d \in Closures, j \in Nat : x = <<d, j>>
    OBVIOUS
  <2>2. DOMAIN H[d] = DOMAIN G[d] /\ (j \in DOMAIN G[d] => H[d][j] = G[d][j])
    BY <1>2, <1>3, <1>4, <2>1
  <2>3. QED
    BY <2>1, <2>2 DEF Refs
<1>5. \A w : (<<c, i>> \in Refs(H, w) <=> w = v) /\ (<<c, i>> \in Refs(G, w) <=> w = u)
  BY <1>0, <1>1, <1>3 DEF Refs
<1>6. \A w : Refs(H, w) \subseteq Closures \X Nat /\ Refs(G, w) \subseteq Closures \X Nat
  BY DEF Refs
<1>7. PICK y : y = <<c, i>>
  OBVIOUS
<1>8. \A w : w # v => Refs(H, w) = Refs(G, w) \ {y}
  BY <1>4, <1>5, <1>6, <1>7
<1>9. Refs(H, v) = Refs(G, v) \cup {y} /\ y \notin Refs(G, v) /\ y \in Refs(G, u)
  BY <1>0, <1>4, <1>5, <1>6, <1>7
<1>10. \A w \in UpVal \ {v, u} : Refs(H, w) = Refs(G, w)
  <2>1. \A w : w # u => y \notin Refs(G, w)
    BY <1>5, <1>7
  <2>2. \A w \in UpVal \ {v, u} : w # v /\ w # u
    OBVIOUS
  <2>3. ASSUME NEW w \in UpVal \ {v, u} PROVE Refs(H, w) = Refs(G, w)
    <3>1. Refs(H, w) = Refs(G, w) \ {y} /\ y \notin Refs(G, w)
      BY <1>8, <2>1, <2>2
    <3>2. QED
      BY <3>1
  <2>4. QED
    BY <2>3
<1>11. Refs(H, u) = Refs(G, u) \ {y}
  BY <1>0, <1>8
<1>12. QED
  BY <1>9, <1>10, <1>11 DEF RefMoves

-----------------------------------------------------------------------------
(* Lists of open upvalues                                                    *)

Wheres == [UpVal -> {Freed, Own} \cup Slots]
LevelsOf(open, where) == {where[open[i]][2] : i \in DOMAIN open}

LEMMA OrderedIs ==
  ASSUME NEW open \in Seq(UpVal), NEW where, NEW th, NEW n, Ordered(open, where, th, n)
  PROVE  /\ Len(open) \in Nat /\ DOMAIN open = 1 .. Len(open)
         /\ \A i \in 1 .. Len(open) :
              /\ open[i] \in UpVal /\ where[open[i]] \in Slots /\ where[open[i]][1] = th
              /\ where[open[i]][2] \in 1 .. StackSize /\ where[open[i]][2] \in Nat
              /\ where[open[i]][2] <= n /\ where[open[i]] = <<th, where[open[i]][2]>>
<1>1. ASSUME NEW i \in 1 .. Len(open)
      PROVE  /\ open[i] \in UpVal /\ where[open[i]] \in Slots /\ where[open[i]][1] = th
             /\ where[open[i]][2] \in 1 .. StackSize /\ where[open[i]][2] \in Nat
             /\ where[open[i]][2] <= n /\ where[open[i]] = <<th, where[open[i]][2]>>
  <2>1. where[open[i]] \in Slots /\ where[open[i]][1] = th /\ where[open[i]][2] <= n
    BY DEF Ordered
  <2>2. where[open[i]][2] \in 1 .. StackSize /\ where[open[i]] = <<th, where[open[i]][2]>>
    BY <2>1, Places
  <2>3. where[open[i]][2] \in Nat
    BY <2>2
  <2>4. open[i] \in UpVal
    BY ElementOfSeq
  <2>5. QED
    BY <2>1, <2>2, <2>3, <2>4
<1>2. QED
  BY <1>1

\* The upvalues at or above a level are the first k of the list.
IsAbove(open, where, level, k) ==
  /\ k \in 0 .. Len(open)
  /\ \A i \in 1 .. k : where[open[i]][2] >= level
  /\ \A i \in k + 1 .. Len(open) : where[open[i]][2] < level

LEMMA AboveIs ==
  ASSUME NEW open \in Seq(UpVal), NEW where, NEW th, NEW n, Ordered(open, where, th, n),
         NEW level \in Nat
  PROVE  IsAbove(open, where, level, Above(open, where, level))
<1> DEFINE v == [i \in 1 .. Len(open) |-> where[open[i]][2]]
           P(m) == /\ \A i \in 1 .. m : where[open[i]][2] >= level
                   /\ m < Len(open) => where[open[m + 1]][2] < level
           T == {m \in 0 .. Len(open) : \A i \in 1 .. m : where[open[i]][2] >= level}
           k == Above(open, where, level)
<1>1. Len(open) \in Nat
  OBVIOUS
<1>2. \A i \in 1 .. Len(open) : where[open[i]][2] \in Nat
  BY OrderedIs
<1>3. 0 \in T
  BY <1>1
<1>4. PICK m \in T : \A i \in T : i <= m
  BY <1>1, <1>3, Greatest
<1>5. m \in 0 .. Len(open) /\ \A i \in 1 .. m : where[open[i]][2] >= level
  OBVIOUS
<1>6. ASSUME m < Len(open) PROVE where[open[m + 1]][2] < level
  <2>1. m + 1 \in 0 .. Len(open) /\ m + 1 \in 1 .. Len(open) /\ ~ (m + 1 <= m)
    BY <1>1, <1>5, <1>6
  <2>2. m + 1 \notin T
    BY <1>4, <2>1
  <2>3. PICK i \in 1 .. m + 1 : ~ (where[open[i]][2] >= level)
    BY <2>1, <2>2
  <2>4. i = m + 1
    BY <1>5, <2>3
  <2>5. QED
    BY <1>2, <2>1, <2>3, <2>4
<1>7. P(m)
  BY <1>5, <1>6
<1>8. k = CHOOSE x \in 0 .. Len(open) : P(x)
  BY DEF Above
<1> HIDE DEF P, T, k
<1>9. k \in 0 .. Len(open) /\ P(k)
  BY <1>5, <1>7, <1>8
<1>10. ASSUME NEW i \in k + 1 .. Len(open) PROVE where[open[i]][2] < level
  <2>1. k < Len(open) /\ k + 1 \in 1 .. Len(open) /\ i \in 1 .. Len(open) /\ (i = k + 1 \/ k + 1 < i)
    BY <1>1, <1>9
  <2>2. where[open[k + 1]][2] < level
    BY <1>9, <2>1 DEF P
  <2>3. k + 1 < i => where[open[i]][2] < where[open[k + 1]][2]
    BY <2>1 DEF Ordered
  <2>4. QED
    BY <1>2, <2>1, <2>2, <2>3
<1>11. \A i \in 1 .. k : where[open[i]][2] >= level
  BY <1>9 DEF P
<1>12. IsAbove(open, where, level, k)
  BY <1>9, <1>10, <1>11 DEF IsAbove
<1>13. QED
  BY <1>12 DEF k

\* What is left of a list when its first k elements are taken.
IsRest(s, k, r) ==
  r \in Seq(UpVal) /\ Len(r) = Len(s) - k /\ \A i \in 1 .. Len(r) : r[i] = s[k + i]

LEMMA RestIs ==
  ASSUME NEW s \in Seq(UpVal), NEW k \in 0 .. Len(s)
  PROVE  IsRest(s, k, SubSeq(s, k + 1, Len(s)))
<1> DEFINE r == SubSeq(s, k + 1, Len(s))
<1>1. Len(s) \in Nat /\ k \in Nat /\ k <= Len(s)
  OBVIOUS
<1>2. \A i \in k + 1 .. Len(s) : s[i] \in UpVal
  BY <1>1, ElementOfSeq
<1>3. r \in Seq(UpVal) /\ Len(r) = Len(s) - k /\ \A i \in 1 .. Len(r) : r[i] = s[k + i]
  BY <1>1, <1>2, SubSeqProperties
<1>4. QED
  BY <1>3 DEF IsRest

LEMMA LowerIs ==
  ASSUME NEW open \in Seq(UpVal), NEW where, NEW th, NEW n, Ordered(open, where, th, n),
         NEW level \in Nat, NEW k, IsAbove(open, where, level, k), NEW rest, IsRest(open, k, rest)
  PROVE  /\ Ordered(rest, where, th, level - 1)
         /\ \A i \in 1 .. k : \A j \in 1 .. Len(rest) : open[i] # rest[j]
<1>1. /\ k \in 0 .. Len(open) /\ Len(open) \in Nat
      /\ \A i \in 1 .. k : where[open[i]][2] >= level
      /\ \A i \in k + 1 .. Len(open) : where[open[i]][2] < level
  BY DEF IsAbove
<1>3. /\ rest \in Seq(UpVal) /\ Len(rest) = Len(open) - k
      /\ \A i \in 1 .. Len(rest) : rest[i] = open[k + i]
  BY DEF IsRest
<1>4. \A i \in 1 .. Len(rest) : k + i \in k + 1 .. Len(open) /\ k + i \in 1 .. Len(open)
  BY <1>1, <1>3
<1>5. \A i \in 1 .. Len(open) : /\ where[open[i]] \in Slots /\ where[open[i]][1] = th
                                /\ where[open[i]][2] \in Nat
  BY OrderedIs
<1>6. \A i \in 1 .. Len(rest) : /\ where[rest[i]] \in Slots /\ where[rest[i]][1] = th
                                /\ where[rest[i]][2] < level /\ where[rest[i]][2] \in Nat
  <2>1. SUFFICES ASSUME NEW i \in 1 .. Len(rest)
                 PROVE  /\ where[rest[i]] \in Slots /\ where[rest[i]][1] = th
                        /\ where[rest[i]][2] < level /\ where[rest[i]][2] \in Nat
    OBVIOUS
  <2>2. PICK m \in 1 .. Len(open) : m = k + i /\ m \in k + 1 .. Len(open)
    BY <1>4
  <2>3. rest[i] = open[m]
    BY <1>3, <2>2
  <2>4. QED
    BY <1>1, <1>5, <2>2, <2>3
<1>7. ASSUME NEW i \in 1 .. Len(rest), NEW j \in 1 .. Len(rest), i < j
      PROVE  where[rest[j]][2] < where[rest[i]][2]
  <2>1. k + i < k + j
    BY <1>1, <1>7
  <2>2. where[open[k + j]][2] < where[open[k + i]][2]
    BY <1>4, <2>1 DEF Ordered
  <2>3. QED
    BY <1>3, <2>2
<1>8. Ordered(rest, where, th, level - 1)
  <2>1. ASSUME NEW i \in 1 .. Len(rest) PROVE where[rest[i]][2] <= level - 1
    <3>1. where[rest[i]][2] < level /\ where[rest[i]][2] \in Nat
      BY <1>6
    <3>2. PICK x \in Nat : x = where[rest[i]][2]
      BY <3>1
    <3>3. x <= level - 1
      BY <3>1, <3>2
    <3>4. QED
      BY <3>2, <3>3
  <2>2. QED
    BY <1>6, <1>7, <2>1 DEF Ordered
<1>9. ASSUME NEW i \in 1 .. k, NEW j \in 1 .. Len(rest) PROVE open[i] # rest[j]
  <2>1. where[open[i]][2] >= level /\ where[rest[j]][2] < level
    BY <1>1, <1>6
  <2>2. where[rest[j]][2] \in Nat
    BY <1>6
  <2>3. PICK x \in Nat : x = where[rest[j]][2]
    BY <2>2
  <2>4. ~ (x >= level)
    BY <2>1, <2>3
  <2>5. QED
    BY <2>1, <2>3, <2>4
<1>10. QED
  BY <1>8, <1>9

-----------------------------------------------------------------------------
(* luaF_findupval                                                            *)

LEMMA Least ==
  ASSUME NEW T \in SUBSET Nat, T # {}
  PROVE  Min(T) \in T
<1>1. PICK x \in T : \A y \in T : ~ (<<y, x>> \in OpToRel(<, Nat))
  BY NatLessThanWellFounded, WFMin
<1>2. \A y \in T : ~ (y < x)
  BY <1>1 DEF OpToRel
<1>3. \A y \in T : x =< y
  BY <1>2
<1>4. QED
  BY <1>3 DEF Min

\* The list of thread th, which has n slots, while upvalues are looked for.
Listing(s, th, n) ==
  /\ s.open \in Seq(UpVal) /\ s.at \in Wheres /\ s.found \in Seq(UpVal)
  /\ Ordered(s.open, s.at, th, n) /\ Complete(s.open, s.at, th)

\* t is s after upvalue u was found, which is there already,
FoundOld(s, t, u) == /\ t.open = s.open /\ t.at = s.at /\ s.at[u] # Freed
                     /\ t.found = Append(s.found, u)
\* or is new.
FoundNew(s, t, u, th, level) ==
  /\ s.at[u] = Freed /\ t.at = [s.at EXCEPT ![u] = <<th, level>>]
  /\ t.found = Append(s.found, u)
  /\ level \notin LevelsOf(s.open, s.at)
  /\ LevelsOf(t.open, t.at) = LevelsOf(s.open, s.at) \cup {level}

\* Sequence t is s with u after its first k elements.
IsInserted(s, k, u, t) ==
  /\ t \in Seq(UpVal) /\ Len(t) = Len(s) + 1 /\ t[k + 1] = u
  /\ \A i \in 1 .. k : t[i] = s[i]
  /\ \A i \in k + 1 .. Len(s) : t[i + 1] = s[i]

LEMMA InsertedIs ==
  ASSUME NEW s \in Seq(UpVal), NEW u \in UpVal, NEW k \in 0 .. Len(s)
  PROVE  IsInserted(s, k, u, InsertAt(s, k + 1, u))
<1> DEFINE a == SubSeq(s, 1, k)
           b == SubSeq(s, k + 1, Len(s))
           t == InsertAt(s, k + 1, u)
<1>1. Len(s) \in Nat /\ k \in Nat /\ k <= Len(s)
  OBVIOUS
<1>2. a \in Seq(UpVal) /\ Len(a) = k /\ \A i \in 1 .. k : a[i] = s[i]
  <2>1. \A i \in 1 .. k : s[i] \in UpVal
    BY <1>1, ElementOfSeq
  <2>2. QED
    BY <1>1, <2>1, SubSeqProperties
<1>3. b \in Seq(UpVal) /\ Len(b) = Len(s) - k /\ \A i \in 1 .. Len(s) - k : b[i] = s[k + i]
  <2>1. \A i \in k + 1 .. Len(s) : s[i] \in UpVal
    BY <1>1, ElementOfSeq
  <2>2. QED
    BY <1>1, <2>1, SubSeqProperties
<1>4. <<u>> \in Seq(UpVal) /\ Len(<<u>>) = 1 /\ <<u>>[1] = u
  OBVIOUS
<1>5. t = (a \o <<u>>) \o b
  <2>1. t = (SubSeq(s, 1, (k + 1) - 1) \o <<u>>) \o SubSeq(s, k + 1, Len(s))
    BY DEF InsertAt
  <2>2. (k + 1) - 1 = k
    BY <1>1
  <2>3. QED
    BY <2>1, <2>2
<1> DEFINE c == a \o <<u>>
<1> HIDE DEF a, b, t
<1>6. /\ c \in Seq(UpVal) /\ Len(c) = k + 1 /\ c[k + 1] = u
      /\ \A i \in 1 .. k : c[i] = s[i]
  BY <1>1, <1>2, <1>4, ConcatProperties
<1> HIDE DEF c
<1>7. t = c \o b
  BY <1>5 DEF c
<1>8. /\ t \in Seq(UpVal) /\ Len(t) = Len(c) + Len(b)
      /\ \A i \in 1 .. Len(c) + Len(b) : t[i] = IF i <= Len(c) THEN c[i] ELSE b[i - Len(c)]
  BY <1>3, <1>6, <1>7, ConcatProperties
<1>9. Len(t) = Len(s) + 1 /\ t[k + 1] = u /\ \A i \in 1 .. k : t[i] = s[i]
  <2>1. Len(t) = Len(s) + 1 /\ Len(c) + Len(b) = Len(s) + 1
    BY <1>1, <1>3, <1>6, <1>8
  <2>2. k + 1 \in 1 .. Len(c) + Len(b) /\ k + 1 <= Len(c)
    BY <1>1, <1>6, <2>1
  <2>3. t[k + 1] = u
    BY <1>6, <1>8, <2>2
  <2>4. \A i \in 1 .. k : i \in 1 .. Len(c) + Len(b) /\ i <= Len(c)
    BY <1>1, <1>6, <2>1
  <2>5. \A i \in 1 .. k : t[i] = s[i]
    BY <1>6, <1>8, <2>4
  <2>6. QED
    BY <2>1, <2>3, <2>5
<1>10. ASSUME NEW i \in k + 1 .. Len(s) PROVE t[i + 1] = s[i]
  <2>1. i + 1 \in 1 .. Len(c) + Len(b) /\ ~ (i + 1 <= Len(c)) /\ (i + 1) - Len(c) = i - k
        /\ i - k \in 1 .. Len(s) - k /\ k + (i - k) = i
    BY <1>1, <1>3, <1>6
  <2>2. t[i + 1] = b[i - k]
    BY <1>8, <2>1
  <2>3. QED
    BY <1>3, <2>1, <2>2
<1>11. QED
  <2>1. \A i \in k + 1 .. Len(s) : t[i + 1] = s[i]
    BY <1>10
  <2>2. IsInserted(s, k, u, t)
    BY <1>8, <1>9, <2>1 DEF IsInserted
  <2>3. QED
    BY <2>2 DEF t

\* A new upvalue u of slot 'level' put between those above and those below that.
PutIn(old, from, open, where, th, level, k, u) ==
  /\ k \in 0 .. Len(old)
  /\ \A i \in 1 .. k : from[old[i]][2] > level
  /\ \A i \in k + 1 .. Len(old) : from[old[i]][2] < level
  /\ u \in UpVal /\ from[u] = Freed
  /\ IsInserted(old, k, u, open)
  /\ where[u] = <<th, level>> /\ \A w \in UpVal \ {u} : where[w] = from[w]

LEMMA InsertedOrdered ==
  ASSUME NEW old \in Seq(UpVal), NEW from \in Wheres, NEW th \in Threads, NEW n \in 1 .. StackSize,
         Ordered(old, from, th, n), Complete(old, from, th), NEW level \in 1 .. n,
         NEW k, NEW u, NEW open \in Seq(UpVal), NEW where \in Wheres,
         PutIn(old, from, open, where, th, level, k, u)
  PROVE  /\ Ordered(open, where, th, n) /\ Complete(open, where, th)
         /\ level \notin LevelsOf(old, from)
         /\ LevelsOf(open, where) = LevelsOf(old, from) \cup {level}
<1>20. /\ k \in 0 .. Len(old) /\ u \in UpVal /\ from[u] = Freed
       /\ \A i \in 1 .. k : from[old[i]][2] > level
       /\ \A i \in k + 1 .. Len(old) : from[old[i]][2] < level
  BY DEF PutIn
<1>1. Len(old) \in Nat /\ DOMAIN old = 1 .. Len(old) /\ k \in 0 .. Len(old) /\ k \in Nat /\ k <= Len(old)
  BY <1>20
<1>2. /\ open \in Seq(UpVal) /\ Len(open) = Len(old) + 1 /\ open[k + 1] = u
      /\ \A i \in 1 .. k : open[i] = old[i]
      /\ \A i \in k + 1 .. Len(old) : open[i + 1] = old[i]
  BY DEF IsInserted, PutIn
<1>3. level \in 1 .. StackSize /\ n \in Nat /\ level \in Nat /\ level <= n
  BY Kinds
<1>4. <<th, level>> \in Slots /\ <<th, level>>[1] = th /\ <<th, level>>[2] = level
  BY <1>3, Places
<1>5. where[u] = <<th, level>> /\ \A w \in UpVal \ {u} : where[w] = from[w]
  BY DEF PutIn
<1>6. \A i \in 1 .. Len(old) : /\ old[i] \in UpVal /\ from[old[i]] \in Slots /\ from[old[i]][1] = th
                               /\ from[old[i]][2] \in Nat /\ from[old[i]][2] <= n
  BY OrderedIs
<1>7. \A i \in 1 .. Len(old) : old[i] # u /\ where[old[i]] = from[old[i]]
  BY <1>5, <1>6, <1>20, Places
\* Element i of the new list: the new upvalue or an old one, index of it.
<1> DEFINE was(i) == IF i <= k THEN i ELSE i - 1
<1>8. ASSUME NEW i \in 1 .. Len(open), i # k + 1
      PROVE  was(i) \in 1 .. Len(old) /\ open[i] = old[was(i)] /\ (was(i) <= k <=> i <= k)
  <2>1. CASE i <= k
    BY <1>1, <1>2, <2>1
  <2>2. CASE ~ (i <= k)
    <3>1. i - 1 \in k + 1 .. Len(old) /\ (i - 1) + 1 = i
      BY <1>1, <1>2, <1>8, <2>2
    <3>2. open[i] = old[i - 1]
      BY <1>2, <3>1
    <3>3. QED
      BY <1>1, <2>2, <3>1, <3>2
  <2>3. QED
    BY <2>1, <2>2
<1>9. ASSUME NEW i \in 1 .. Len(open), i # k + 1
      PROVE  /\ where[open[i]] = from[old[was(i)]] /\ where[open[i]] \in Slots
             /\ where[open[i]][1] = th /\ where[open[i]][2] <= n /\ where[open[i]][2] \in Nat
             /\ IF i <= k THEN where[open[i]][2] > level ELSE where[open[i]][2] < level
  <2>1. was(i) \in 1 .. Len(old) /\ open[i] = old[was(i)] /\ (was(i) <= k <=> i <= k)
    BY <1>8, <1>9
  <2> HIDE DEF was
  <2>2. where[open[i]] = from[old[was(i)]]
    BY <1>7, <2>1
  <2>3. was(i) \in 1 .. k \/ was(i) \in k + 1 .. Len(old)
    BY <1>1, <2>1
  <2>4. CASE was(i) \in 1 .. k
    <3>1. i <= k /\ from[old[was(i)]][2] > level
      BY <1>1, <1>20, <2>1, <2>4
    <3>2. QED
      BY <1>6, <2>1, <2>2, <3>1
  <2>5. CASE was(i) \in k + 1 .. Len(old)
    <3>1. ~ (i <= k) /\ from[old[was(i)]][2] < level
      BY <1>1, <1>20, <2>1, <2>5
    <3>2. QED
      BY <1>6, <2>1, <2>2, <3>1
  <2>6. QED
    BY <2>3, <2>4, <2>5
<1>10. where[open[k + 1]] = <<th, level>>
  BY <1>2, <1>5
<1>11. \A i \in 1 .. Len(open) :
         /\ where[open[i]] \in Slots /\ where[open[i]][1] = th /\ where[open[i]][2] <= n
         /\ where[open[i]][2] \in Nat
  <2>1. where[open[k + 1]] \in Slots /\ where[open[k + 1]][1] = th
        /\ where[open[k + 1]][2] <= n /\ where[open[k + 1]][2] \in Nat
    BY <1>3, <1>4, <1>10
  <2>2. QED
    BY <1>9, <2>1
<1>12. ASSUME NEW i \in 1 .. Len(open), NEW j \in 1 .. Len(open), i < j
       PROVE  where[open[j]][2] < where[open[i]][2]
  <2>1. CASE i = k + 1
    <3>1. j # k + 1 /\ ~ (j <= k)
      BY <1>1, <1>12, <2>1
    <3>2. QED
      BY <1>4, <1>9, <1>10, <2>1, <3>1
  <2>2. CASE j = k + 1
    <3>1. i # k + 1 /\ i <= k
      BY <1>1, <1>12, <2>2
    <3>2. QED
      <4>1. where[open[j]][2] = level /\ where[open[i]][2] > level /\ where[open[i]][2] \in Nat
        BY <1>4, <1>9, <1>10, <2>2, <3>1
      <4>2. QED
        BY <1>3, <4>1
  <2>3. CASE i # k + 1 /\ j # k + 1
    <3>1. was(i) \in 1 .. Len(old) /\ was(j) \in 1 .. Len(old)
      BY <1>8, <2>3
    <3>2. was(i) < was(j)
      BY <1>1, <1>12, <2>3
    <3>3. from[old[was(j)]][2] < from[old[was(i)]][2]
      <4> HIDE DEF was
      <4>1. QED
        BY <3>1, <3>2 DEF Ordered
    <3>4. QED
      BY <1>9, <2>3, <3>3
  <2>4. QED
    BY <2>1, <2>2, <2>3
<1>13. Ordered(open, where, th, n)
  BY <1>11, <1>12 DEF Ordered
<1>14. \A i \in 1 .. Len(old) : \E j \in 1 .. Len(open) : open[j] = old[i]
  <2>1. SUFFICES ASSUME NEW i \in 1 .. Len(old) PROVE \E j \in 1 .. Len(open) : open[j] = old[i]
    OBVIOUS
  <2>2. CASE i <= k
    <3>1. i \in 1 .. k /\ i \in 1 .. Len(open)
      BY <1>1, <1>2, <2>2
    <3>2. QED
      BY <1>2, <3>1
  <2>3. CASE ~ (i <= k)
    <3>1. i \in k + 1 .. Len(old) /\ i + 1 \in 1 .. Len(open)
      BY <1>1, <1>2, <2>3
    <3>2. QED
      BY <1>2, <3>1
  <2>4. QED
    BY <2>2, <2>3
<1>15. k + 1 \in 1 .. Len(open)
  BY <1>1, <1>2
<1>16. Complete(open, where, th)
  <2>1. SUFFICES ASSUME NEW w \in UpVal, where[w] \in Slots, where[w][1] = th
                 PROVE  \E i \in 1 .. Len(open) : open[i] = w
    BY DEF Complete
  <2>2. CASE w = u
    BY <1>2, <1>15, <2>2
  <2>3. CASE w # u
    <3>1. from[w] \in Slots /\ from[w][1] = th
      BY <1>5, <2>1, <2>3
    <3>2. \E i \in 1 .. Len(old) : old[i] = w
      BY <3>1 DEF Complete
    <3>3. QED
      BY <1>14, <3>2
  <2>4. QED
    BY <2>2, <2>3
<1>17. level \notin LevelsOf(old, from)
  <2>1. ASSUME NEW i \in 1 .. Len(old) PROVE from[old[i]][2] # level
    <3>1. PICK x \in Nat : x = from[old[i]][2]
      BY <1>6
    <3>2. i \in 1 .. k => x > level
      BY <1>20, <3>1
    <3>3. i \in k + 1 .. Len(old) => x < level
      BY <1>20, <3>1
    <3>4. i \in 1 .. k \/ i \in k + 1 .. Len(old)
      BY <1>1
    <3>5. x # level
      BY <1>3, <3>2, <3>3, <3>4
    <3>6. QED
      BY <3>1, <3>5
  <2>2. DOMAIN old = 1 .. Len(old)
    BY <1>1
  <2>3. QED
    BY <2>1, <2>2 DEF LevelsOf
<1>18. LevelsOf(open, where) = LevelsOf(old, from) \cup {level}
  <2>1. DOMAIN old = 1 .. Len(old) /\ DOMAIN open = 1 .. Len(open)
    BY <1>1, <1>2
  <2>2. ASSUME NEW x \in LevelsOf(open, where) PROVE x \in LevelsOf(old, from) \cup {level}
    <3>1. PICK i \in 1 .. Len(open) : x = where[open[i]][2]
      BY <2>1 DEF LevelsOf
    <3>2. CASE i = k + 1
      BY <1>4, <1>10, <3>1, <3>2
    <3>3. CASE i # k + 1
      <4>1. was(i) \in 1 .. Len(old) /\ x = from[old[was(i)]][2]
        BY <1>8, <1>9, <3>1, <3>3
      <4> HIDE DEF was
      <4>2. QED
        BY <2>1, <4>1 DEF LevelsOf
    <3>4. QED
      BY <3>2, <3>3
  <2>3. ASSUME NEW x \in LevelsOf(old, from) PROVE x \in LevelsOf(open, where)
    <3>1. PICK i \in 1 .. Len(old) : x = from[old[i]][2]
      BY <2>1 DEF LevelsOf
    <3>2. PICK j \in 1 .. Len(open) : open[j] = old[i]
      BY <1>14
    <3>3. where[open[j]][2] = x
      BY <1>7, <3>1, <3>2
    <3>4. QED
      BY <2>1, <3>3 DEF LevelsOf
  <2>4. level \in LevelsOf(open, where)
    BY <1>4, <1>10, <1>15, <2>1 DEF LevelsOf
  <2>5. QED
    BY <2>2, <2>3, <2>4
<1>19. QED
  BY <1>2, <1>5, <1>13, <1>16, <1>17, <1>18

LEMMA FindIn ==
  ASSUME NEW old \in Seq(UpVal), NEW from \in Wheres, NEW th \in Threads, NEW n \in 1 .. StackSize,
         Ordered(old, from, th, n), Complete(old, from, th), NEW level \in 1 .. n,
         NEW k, IsAbove(old, from, level, k)
  PROVE  IF k > 0 /\ from[old[k]][2] = level
         THEN old[k] \in UpVal /\ from[old[k]] = <<th, level>> /\ from[old[k]] # Freed
         ELSE /\ level \notin LevelsOf(old, from)
              /\ \A i \in 1 .. k : from[old[i]][2] > level
<1>1. /\ k \in 0 .. Len(old) /\ Len(old) \in Nat /\ DOMAIN old = 1 .. Len(old)
      /\ \A i \in 1 .. k : from[old[i]][2] >= level
      /\ \A i \in k + 1 .. Len(old) : from[old[i]][2] < level
  BY DEF IsAbove
<1>2. \A i \in 1 .. Len(old) : /\ old[i] \in UpVal /\ from[old[i]] \in Slots
                               /\ from[old[i]][2] \in Nat /\ from[old[i]] = <<th, from[old[i]][2]>>
  BY OrderedIs
<1>3. level \in Nat
  BY Kinds
<1>4. CASE k > 0 /\ from[old[k]][2] = level
  <2>1. k \in 1 .. Len(old)
    BY <1>1, <1>4
  <2>2. old[k] \in UpVal /\ from[old[k]] \in Slots /\ from[old[k]] = <<th, level>>
    BY <1>2, <1>4, <2>1
  <2>3. from[old[k]] # Freed
    BY <2>2, Places
  <2>4. QED
    BY <1>4, <2>2, <2>3
<1>5. CASE ~ (k > 0 /\ from[old[k]][2] = level)
  <2>1. ASSUME NEW i \in 1 .. k PROVE from[old[i]][2] > level
    <3>1. k \in 1 .. Len(old) /\ i \in 1 .. Len(old) /\ k \in 1 .. k /\ k > 0
      BY <1>1
    <3>2. from[old[k]][2] # level /\ from[old[k]][2] >= level
      BY <1>1, <1>5, <3>1
    <3>3. from[old[k]][2] \in Nat /\ from[old[i]][2] \in Nat
      BY <1>2, <3>1
    <3>4. CASE i = k
      BY <1>3, <3>2, <3>3, <3>4
    <3>5. CASE i < k
      <4>1. from[old[k]][2] < from[old[i]][2]
        BY <3>1, <3>5 DEF Ordered
      <4>2. QED
        BY <1>3, <3>2, <3>3, <4>1
    <3>6. QED
      BY <1>1, <3>4, <3>5
  <2>2. level \notin LevelsOf(old, from)
    <3>1. ASSUME NEW i \in 1 .. Len(old) PROVE from[old[i]][2] # level
      <4>1. from[old[i]][2] \in Nat
        BY <1>2
      <4>2. CASE i \in 1 .. k
        BY <1>3, <2>1, <4>1, <4>2
      <4>3. CASE i \in k + 1 .. Len(old)
        BY <1>1, <1>3, <4>1, <4>3
      <4>4. QED
        BY <1>1, <4>2, <4>3
    <3>2. QED
      BY <1>1, <3>1 DEF LevelsOf
  <2>3. QED
    BY <1>5, <2>1, <2>2
<1>6. QED
  BY <1>4, <1>5

LEMMA Findupval ==
  ASSUME NEW s, NEW th \in Threads, NEW n \in 1 .. StackSize, Listing(s, th, n),
         NEW level \in 1 .. n,
         level \in LevelsOf(s.open, s.at) \/ \E x \in UpVal : s.at[x] = Freed,
         NEW t, t = luaF_findupval(s, th, level)
  PROVE  /\ Listing(t, th, n)
         /\ \E u \in UpVal : /\ t.at[u] = <<th, level>>
                             /\ FoundOld(s, t, u) \/ FoundNew(s, t, u, th, level)
<1>1. PICK old \in Seq(UpVal), from \in Wheres, found \in Seq(UpVal) :
        /\ old = s.open /\ from = s.at /\ found = s.found
        /\ Ordered(old, from, th, n) /\ Complete(old, from, th)
  BY DEF Listing
<1>2. level \in Nat /\ level \in 1 .. StackSize
  BY Kinds
<1>3. PICK k : k = Above(old, from, level) /\ IsAbove(old, from, level, k)
  BY <1>1, <1>2, AboveIs
<1> DEFINE hit == k > 0 /\ from[old[k]][2] = level
           u == IF hit THEN old[k] ELSE Min({x \in UpVal : from[x] = Freed})
<1>4. /\ t.open = IF hit THEN old ELSE InsertAt(old, k + 1, u)
      /\ t.at = [from EXCEPT ![u] = <<th, level>>] /\ t.found = Append(found, u)
  BY <1>1, <1>3 DEF luaF_findupval
<1>8. Ordered(old, from, th, n) /\ Complete(old, from, th)
  BY <1>1
<1>9. IsAbove(old, from, level, k)
  BY <1>3
<1>5. CASE hit
  <2>1. old[k] \in UpVal /\ from[old[k]] = <<th, level>> /\ from[old[k]] # Freed
    BY <1>8, <1>9, <1>5, FindIn
  <2>2. u \in UpVal /\ u = old[k]
    BY <1>5, <2>1
  <2> HIDE DEF u
  <2>3. t.open = old /\ t.at = from
    BY <1>4, <1>5, <2>1, <2>2 DEF Wheres
  <2>4. t.found = Append(found, u) /\ t.found \in Seq(UpVal)
    BY <1>4, <2>2
  <2>5. Listing(t, th, n)
    BY <1>1, <2>3, <2>4 DEF Listing
  <2>6. t.at[u] = <<th, level>> /\ FoundOld(s, t, u)
    BY <1>1, <2>1, <2>2, <2>3, <2>4 DEF FoundOld
  <2>7. QED
    BY <2>2, <2>5, <2>6
<1>6. CASE ~ hit
  <2>1. level \notin LevelsOf(old, from) /\ \A i \in 1 .. k : from[old[i]][2] > level
    BY <1>8, <1>9, <1>6, FindIn
  <2> DEFINE F == {x \in UpVal : from[x] = Freed}
  <2>2. F \subseteq Nat /\ F # {}
    BY <1>1, <2>1 DEF UpVal
  <2>3. u = Min(F)
    BY <1>6
  <2>4. u \in UpVal /\ from[u] = Freed
    BY <2>2, <2>3, Least
  <2> HIDE DEF u, F
  <2>5. k \in 0 .. Len(old) /\ k \in Nat /\ k <= Len(old) /\ \A i \in k + 1 .. Len(old) : from[old[i]][2] < level
    BY <1>3 DEF IsAbove
  <2>6. PICK open : open = t.open /\ IsInserted(old, k, u, open)
    BY <1>4, <1>6, <2>4, <2>5, InsertedIs
  <2>7. open \in Seq(UpVal)
    BY <2>6 DEF IsInserted
  <2>8. <<th, level>> \in Slots
    BY <1>2, Places
  <2>9. PICK where \in Wheres : /\ where = t.at /\ where[u] = <<th, level>>
                               /\ \A w \in UpVal \ {u} : where[w] = from[w]
    BY <1>4, <2>4, <2>8 DEF Wheres
  <2>10. /\ Ordered(open, where, th, n) /\ Complete(open, where, th)
         /\ LevelsOf(open, where) = LevelsOf(old, from) \cup {level}
    <3>1. PutIn(old, from, open, where, th, level, k, u)
      BY <2>1, <2>4, <2>5, <2>6, <2>9 DEF PutIn
    <3>2. QED
      BY <1>8, <2>7, <3>1, InsertedOrdered
  <2>11. t.found = Append(found, u) /\ t.found \in Seq(UpVal)
    BY <1>4, <2>4
  <2>12. Listing(t, th, n)
    BY <2>6, <2>7, <2>9, <2>10, <2>11 DEF Listing
  <2>13. FoundNew(s, t, u, th, level)
    BY <1>1, <1>4, <2>1, <2>4, <2>6, <2>9, <2>10, <2>11 DEF FoundNew
  <2>14. QED
    BY <2>4, <2>9, <2>12, <2>13
<1>7. QED
  BY <1>5, <1>6

-----------------------------------------------------------------------------
(* The upvalues of a new closure                                             *)

\* Upvalue u is the variable that d names.
Names(where, u, d, enc, base) ==
  IF d.instack THEN where[u] = <<L, base + d.idx>> ELSE u = enc[d.idx]

\* The slots that the upvalues after the first k of prototype p name.
ToCome(p, base, k) ==
  {base + Desc[p][j].idx : j \in {i \in DOMAIN Desc[p] : i > k /\ Desc[p][i].instack}}
FreeIn(where) == {u \in UpVal : where[u] = Freed}

\* The first k upvalues of a closure of p were found: the list is in order, no
\* upvalue in use has changed, and there is room for the others.
Enough(s, p, base, k) ==
  Cardinality(ToCome(p, base, k) \ LevelsOf(s.open, s.at)) <= Cardinality(FreeIn(s.at))
Kept(where) ==
  \A u \in UpVal : /\ at[u] # Freed => where[u] = at[u]
                   /\ (at[u] = Freed /\ where[u] # Freed) => where[u] \in Slots /\ where[u][1] = L
AllNamed(s, p, enc, base, k) ==
  /\ Len(s.found) = k
  /\ \A i \in 1 .. k : /\ s.at[s.found[i]] # Freed
                       /\ Names(s.at, s.found[i], Desc[p][i], enc, base)
Taking(s, p, enc, base, k) ==
  /\ s \in [open : Seq(UpVal), at : Wheres, found : Seq(UpVal)]
  /\ Listing(s, L, Len(stack[L])) /\ Kept(s.at)
  /\ AllNamed(s, p, enc, base, k) /\ Enough(s, p, base, k)

LEMMA FreeFinite ==
  ASSUME NEW where
  PROVE  IsFiniteSet(FreeIn(where)) /\ Cardinality(FreeIn(where)) \in Nat
<1>1. IsFiniteSet(UpVal)
  BY Kinds, FS_Interval DEF UpVal
<1>2. FreeIn(where) \subseteq UpVal
  BY DEF FreeIn
<1>3. QED
  BY <1>1, <1>2, FS_Subset, FS_CardinalityType

LEMMA DescIs ==
  ASSUME NEW p \in Protos
  PROVE  /\ Len(Desc[p]) \in Nat /\ DOMAIN Desc[p] = 1 .. Len(Desc[p])
         /\ \A i \in 1 .. Len(Desc[p]) : Desc[p][i].instack \in BOOLEAN /\ Desc[p][i].idx \in 1 .. StackSize
<1>1. Desc[p] \in Seq([instack : BOOLEAN, idx : 1 .. StackSize])
  BY UpvalAssumption
<1>2. \A i \in 1 .. Len(Desc[p]) : Desc[p][i] \in [instack : BOOLEAN, idx : 1 .. StackSize]
  BY <1>1, ElementOfSeq
<1>3. QED
  BY <1>1, <1>2

LEMMA ToComeFinite ==
  ASSUME NEW p \in Protos, NEW base \in Nat, NEW k
  PROVE  IsFiniteSet(ToCome(p, base, k))
<1>1. ToCome(p, base, k) \subseteq 0 .. base + StackSize
  BY DescIs, Kinds DEF ToCome
<1>2. IsFiniteSet(0 .. base + StackSize)
  BY Kinds, FS_Interval
<1>3. QED
  BY <1>1, <1>2, FS_Subset

LEMMA Smaller ==
  ASSUME NEW S, IsFiniteSet(S), NEW T, T \subseteq S
  PROVE  /\ IsFiniteSet(T) /\ Cardinality(T) \in Nat /\ Cardinality(S) \in Nat
         /\ Cardinality(T) <= Cardinality(S)
BY FS_Subset, FS_CardinalityType

LEMMA OneFewer ==
  ASSUME NEW S, IsFiniteSet(S), NEW x \in S
  PROVE  /\ IsFiniteSet(S \ {x}) /\ Cardinality(S \ {x}) = Cardinality(S) - 1
         /\ Cardinality(S) \in Nat \ {0}
<1>1. IsFiniteSet(S \ {x}) /\ Cardinality(S \ {x}) = Cardinality(S) - 1
  BY FS_RemoveElement
<1>2. Cardinality(S) \in Nat /\ Cardinality(S \ {x}) \in Nat
  BY <1>1, FS_CardinalityType
<1>3. QED
  BY <1>1, <1>2

\* There is room for the next upvalue.
LEMMA RoomForOne ==
  ASSUME NEW s, NEW p \in Protos, NEW base \in Nat, NEW k \in Nat, Enough(s, p, base, k),
         NEW level \in ToCome(p, base, k)
  PROVE  level \in LevelsOf(s.open, s.at) \/ \E x \in UpVal : s.at[x] = Freed
<1> SUFFICES ASSUME level \notin LevelsOf(s.open, s.at), \A x \in UpVal : s.at[x] # Freed
             PROVE  FALSE
  OBVIOUS
<1> DEFINE S == ToCome(p, base, k) \ LevelsOf(s.open, s.at)
<1>1. IsFiniteSet(S)
  BY ToComeFinite, Smaller
<1>2. Cardinality(S) \in Nat \ {0}
  BY <1>1, OneFewer
<1>3. FreeIn(s.at) = {}
  BY DEF FreeIn
<1>4. Cardinality(FreeIn(s.at)) = 0
  BY <1>3, FS_EmptySet
<1>5. Cardinality(S) <= 0
  BY <1>4 DEF Enough
<1>6. QED
  BY <1>2, <1>5

LEMMA EnoughOld ==
  ASSUME NEW s, NEW t, NEW p \in Protos, NEW base \in Nat, NEW k \in Nat, Enough(s, p, base, k),
         t.open = s.open, t.at = s.at
  PROVE  Enough(t, p, base, k + 1)
<1> DEFINE S == ToCome(p, base, k) \ LevelsOf(s.open, s.at)
           T == ToCome(p, base, k + 1) \ LevelsOf(s.open, s.at)
<1>1. ToCome(p, base, k + 1) \subseteq ToCome(p, base, k)
  BY DescIs DEF ToCome
<1>2. IsFiniteSet(S) /\ T \subseteq S
  BY <1>1, ToComeFinite, Smaller
<1>3. Cardinality(T) <= Cardinality(S) /\ Cardinality(T) \in Nat /\ Cardinality(S) \in Nat
  BY <1>2, Smaller
<1>4. Cardinality(S) <= Cardinality(FreeIn(s.at))
  BY DEF Enough
<1>5. Cardinality(FreeIn(s.at)) \in Nat
  BY FreeFinite
<1>6. Cardinality(T) <= Cardinality(FreeIn(s.at))
  BY <1>3, <1>4, <1>5
<1>7. QED
  BY <1>6 DEF Enough

LEMMA EnoughNew ==
  ASSUME NEW s, NEW t, NEW p \in Protos, NEW base \in Nat, NEW k \in Nat, Enough(s, p, base, k),
         NEW u \in UpVal, NEW level \in ToCome(p, base, k), s.at \in Wheres,
         FoundNew(s, t, u, L, level), <<L, level>> # Freed
  PROVE  Enough(t, p, base, k + 1)
<1> DEFINE S == ToCome(p, base, k) \ LevelsOf(s.open, s.at)
           T == ToCome(p, base, k + 1) \ LevelsOf(t.open, t.at)
<1>1. ToCome(p, base, k + 1) \subseteq ToCome(p, base, k)
  BY DescIs DEF ToCome
<1>2. level \in S /\ T \subseteq S \ {level} /\ IsFiniteSet(S)
  BY <1>1, ToComeFinite, Smaller DEF FoundNew
<1>3. u \in FreeIn(s.at) /\ FreeIn(t.at) = FreeIn(s.at) \ {u}
  BY DEF FreeIn, FoundNew, Wheres
<1>4. IsFiniteSet(FreeIn(s.at))
  BY FreeFinite
<1>5. /\ Cardinality(FreeIn(t.at)) = Cardinality(FreeIn(s.at)) - 1
      /\ Cardinality(FreeIn(s.at)) \in Nat
  BY <1>3, <1>4, OneFewer
<1>6. /\ IsFiniteSet(S \ {level}) /\ Cardinality(S \ {level}) = Cardinality(S) - 1
      /\ Cardinality(S) \in Nat
  BY <1>2, OneFewer
<1>7. Cardinality(T) <= Cardinality(S \ {level}) /\ Cardinality(T) \in Nat
  BY <1>2, <1>6, Smaller
<1>8. Cardinality(S) <= Cardinality(FreeIn(s.at))
  BY DEF Enough
<1>9. Cardinality(T) <= Cardinality(FreeIn(t.at))
  BY <1>5, <1>6, <1>7, <1>8
<1>10. QED
  BY <1>9 DEF Enough

\* A function with upvalues enc and a frame at 'base' can make a closure of p.
Making(p, enc, base) ==
  /\ p \in Protos /\ base \in Nat
  /\ enc \in Seq(UpVal) /\ \A i \in DOMAIN enc : at[enc[i]] # Freed
  /\ Capturable(p, enc, base)

\* What was found stays what it is.
LEMMA FoundStays ==
  ASSUME NEW s, NEW p \in Protos, NEW enc, NEW base, NEW k \in Nat, Taking(s, p, enc, base, k),
         NEW t, NEW x \in UpVal, \A u \in UpVal : s.at[u] # Freed => t.at[u] = s.at[u],
         t.found = Append(s.found, x), t.at[x] # Freed, Names(t.at, x, Desc[p][k + 1], enc, base)
  PROVE  AllNamed(t, p, enc, base, k + 1)
<1> DEFINE where == t.at
           found == t.found
<1>1. PICK f \in Seq(UpVal) : f = s.found /\ Len(f) = k
  BY DEF Taking, AllNamed
<1>2. /\ found \in Seq(UpVal) /\ Len(found) = k + 1 /\ found[k + 1] = x
      /\ \A i \in 1 .. k : found[i] = f[i] /\ f[i] \in UpVal
  BY <1>1
<1>3. ASSUME NEW i \in 1 .. k
      PROVE  where[found[i]] # Freed /\ Names(where, found[i], Desc[p][i], enc, base)
  <2>1. s.at[f[i]] # Freed /\ Names(s.at, f[i], Desc[p][i], enc, base)
    BY <1>1 DEF Taking, AllNamed
  <2>2. where[f[i]] = s.at[f[i]]
    BY <1>2, <2>1
  <2>3. QED
    BY <1>2, <2>1, <2>2 DEF Names
<1>4. \A i \in 1 .. k + 1 : i \in 1 .. k \/ i = k + 1
  OBVIOUS
<1>5. QED
  BY <1>2, <1>3, <1>4 DEF AllNamed

\* One more upvalue is found.
LEMMA CaptureStep ==
  ASSUME Types, NEW p, NEW enc, NEW base, Making(p, enc, base), NEW s, NEW k \in Nat,
         Taking(s, p, enc, base, k), k < Len(Desc[p]),
         NEW t, t = capture(s, Desc[p][k + 1], enc, base)
  PROVE  Taking(t, p, enc, base, k + 1)
<1> DEFINE d == Desc[p][k + 1]
           n == Len(stack[L])
<1>1. p \in Protos /\ base \in Nat /\ enc \in Seq(UpVal)
      /\ (\A i \in DOMAIN enc : at[enc[i]] # Freed)
  BY DEF Making
<1>2. /\ k + 1 \in 1 .. Len(Desc[p]) /\ DOMAIN Desc[p] = 1 .. Len(Desc[p])
      /\ d.instack \in BOOLEAN /\ d.idx \in 1 .. StackSize
  BY <1>1, DescIs
<1>3. IF d.instack THEN base + d.idx <= n ELSE d.idx \in DOMAIN enc
  BY <1>2 DEF Making, Capturable, top
<1>4. /\ s \in [open : Seq(UpVal), at : Wheres, found : Seq(UpVal)]
      /\ Listing(s, L, n) /\ Kept(s.at) /\ Enough(s, p, base, k)
      /\ s.open \in Seq(UpVal) /\ s.at \in Wheres /\ s.found \in Seq(UpVal)
  BY DEF Taking
<1>5. L \in Threads /\ n \in 0 .. StackSize /\ StackSize \in Nat
  BY Kinds DEF Types
<1>6. CASE d.instack
  <2>1. PICK level \in Nat : level = base + d.idx
    BY <1>1, <1>2, <1>5
  <2>2. level \in 1 .. n /\ n \in 1 .. StackSize
    <3>1. PICK idx \in 1 .. StackSize : idx = d.idx
      BY <1>2
    <3>2. idx \in Nat /\ idx >= 1 /\ level = base + idx /\ base + idx <= n
      BY <1>3, <1>5, <1>6, <2>1, <3>1
    <3>3. PICK m \in 0 .. StackSize : m = n
      BY <1>5
    <3>4. level >= 1 /\ level <= m
      BY <1>1, <2>1, <3>2, <3>3
    <3>5. level \in 1 .. m /\ m \in 1 .. StackSize
      BY <1>5, <2>1, <3>4
    <3>6. QED
      BY <3>3, <3>5
  <2>3. level \in ToCome(p, base, k)
    BY <1>2, <1>6, <2>1 DEF ToCome
  <2>4. t = luaF_findupval(s, L, level)
    BY <1>6, <2>1 DEF capture
  <2>5. level \in LevelsOf(s.open, s.at) \/ \E x \in UpVal : s.at[x] = Freed
    BY <1>1, <1>4, <2>3, RoomForOne
  <2>6. Listing(t, L, n) /\ \E u \in UpVal : /\ t.at[u] = <<L, level>>
                                             /\ FoundOld(s, t, u) \/ FoundNew(s, t, u, L, level)
    BY <1>4, <1>5, <2>2, <2>4, <2>5, Findupval
  <2>7. PICK u \in UpVal : /\ t.at[u] = <<L, level>>
                           /\ FoundOld(s, t, u) \/ FoundNew(s, t, u, L, level)
    BY <2>6
  <2>8. t \in [open : Seq(UpVal), at : Wheres, found : Seq(UpVal)]
    <3>1. t.open \in Seq(UpVal) /\ t.at \in Wheres /\ t.found \in Seq(UpVal)
      BY <2>6 DEF Listing
    <3>2. \E a, b, c : t = [open |-> a, at |-> b, found |-> c]
      BY <2>4 DEF luaF_findupval
    <3>3. QED
      BY <3>1, <3>2
  <2>9. <<L, level>> # Freed /\ <<L, level>> \in Slots /\ <<L, level>>[1] = L
    BY <1>5, <2>2, Places
  <2>10. t.found = Append(s.found, u)
    BY <2>7 DEF FoundOld, FoundNew
  <2>11. /\ Kept(t.at) /\ Enough(t, p, base, k + 1)
         /\ \A x \in UpVal : s.at[x] # Freed => t.at[x] = s.at[x]
    <3>1. CASE FoundOld(s, t, u)
      <4>1. t.open = s.open /\ t.at = s.at
        BY <3>1 DEF FoundOld
      <4>2. Enough(t, p, base, k + 1)
        BY <1>1, <1>4, <4>1, EnoughOld
      <4>3. QED
        BY <1>4, <4>1, <4>2
    <3>2. CASE FoundNew(s, t, u, L, level)
      <4>1. s.at[u] = Freed /\ t.at = [s.at EXCEPT ![u] = <<L, level>>]
        BY <3>2 DEF FoundNew
      <4>2. t.at[u] = <<L, level>> /\ \A x \in UpVal \ {u} : t.at[x] = s.at[x]
        BY <1>4, <4>1 DEF Wheres
      <4>3. Kept(t.at)
        BY <1>4, <2>9, <4>1, <4>2 DEF Kept
      <4>4. Enough(t, p, base, k + 1)
        BY <1>1, <1>4, <2>3, <2>9, <3>2, EnoughNew
      <4>5. QED
        BY <4>1, <4>2, <4>3, <4>4
    <3>3. QED
      BY <2>7, <3>1, <3>2
  <2>12. t.at[u] # Freed /\ Names(t.at, u, Desc[p][k + 1], enc, base)
    <3>1. t.at[u] # Freed
      BY <2>7, <2>9
    <3>2. t.at[u] = <<L, base + Desc[p][k + 1].idx>>
      BY <2>1, <2>7, Zenon
    <3>3. QED
      BY <1>6, <3>1, <3>2 DEF Names
  <2>13. AllNamed(t, p, enc, base, k + 1)
    <3>1. t.at[u] # Freed /\ Names(t.at, u, Desc[p][k + 1], enc, base)
      BY <2>12
    <3>2. \A x \in UpVal : s.at[x] # Freed => t.at[x] = s.at[x]
      BY <2>11
    <3>3. QED
      BY <1>1, <2>10, <3>1, <3>2, FoundStays
  <2>14. QED
    BY <2>6, <2>8, <2>11, <2>13 DEF Taking
<1>7. CASE ~ d.instack
  <2>1. PICK x \in UpVal : x = enc[d.idx] /\ at[x] # Freed
    BY <1>1, <1>3, <1>7
  <2>2. t = [s EXCEPT !.found = Append(@, enc[d.idx])]
    BY <1>7 DEF capture
  <2>3. t.open = s.open /\ t.at = s.at /\ t.found = Append(s.found, x)
    BY <1>4, <2>1, <2>2
  <2>4. t.found \in Seq(UpVal)
    BY <1>4, <2>3
  <2>5. t \in [open : Seq(UpVal), at : Wheres, found : Seq(UpVal)]
    BY <1>4, <2>1, <2>2, <2>3, <2>4
  <2>6. Listing(t, L, n) /\ Kept(t.at)
    BY <1>4, <2>3, <2>4 DEF Listing
  <2>7. Enough(t, p, base, k + 1)
    BY <1>1, <1>4, <2>3, EnoughOld
  <2>8. t.at[x] # Freed /\ Names(t.at, x, Desc[p][k + 1], enc, base)
    BY <1>4, <1>7, <2>1, <2>3 DEF Kept, Names
  <2>9. AllNamed(t, p, enc, base, k + 1)
    <3>1. t.at[x] # Freed /\ Names(t.at, x, Desc[p][k + 1], enc, base) /\ t.found = Append(s.found, x)
      BY <2>3, <2>8
    <3>2. \A y \in UpVal : s.at[y] # Freed => t.at[y] = s.at[y]
      BY <2>3
    <3>3. QED
      BY <1>1, <3>1, <3>2, FoundStays
  <2>10. QED
    BY <2>5, <2>6, <2>7, <2>9 DEF Taking
<1>8. QED
  BY <1>2, <1>6, <1>7

\* Before the first one.
LEMMA CaptureStart ==
  ASSUME Types, Lists, NEW p, NEW enc, NEW base, Making(p, enc, base),
         Cardinality(NewUpvals(p, base)) <= Cardinality(free)
  PROVE  Taking([open |-> openupval[L], at |-> at, found |-> <<>>], p, enc, base, 0)
<1> DEFINE s == [open |-> openupval[L], at |-> at, found |-> <<>>]
<1>1. p \in Protos /\ base \in Nat
  BY DEF Making
<1>2. L \in Threads /\ openupval[L] \in Seq(UpVal) /\ at \in Wheres
  BY DEF Types, Wheres
<1>3. s.open = openupval[L] /\ s.at = at /\ s.found = <<>> /\ <<>> \in Seq(UpVal) /\ Len(<<>>) = 0
  OBVIOUS
<1>4. s \in [open : Seq(UpVal), at : Wheres, found : Seq(UpVal)]
  BY <1>2, <1>3
<1> HIDE DEF s
<1>5. Listing(s, L, Len(stack[L])) /\ Kept(s.at)
  BY <1>2, <1>3 DEF Listing, Kept, Lists
<1>6. Enough(s, p, base, 0)
  <2>1. FreeIn(s.at) = free
    BY <1>3 DEF FreeIn, free
  <2>2. LevelsOf(s.open, s.at) = {LevelOf(openupval[L][i]) : i \in DOMAIN openupval[L]}
    BY <1>3 DEF LevelsOf, LevelOf
  <2>3. ToCome(p, base, 0) = {base + Desc[p][i].idx : i \in {j \in DOMAIN Desc[p] : Desc[p][j].instack}}
    <3>1. \A j \in DOMAIN Desc[p] : j > 0
      BY <1>1, DescIs
    <3>2. QED
      BY <3>1 DEF ToCome
  <2>4. ToCome(p, base, 0) \ LevelsOf(s.open, s.at) = NewUpvals(p, base)
    BY <2>2, <2>3 DEF NewUpvals
  <2>5. QED
    BY <2>1, <2>4 DEF Enough
<1>7. QED
  BY <1>3, <1>4, <1>5, <1>6 DEF Taking, AllNamed, s

\* The states of the list and of 'at' while the upvalues are found, up to the nth.
Steps(f, n, p, enc, base) ==
  f = [i \in 0 .. n |-> IF i = 0 THEN [open |-> openupval[L], at |-> at, found |-> <<>>]
                        ELSE capture(f[i - 1], Desc[p][i], enc, base)]

LEMMA StepsExist ==
  ASSUME NEW n \in Nat, NEW p, NEW enc, NEW base
  PROVE  \E f : Steps(f, n, p, enc, base)
<1> DEFINE start == [open |-> openupval[L], at |-> at, found |-> <<>>]
           S == {m \in Nat : \E f : Steps(f, m, p, enc, base)}
<1>1. 0 \in S
  <2>1. PICK f : f = [i \in 0 .. 0 |-> start]
    OBVIOUS
  <2>2. f = [i \in 0 .. 0 |-> IF i = 0 THEN start ELSE capture(f[i - 1], Desc[p][i], enc, base)]
    BY <2>1
  <2>3. QED
    BY <2>2 DEF Steps
<1>2. ASSUME NEW m \in Nat, m \in S PROVE m + 1 \in S
  <2>1. PICK f : Steps(f, m, p, enc, base)
    BY <1>2
  <2>2. PICK g : g = [i \in 0 .. m + 1 |-> IF i <= m THEN f[i]
                                          ELSE capture(f[m], Desc[p][m + 1], enc, base)]
    OBVIOUS
  <2>3. ASSUME NEW i \in 0 .. m + 1
        PROVE  g[i] = IF i = 0 THEN start ELSE capture(g[i - 1], Desc[p][i], enc, base)
    <3>1. CASE i = 0
      <4>1. 0 \in 0 .. m /\ 0 <= m
        OBVIOUS
      <4>2. f[0] = start
        BY <2>1, <4>1 DEF Steps
      <4>3. QED
        BY <2>2, <3>1, <4>1, <4>2
    <3>2. CASE i # 0 /\ i <= m
      <4>1. i \in 0 .. m /\ i - 1 \in 0 .. m + 1 /\ i - 1 <= m
        BY <3>2
      <4>2. f[i] = capture(f[i - 1], Desc[p][i], enc, base)
        BY <2>1, <3>2, <4>1 DEF Steps
      <4>3. g[i] = f[i] /\ g[i - 1] = f[i - 1]
        BY <2>2, <3>2, <4>1
      <4>4. QED
        BY <3>2, <4>2, <4>3
    <3>3. CASE i = m + 1
      <4>1. ~ (i <= m) /\ i # 0 /\ i - 1 = m /\ m \in 0 .. m + 1 /\ m <= m
        BY <3>3
      <4>2. g[i] = capture(f[m], Desc[p][m + 1], enc, base) /\ g[m] = f[m]
        BY <2>2, <4>1
      <4>3. QED
        BY <3>3, <4>1, <4>2
    <3>4. QED
      BY <3>1, <3>2, <3>3
  <2>4. g = [i \in 0 .. m + 1 |-> g[i]]
    BY <2>2
  <2>5. g = [i \in 0 .. m + 1 |-> IF i = 0 THEN start ELSE capture(g[i - 1], Desc[p][i], enc, base)]
    BY <2>3, <2>4
  <2>6. QED
    BY <2>5 DEF Steps
<1> HIDE DEF S
<1>3. Nat \subseteq S
  BY <1>1, <1>2, AllNumbers
<1>4. n \in S
  BY <1>3
<1>5. QED
  BY <1>4 DEF S

LEMMA CapturedSteps ==
  ASSUME NEW p \in Protos, NEW enc, NEW base
  PROVE  \E f : Steps(f, Len(Desc[p]), p, enc, base) /\ Captured(p, enc, base) = f[Len(Desc[p])]
<1> DEFINE N == Len(Desc[p])
           f == CHOOSE g : Steps(g, N, p, enc, base)
<1>1. N \in Nat
  BY DescIs
<1>2. Steps(f, N, p, enc, base)
  BY <1>1, StepsExist
<1>3. Captured(p, enc, base) = f[N]
  BY DEF Captured, Steps
<1>4. QED
  BY <1>2, <1>3

\* All upvalues of a new closure.
LEMMA CapturedAll ==
  ASSUME Types, Lists, NEW p, NEW enc, NEW base, Making(p, enc, base),
         Cardinality(NewUpvals(p, base)) <= Cardinality(free)
  PROVE  Taking(Captured(p, enc, base), p, enc, base, Len(Desc[p]))
<1>1. p \in Protos /\ Len(Desc[p]) \in Nat
  BY DescIs DEF Making
<1>2. PICK f : Steps(f, Len(Desc[p]), p, enc, base) /\ Captured(p, enc, base) = f[Len(Desc[p])]
  BY <1>1, CapturedSteps
<1> DEFINE N == Len(Desc[p])
           S == {n \in Nat : n <= N => Taking(f[n], p, enc, base, n)}
<1>3. 0 \in S
  <2>1. f[0] = [open |-> openupval[L], at |-> at, found |-> <<>>]
    BY <1>1, <1>2 DEF Steps
  <2>2. Taking(f[0], p, enc, base, 0)
    BY <2>1, CaptureStart
  <2>3. QED
    BY <2>2
<1>4. ASSUME NEW n \in Nat, n \in S PROVE n + 1 \in S
  <2>1. SUFFICES ASSUME n + 1 <= N PROVE Taking(f[n + 1], p, enc, base, n + 1)
    OBVIOUS
  <2>2. n < N /\ n <= N /\ n + 1 \in 0 .. N /\ n + 1 # 0 /\ (n + 1) - 1 = n
    BY <1>1, <2>1
  <2>3. Taking(f[n], p, enc, base, n)
    BY <1>4, <2>2
  <2>4. f[n + 1] = capture(f[n], Desc[p][n + 1], enc, base)
    BY <1>2, <2>2 DEF Steps
  <2>5. QED
    BY <2>2, <2>3, <2>4, CaptureStep
<1> HIDE DEF S
<1>5. Nat \subseteq S
  BY <1>3, <1>4, AllNumbers
<1>6. N \in S
  BY <1>1, <1>5
<1>7. QED
  BY <1>1, <1>2, <1>6 DEF S

-----------------------------------------------------------------------------
(* Stacks                                                                    *)

Slot == Values \cup {Nil}
StackOK(new) == new \in [Threads -> Seq(Slot)] /\ \A th \in Threads : Len(new[th]) <= StackSize

\* The stacks 'new' hold what 'old' held in the same slots, and the values of X.
Grown(old, new, X) ==
  \A th \in Threads : \A l \in 1 .. Len(new[th]) :
    new[th][l] \in X \/ (l <= Len(old[th]) /\ new[th][l] = old[th][l])
Longer(old, new) == \A th \in Threads : Len(old[th]) <= Len(new[th])

\* The sequence 'new' holds what 'old' held in the same places, and values of X.
GrownSeq(old, new, X) ==
  /\ new \in Seq(Slot) /\ Len(new) <= StackSize
  /\ \A l \in 1 .. Len(new) : new[l] \in X \/ (l <= Len(old) /\ new[l] = old[l])

\* The stacks 'new' are the stacks 'old' but for that of th, which is s.
OneOther(old, th, s, new) == new = [old EXCEPT ![th] = s]

LEMMA OneStack ==
  ASSUME StackOK(stack), NEW th \in Threads, NEW s, NEW X, GrownSeq(stack[th], s, X),
         NEW new, OneOther(stack, th, s, new)
  PROVE  /\ StackOK(new) /\ Grown(stack, new, X)
         /\ new[th] = s /\ \A t \in Threads \ {th} : new[t] = stack[t]
         /\ Len(stack[th]) <= Len(s) => Longer(stack, new)
<1>1. /\ DOMAIN stack = Threads /\ new[th] = s /\ \A t \in Threads \ {th} : new[t] = stack[t]
  BY DEF StackOK, OneOther
<1>2. \A t \in Threads : stack[t] \in Seq(Slot) /\ Len(stack[t]) \in Nat /\ Len(stack[t]) <= StackSize
  BY DEF StackOK
<1>3. StackOK(new)
  <2>1. s \in Seq(Slot) /\ Len(s) <= StackSize
    BY DEF GrownSeq
  <2>2. \A t \in Threads : new[t] \in Seq(Slot) /\ Len(new[t]) <= StackSize
    BY <1>1, <1>2, <2>1
  <2>3. new = [t \in Threads |-> new[t]]
    BY <1>1 DEF OneOther
  <2>4. QED
    BY <2>2, <2>3 DEF StackOK
<1>4. Grown(stack, new, X)
  <2>1. ASSUME NEW t \in Threads, NEW l \in 1 .. Len(new[t])
        PROVE  new[t][l] \in X \/ (l <= Len(stack[t]) /\ new[t][l] = stack[t][l])
    <3>1. CASE t = th
      BY <1>1, <3>1 DEF GrownSeq
    <3>2. CASE t # th
      BY <1>1, <1>2, <3>2
    <3>3. QED
      BY <3>1, <3>2
  <2>2. QED
    BY <2>1 DEF Grown
<1>5. Len(stack[th]) <= Len(s) => Longer(stack, new)
  BY <1>1, <1>2 DEF Longer
<1>6. QED
  BY <1>1, <1>3, <1>4, <1>5

LEMMA StackIs ==
  ASSUME Types
  PROVE  /\ StackOK(stack) /\ L \in Threads /\ top = Len(stack[L]) /\ top \in 0 .. StackSize
         /\ stack[L] \in Seq(Slot) /\ AtHand \subseteq Slot /\ StackSize \in Nat
         /\ \A th \in Threads : stack[th] \in Seq(Slot) /\ Len(stack[th]) \in 0 .. StackSize
                                /\ DOMAIN stack[th] = 1 .. Len(stack[th])
                                /\ ToSet(stack[th]) \subseteq Slot
<1>1. StackOK(stack) /\ L \in Threads /\ StackSize \in Nat
  BY Kinds DEF Types, StackOK, Slot
<1>2. ASSUME NEW th \in Threads
      PROVE  stack[th] \in Seq(Slot) /\ Len(stack[th]) \in 0 .. StackSize
             /\ DOMAIN stack[th] = 1 .. Len(stack[th]) /\ ToSet(stack[th]) \subseteq Slot
  <2>1. stack[th] \in Seq(Slot) /\ Len(stack[th]) \in 0 .. StackSize
        /\ DOMAIN stack[th] = 1 .. Len(stack[th])
    BY <1>1 DEF StackOK
  <2>2. \A i \in DOMAIN stack[th] : stack[th][i] \in Slot
    BY <2>1
  <2>3. QED
    BY <2>1, <2>2 DEF ToSet
<1>3. QED
  BY <1>1, <1>2 DEF top, AtHand

LEMMA AppendIs ==
  ASSUME Types, NEW x \in Slot, Room
  PROVE  /\ GrownSeq(stack[L], Append(stack[L], x), {x})
         /\ Len(stack[L]) <= Len(Append(stack[L], x))
<1>1. PICK s \in Seq(Slot) : s = stack[L] /\ Len(s) < StackSize
  BY StackIs DEF Room
<1>2. /\ Append(s, x) \in Seq(Slot) /\ Len(Append(s, x)) = Len(s) + 1
      /\ \A l \in 1 .. Len(s) : Append(s, x)[l] = s[l]
      /\ Append(s, x)[Len(s) + 1] = x
  OBVIOUS
<1>3. Len(s) \in Nat /\ StackSize \in Nat
  BY Kinds
<1>4. ASSUME NEW l \in 1 .. Len(s) + 1
      PROVE  Append(s, x)[l] \in {x} \/ (l <= Len(s) /\ Append(s, x)[l] = s[l])
  <2>1. l \in 1 .. Len(s) \/ l = Len(s) + 1
    BY <1>3
  <2>2. QED
    BY <1>2, <2>1
<1>5. Len(Append(s, x)) <= StackSize
  BY <1>1, <1>2, <1>3
<1>6. GrownSeq(s, Append(s, x), {x}) /\ Len(s) <= Len(Append(s, x))
  BY <1>2, <1>3, <1>4, <1>5 DEF GrownSeq
<1>7. QED
  BY <1>1, <1>6

LEMMA PushIs ==
  ASSUME Types, NEW x \in Slot, Room, push(x)
  PROVE  /\ StackOK(stack') /\ Longer(stack, stack') /\ Grown(stack, stack', {x})
         /\ \A th \in Threads \ {L} : stack'[th] = stack[th]
         /\ stack'[L] = Append(stack[L], x)
<1>1. GrownSeq(stack[L], Append(stack[L], x), {x}) /\ Len(stack[L]) <= Len(Append(stack[L], x))
  BY AppendIs
<1>2. PICK t : t = Append(stack[L], x)
  OBVIOUS
<1>3. OneOther(stack, L, t, stack')
  BY <1>2 DEF push, OneOther
<1>4. GrownSeq(stack[L], t, {x}) /\ Len(stack[L]) <= Len(t)
  BY <1>1, <1>2
<1>5. StackOK(stack) /\ L \in Threads
  BY StackIs
<1>6. /\ StackOK(stack') /\ Longer(stack, stack') /\ Grown(stack, stack', {x})
      /\ stack'[L] = t /\ \A th \in Threads \ {L} : stack'[th] = stack[th]
  <2>1. /\ StackOK(stack') /\ Grown(stack, stack', {x})
        /\ stack'[L] = t /\ \A th \in Threads \ {L} : stack'[th] = stack[th]
        /\ Len(stack[L]) <= Len(t) => Longer(stack, stack')
    BY <1>3, <1>4, <1>5, OneStack
  <2>2. QED
    BY <1>4, <2>1
<1>7. QED
  BY <1>2, <1>6

LEMMA PutIs ==
  ASSUME Types, NEW x \in Slot, NEW th \in Threads, NEW l \in 1 .. Len(stack[th]),
         stack' = [stack EXCEPT ![th][l] = x]
  PROVE  /\ StackOK(stack') /\ Longer(stack, stack') /\ Grown(stack, stack', {x})
         /\ \A t \in Threads \ {th} : stack'[t] = stack[t]
         /\ stack'[th] = [stack[th] EXCEPT ![l] = x]
<1>1. PICK s \in Seq(Slot) : s = stack[th] /\ Len(s) \in 0 .. StackSize
  BY StackIs
<1>2. l \in 1 .. Len(s)
  BY <1>1
<1>3. PICK new : new = [s EXCEPT ![l] = x]
  OBVIOUS
<1>4. /\ new \in Seq(Slot) /\ Len(new) = Len(s)
      /\ \A i \in 1 .. Len(s) : new[i] = IF i = l THEN x ELSE s[i]
  BY <1>2, <1>3, ExceptSeq
<1>5. Len(new) <= StackSize
  BY <1>1, <1>4
<1>6. GrownSeq(s, new, {x})
  BY <1>1, <1>4, <1>5 DEF GrownSeq
<1>7. OneOther(stack, th, new, stack')
  BY <1>1, <1>3 DEF OneOther
<1>8. GrownSeq(stack[th], new, {x}) /\ Len(stack[th]) <= Len(new)
  BY <1>1, <1>4, <1>6
<1>9. StackOK(stack)
  BY StackIs
<1>10. /\ StackOK(stack') /\ Longer(stack, stack') /\ Grown(stack, stack', {x})
       /\ stack'[th] = new /\ \A t \in Threads \ {th} : stack'[t] = stack[t]
  <2>1. th \in Threads
    OBVIOUS
  <2>2. StackOK(stack')
    BY <1>7, <1>8, <1>9, <2>1, OneStack
  <2>3. Longer(stack, stack')
    BY <1>7, <1>8, <1>9, <2>1, OneStack
  <2>4. Grown(stack, stack', {x})
    BY <1>7, <1>8, <1>9, <2>1, OneStack
  <2>5. stack'[th] = new 
    BY <1>7, <1>8, <1>9, <2>1, OneStack
  <2>6. \A t \in Threads \ {th} : stack'[t] = stack[t]
    BY <1>7, <1>8, <1>9, <2>1, OneStack
  <2>7. QED
    BY <2>2, <2>3, <2>4, <2>5, <2>6
<1>11. QED
  BY <1>1, <1>3, <1>10

\* What 'One' takes along.
LEMMA OneIs ==
  ASSUME Types, NEW r \in One
  PROVE  /\ r \in Seq(Slot) /\ Len(r) \in 0 .. 1
         /\ \A i \in 1 .. Len(r) : r[i] \in AtHand \ {Nil}
<1>1. CASE r = <<>>
  BY <1>1
<1>2. CASE r # <<>>
  <2>1. PICK x \in AtHand \ {Nil} : r = <<x>>
    BY <1>2 DEF One
  <2>2. x \in Slot
    BY StackIs
  <2>3. QED
    BY <2>1, <2>2
<1>3. QED
  BY <1>1, <1>2

LEMMA TakeIs ==
  ASSUME Types, NEW to \in Threads, NEW m \in 0 .. Len(stack[to]), NEW r \in One,
         NEW s, s = SubSeq(stack[to], 1, m) \o r, m + Len(r) <= StackSize
  PROVE  GrownSeq(stack[to], s, AtHand \ {Nil}) /\ Len(s) = m + Len(r)
<1>1. PICK st \in Seq(Slot) : st = stack[to] /\ Len(st) \in 0 .. StackSize
  BY StackIs
<1>2. /\ r \in Seq(Slot) /\ Len(r) \in 0 .. 1
      /\ \A i \in 1 .. Len(r) : r[i] \in AtHand \ {Nil}
  BY OneIs
<1>3. m \in Nat /\ m <= Len(st) /\ Len(st) \in Nat /\ StackSize \in Nat
  BY <1>1, StackIs
<1>4. PICK a : a = SubSeq(st, 1, m)
  OBVIOUS
<1>5. a \in Seq(Slot) /\ Len(a) = m /\ \A i \in 1 .. m : a[i] = st[i]
  <2>1. \A i \in 1 .. m : st[i] \in Slot
    BY <1>3, ElementOfSeq
  <2>2. QED
    BY <1>3, <1>4, <2>1, SubSeqProperties
<1>6. PICK t : t = a \o r
  OBVIOUS
<1>7. /\ t \in Seq(Slot) /\ Len(t) = Len(a) + Len(r)
      /\ \A i \in 1 .. Len(a) + Len(r) : t[i] = IF i <= Len(a) THEN a[i] ELSE r[i - Len(a)]
  BY <1>2, <1>5, <1>6, ConcatProperties
<1>8. Len(t) = m + Len(r) /\ Len(t) <= StackSize
  BY <1>5, <1>7
<1>9. ASSUME NEW l \in 1 .. Len(t)
      PROVE  t[l] \in AtHand \ {Nil} \/ (l <= Len(st) /\ t[l] = st[l])
  <2>1. CASE l <= m
    BY <1>3, <1>5, <1>7, <1>8, <2>1
  <2>2. CASE ~ (l <= m)
    <3>1. l - m \in 1 .. Len(r)
      BY <1>2, <1>3, <1>8, <2>2
    <3>2. t[l] = r[l - m]
      BY <1>2, <1>3, <1>5, <1>7, <1>8, <2>2
    <3>3. QED
      BY <1>2, <3>1, <3>2
  <2>3. QED
    BY <2>1, <2>2
<1>10. GrownSeq(st, t, AtHand \ {Nil})
  BY <1>7, <1>8, <1>9 DEF GrownSeq
<1>11. s = t
  BY <1>1, <1>4, <1>6
<1>12. QED
  BY <1>1, <1>8, <1>10, <1>11

-----------------------------------------------------------------------------
(* What the structure gives                                                  *)

LEMMA UpvalsOf ==
  ASSUME Types, NEW c \in Closures
  PROVE  /\ upvals[c] \in Seq(UpVal) /\ DOMAIN upvals[c] = 1 .. Len(upvals[c]) /\ Len(upvals[c]) \in Nat
         /\ \A i \in DOMAIN upvals[c] : upvals[c][i] \in UpVal
         /\ ToSet(upvals[c]) \subseteq UpVal
<1>1. upvals[c] \in Seq(UpVal) /\ DOMAIN upvals[c] = 1 .. Len(upvals[c]) /\ Len(upvals[c]) \in Nat
  BY DEF Types
<1>2. \A i \in DOMAIN upvals[c] : upvals[c][i] \in UpVal
  BY <1>1, ElementOfSeq
<1>3. QED
  BY <1>1, <1>2 DEF ToSet

\* An upvalue that a closure refers to is in use.
LEMMA UsedUpvalue ==
  ASSUME Types, Counts, NEW c \in Closures, NEW i \in DOMAIN upvals[c]
  PROVE  upvals[c][i] \in UpVal /\ refcount[upvals[c][i]] > 0 /\ at[upvals[c][i]] # Freed
<1>1. PICK u \in UpVal : u = upvals[c][i]
  BY UpvalsOf
<1>2. i \in Nat
  BY UpvalsOf
<1>3. <<c, i>> \in Refs(upvals, u)
  BY <1>1, <1>2 DEF Refs
<1>4. IsFiniteSet(Refs(upvals, u)) /\ refcount[u] = Cardinality(Refs(upvals, u))
  BY DEF Counts, Exact
<1>5. Cardinality(Refs(upvals, u)) \in Nat \ {0}
  BY <1>3, <1>4, OneFewer
<1>6. refcount[u] > 0 /\ refcount[u] # 0
  BY <1>4, <1>5
<1>7. at[u] # Freed
  BY <1>6 DEF Counts
<1>8. QED
  BY <1>1, <1>6, <1>7

LEMMA OpenUpvalue ==
  ASSUME Types, Lists, NEW u \in UpVal, upisopen(u)
  PROVE  /\ ThreadOf(u) \in Threads /\ LevelOf(u) \in 1 .. Len(stack[ThreadOf(u)])
         /\ at[u] = <<ThreadOf(u), LevelOf(u)>> /\ at[u] \in Slots
         /\ \E i \in 1 .. Len(openupval[ThreadOf(u)]) : openupval[ThreadOf(u)][i] = u
<1>1. at \in [UpVal -> {Freed, Own} \cup Slots]
  BY DEF Types
<1>2. /\ at[u] \in Slots /\ ThreadOf(u) \in Threads /\ LevelOf(u) \in 1 .. StackSize
      /\ at[u] = <<ThreadOf(u), LevelOf(u)>>
  BY <1>1, Upvalues
<1>3. PICK th \in Threads : th = ThreadOf(u) /\ at[u][1] = th
  BY <1>2 DEF ThreadOf
<1>4. Complete(openupval[th], at, th) /\ Ordered(openupval[th], at, th, Len(stack[th]))
  BY DEF Lists
<1>5. PICK i \in 1 .. Len(openupval[th]) : openupval[th][i] = u
  BY <1>2, <1>3, <1>4 DEF Complete
<1>6. at[u][2] <= Len(stack[th])
  BY <1>4, <1>5 DEF Ordered
<1>7. LevelOf(u) \in 1 .. Len(stack[th])
  BY <1>2, <1>6, StackIs DEF LevelOf
<1>8. QED
  BY <1>2, <1>3, <1>5, <1>7

LEMMA ValueIs ==
  ASSUME Types, Lists, NEW u \in UpVal
  PROVE  ValueOf(u) \in Slot
<1>1. CASE upisopen(u)
  <2>1. PICK th \in Threads, l \in Nat : th = ThreadOf(u) /\ l = LevelOf(u) /\ l \in 1 .. Len(stack[th])
    BY <1>1, OpenUpvalue
  <2>2. stack[th] \in Seq(Slot)
    BY StackIs
  <2>3. stack[th][l] \in Slot
    BY <2>1, <2>2, ElementOfSeq
  <2>4. QED
    BY <1>1, <2>1, <2>3 DEF ValueOf
<1>2. CASE ~ upisopen(u)
  BY <1>2 DEF ValueOf, Types, Slot
<1>3. QED
  BY <1>1, <1>2

-----------------------------------------------------------------------------
(* Steps that leave the structure alone                                      *)

LEMMA ListsKept ==
  ASSUME Types, Lists, StackOK(stack'), Longer(stack, stack'), at' = at, openupval' = openupval
  PROVE  Lists'
<1>1. ASSUME NEW th \in Threads
      PROVE  Ordered(openupval[th], at, th, Len(stack'[th])) /\ Complete(openupval[th], at, th)
  <2>1. Ordered(openupval[th], at, th, Len(stack[th])) /\ Complete(openupval[th], at, th)
    BY DEF Lists
  <2>2. Len(stack[th]) <= Len(stack'[th])
    BY DEF Longer
  <2>3. Len(stack[th]) \in Nat /\ Len(stack'[th]) \in Nat
    BY StackIs DEF StackOK
  <2>4. openupval[th] \in Seq(UpVal)
    BY DEF Types
  <2>5. \A i \in 1 .. Len(openupval[th]) : at[openupval[th][i]][2] \in Nat
    BY <2>1, <2>4, OrderedIs
  <2>6. Ordered(openupval[th], at, th, Len(stack'[th]))
    BY <2>1, <2>2, <2>3, <2>5 DEF Ordered
  <2>7. QED
    BY <2>1, <2>6
<1>2. QED
  BY <1>1 DEF Lists

\* Nobody goes.
NoneGoes == \A o \in Obj : color'[o] = "free" => color[o] = "free"

LEMMA GoneKept ==
  ASSUME Gone, NoneGoes, upvals' = upvals, openupval' = openupval
  PROVE  Gone'
BY Kinds DEF Gone, NoneGoes

LEMMA Quiet ==
  ASSUME SInv, Types', StackOK(stack'), Longer(stack, stack'), NoneGoes,
         UNCHANGED <<upvals, refcount, at, openupval>>
  PROVE  SInv'
<1>1. Counts'
  BY DEF SInv, Counts, Exact, Refs
<1>2. QED
  BY <1>1, ListsKept, GoneKept DEF SInv

LEMMA StackOnly ==
  ASSUME SInv, StackOK(stack'), Longer(stack, stack'), L' \in Threads, UNCHANGED <<code, uvs, gc>>
  PROVE  SInv'
<1>1. Types'
  BY DEF SInv, Types, code, uvs, gc, StackOK, Slot
<1>2. NoneGoes
  BY DEF NoneGoes, gc
<1>3. QED
  BY <1>1, <1>2, Quiet DEF uvs, code

-----------------------------------------------------------------------------
(* Steps of the program that change stacks only                              *)

\* What may be stored anywhere.
Good(x) == x \in Slot /\ (x = Nil \/ Live(x))

\* Good values come to stacks, and the running thread is in use.
StackStep(X) ==
  /\ StackOK(stack') /\ Longer(stack, stack') /\ Grown(stack, stack', X) /\ \A x \in X : Good(x)
  /\ L' \in Threads /\ Live(L') /\ UNCHANGED <<code, uvs, gc>>

LEMMA RefsOf ==
  /\ \A th \in Threads : AtomicRefs(th) = ToSet(stack[th]) /\ AtomicRefs(th)' = ToSet(stack'[th])
  /\ \A c \in Closures : /\ AtomicRefs(c) = {ValueOf(u) : u \in ToSet(upvals[c])}
                         /\ AtomicRefs(c)' = {ValueOf(u)' : u \in ToSet(upvals'[c])}
  /\ \A p \in Protos : AtomicRefs(p) = {}
<1>1. ASSUME NEW th \in Threads
      PROVE  AtomicRefs(th) = ToSet(stack[th]) /\ AtomicRefs(th)' = ToSet(stack'[th])
  <2>1. th \notin Closures /\ th \notin Protos
    BY Kinds
  <2>2. QED
    BY <2>1 DEF AtomicRefs
<1>2. ASSUME NEW c \in Closures
      PROVE  /\ AtomicRefs(c) = {ValueOf(u) : u \in ToSet(upvals[c])}
             /\ AtomicRefs(c)' = {ValueOf(u)' : u \in ToSet(upvals'[c])}
  <2>1. c \notin Threads /\ c \notin Protos
    BY Kinds
  <2>2. QED
    BY <2>1 DEF AtomicRefs
<1>3. ASSUME NEW p \in Protos PROVE AtomicRefs(p) = {}
  <2>1. p \notin Threads /\ p \notin Closures
    BY Kinds
  <2>2. QED
    BY <2>1 DEF AtomicRefs
<1>4. QED
  BY <1>1, <1>2, <1>3

\* The values the running function can get at are in use.
LEMMA GoodStack ==
  ASSUME Types, Live(L), LiveValues
  PROVE  /\ \A x \in AtHand \cup {Nil} : Good(x)
         /\ \A c \in Running : c \in Closures /\ Live(c)
         /\ \A c \in Running : \A u \in ToSet(upvals[c]) : ValueOf(u) \in Slot => Good(ValueOf(u))
<1>1. L \in Values /\ L \in Threads /\ L \notin Closures
  BY Kinds, StackIs
<1>2. AtomicRefs(L) = AtHand
  BY <1>1, RefsOf DEF AtHand
<1>3. \A x \in AtHand \cup {Nil} : Good(x)
  BY <1>1, <1>2, StackIs DEF LiveValues, Good, Slot
<1>4. ASSUME NEW c \in Running
      PROVE  /\ c \in Closures /\ Live(c)
             /\ \A u \in ToSet(upvals[c]) : ValueOf(u) \in Slot => Good(ValueOf(u))
  <2>1. c \in Closures /\ c \in AtHand /\ c \notin Threads /\ c # Nil /\ c \in Values
    BY <1>4, Kinds DEF Running
  <2>2. Live(c)
    BY <1>3, <2>1 DEF Good
  <2>3. AtomicRefs(c) = {ValueOf(u) : u \in ToSet(upvals[c])}
    BY <2>1, RefsOf
  <2>4. \A u \in ToSet(upvals[c]) : ValueOf(u) = Nil \/ Live(ValueOf(u))
    BY <2>1, <2>2, <2>3 DEF LiveValues
  <2>5. QED
    BY <2>1, <2>2, <2>4 DEF Good
<1>5. QED
  BY <1>3, <1>4

LEMMA GoodUpvalue ==
  ASSUME IInv, NEW c \in Running, NEW i \in DOMAIN upvals[c]
  PROVE  /\ c \in Closures /\ Live(c)
         /\ upvals[c][i] \in UpVal /\ at[upvals[c][i]] # Freed /\ refcount[upvals[c][i]] > 0
         /\ Good(ValueOf(upvals[c][i]))
<1>1. SInv /\ Types /\ Counts /\ Lists /\ Live(L) /\ LiveValues
  BY DEF IInv, SInv, Alive
<1>2. /\ c \in Closures /\ Live(c)
      /\ \A u \in ToSet(upvals[c]) : ValueOf(u) \in Slot => Good(ValueOf(u))
  BY <1>1, GoodStack
<1>3. upvals[c][i] \in UpVal /\ at[upvals[c][i]] # Freed /\ refcount[upvals[c][i]] > 0
  BY <1>1, <1>2, UsedUpvalue
<1>4. upvals[c][i] \in ToSet(upvals[c])
  BY DEF ToSet
<1>5. ValueOf(upvals[c][i]) \in Slot
  BY <1>1, <1>3, ValueIs
<1>6. QED
  BY <1>2, <1>3, <1>4, <1>5

LEMMA Pushed ==
  ASSUME Types, Live(L), NEW x, Good(x), Room, push(x), UNCHANGED <<L, code, uvs, gc>>
  PROVE  StackStep({x})
BY PushIs, StackIs DEF StackStep, Good, Live, gc

LEMMA Put ==
  ASSUME Types, Live(L), NEW x, Good(x), NEW th \in Threads, NEW l \in 1 .. Len(stack[th]),
         stack' = [stack EXCEPT ![th][l] = x], UNCHANGED <<L, code, uvs, gc>>
  PROVE  StackStep({x})
BY PutIs, StackIs DEF StackStep, Good, Live, gc

LEMMA Switched ==
  ASSUME Types, Live(L), LiveValues, NEW to \in Threads, Live(to), NEW X \in One, switch(to, X)
  PROVE  StackStep(AtHand \ {Nil})
<1>1. PICK r \in Seq(Slot) : r = X /\ r \in One
  BY OneIs
<1>2. PICK st \in Seq(Slot) : st = stack[to] /\ Len(st) \in 0 .. StackSize
  BY StackIs
<1>3. PICK s : s = st \o r
  OBVIOUS
<1>4. s = SubSeq(st, 1, Len(st)) \o r
  <2>1. st = SubSeq(st, 1, Len(st))
    OBVIOUS
  <2>2. QED
    BY <1>3, <2>1
<1>5. PICK m : m = Len(st)
  OBVIOUS
<1>6. m \in 0 .. Len(stack[to]) /\ m + Len(r) <= StackSize /\ s = SubSeq(stack[to], 1, m) \o r
  BY <1>1, <1>2, <1>4, <1>5 DEF switch
<1>7. GrownSeq(stack[to], s, AtHand \ {Nil}) /\ Len(s) = m + Len(r)
  BY <1>1, <1>6, TakeIs
<1>8. Len(stack[to]) <= Len(s)
  BY <1>1, <1>2, <1>5, <1>7
<1>9. OneOther(stack, to, s, stack')
  BY <1>1, <1>2, <1>3 DEF switch, OneOther
<1>10. StackOK(stack)
  BY StackIs
<1>11. StackOK(stack') /\ Longer(stack, stack') /\ Grown(stack, stack', AtHand \ {Nil})
  <2>1. StackOK(stack')
    BY <1>7, <1>8, <1>9, <1>10, OneStack
  <2>2. Longer(stack, stack')
    BY <1>7, <1>8, <1>9, <1>10, OneStack
  <2>3. Grown(stack, stack', AtHand \ {Nil})
    BY <1>7, <1>8, <1>9, <1>10, OneStack
  <2>4. QED
    BY <2>1, <2>2, <2>3
<1>12. \A x \in AtHand \ {Nil} : Good(x)
  BY GoodStack
<1>13. L' = to /\ UNCHANGED <<code, uvs, gc>>
  BY DEF switch
<1>14. Live(L')
  BY <1>13 DEF Live
<1>15. QED
  BY <1>11, <1>12, <1>13, <1>14 DEF StackStep

LEMMA Resumed ==
  ASSUME IInv, NEW X \in One, yield(X) \/ \E co \in Coroutines : resume(co, X)
  PROVE  StackStep(AtHand \ {Nil})
<1>1. Types /\ Live(L) /\ LiveValues /\ Live(MainThread)
  BY Kinds DEF IInv, SInv, Alive
<1>2. CASE yield(X)
  BY <1>1, <1>2, Switched, Kinds DEF yield
<1>3. ASSUME NEW co \in Coroutines, resume(co, X) PROVE StackStep(AtHand \ {Nil})
  <2>1. co \in Threads /\ co \in AtHand /\ co # Nil /\ switch(co, X)
    BY <1>3, Kinds DEF resume
  <2>2. Live(co)
    BY <1>1, <2>1, GoodStack DEF Good
  <2>3. QED
    BY <1>1, <2>1, <2>2, Switched
<1>4. QED
  BY <1>2, <1>3

LEMMA StackStepSInv ==
  ASSUME SInv, NEW X, StackStep(X)
  PROVE  SInv'
BY StackOnly DEF StackStep

-----------------------------------------------------------------------------
(* Colors                                                                    *)

Shades == {"free", "white", "dead", "gray", "black"}

\* Some white objects turn gray while marks are propagated, those of S among them.
BarrierSays(S) ==
  /\ color' \in [Obj -> Shades] /\ gray' \subseteq Obj /\ gray \subseteq gray'
  /\ \A o \in Obj : \/ color'[o] = color[o]
                    \/ keepinvariant /\ iswhite(o) /\ color'[o] = "gray" /\ o \in gray'
  /\ \A o \in gray' : o \in gray \/ (keepinvariant /\ color'[o] = "gray")
  /\ keepinvariant => \A o \in S \ {Nil} : color'[o] \notin {"white", "dead"}

LEMMA BarrierIs ==
  ASSUME Types, NEW S \in SUBSET Slot, luaC_upvalbarrier(S)
  PROVE  BarrierSays(S)
<1>1. color \in [Obj -> Shades] /\ gray \subseteq Obj
  BY DEF Types, Shades
<1>2. CASE ~ keepinvariant
  BY <1>1, <1>2 DEF luaC_upvalbarrier, BarrierSays
<1>3. CASE keepinvariant
  <2>1. PICK M : M = {o \in S \ {Nil} : iswhite(o)}
    OBVIOUS
  <2>2. M \subseteq Obj /\ \A o \in S \ {Nil} : o \in Obj /\ (o \in M <=> iswhite(o))
    BY <2>1, Kinds DEF Slot
  <2>3. color' = [o \in Obj |-> IF o \in M THEN "gray" ELSE color[o]] /\ gray' = gray \cup M
    BY <1>3, <2>1 DEF luaC_upvalbarrier, Marking
  <2>4. \A o \in M : iswhite(o)
    BY <2>1
  <2>5. color' \in [Obj -> Shades] /\ gray' \subseteq Obj /\ gray \subseteq gray'
    BY <1>1, <2>2, <2>3 DEF Shades
  <2>6. ASSUME NEW o \in Obj
        PROVE  \/ color'[o] = color[o]
               \/ keepinvariant /\ iswhite(o) /\ color'[o] = "gray" /\ o \in gray'
    BY <1>3, <2>3, <2>4
  <2>7. \A o \in gray' : o \in gray \/ (keepinvariant /\ color'[o] = "gray")
    BY <1>3, <2>2, <2>3
  <2>8. \A o \in S \ {Nil} : color'[o] \notin {"white", "dead"}
    BY <2>2, <2>3 DEF iswhite
  <2>9. QED
    BY <2>5, <2>6, <2>7, <2>8 DEF BarrierSays
<1>4. QED
  BY <1>2, <1>3

LEMMA BarrierNoneGoes ==
  ASSUME NEW S, BarrierSays(S)
  PROVE  NoneGoes /\ \A o \in Obj : Live(o) => Live(o)'
BY DEF BarrierSays, NoneGoes, Live

-----------------------------------------------------------------------------
(* Steps that keep the references and the lists                              *)

\* OP_SETUPVAL on an open upvalue changes a stack, on a closed one its value.
LEMMA SetupvalIs ==
  ASSUME IInv, NEW c \in Running, NEW i \in DOMAIN upvals[c], NEW x \in AtHand \cup {Nil},
         setupval(c, i, x)
  PROVE  \/ StackStep({x})
         \/ /\ value' = [value EXCEPT ![upvals[c][i]] = x] /\ ~ upisopen(upvals[c][i])
            /\ upvals[c][i] \in UpVal
            /\ BarrierSays({x}) /\ Good(x)
            /\ UNCHANGED <<stack, L, code, at, refcount, touched, openupval, twups, gcstate, unswept>>
<1>1. SInv /\ Types /\ Lists /\ Live(L) /\ LiveValues
  BY DEF IInv, SInv, Alive
<1>2. PICK u \in UpVal : u = upvals[c][i]
  BY GoodUpvalue
<1>3. Good(x) /\ x \in Slot
  BY <1>1, GoodStack DEF Good
<1>4. UNCHANGED <<L, code, at, refcount, touched, openupval, twups, gcstate, unswept>>
  BY DEF setupval
<1>5. CASE upisopen(u)
  <2>1. ThreadOf(u) \in Threads /\ LevelOf(u) \in 1 .. Len(stack[ThreadOf(u)])
    BY <1>1, <1>5, OpenUpvalue
  <2>2. stack' = [stack EXCEPT ![ThreadOf(u)][LevelOf(u)] = x] /\ UNCHANGED <<value, color, gray>>
    BY <1>2, <1>5 DEF setupval
  <2>3. UNCHANGED <<L, code, uvs, gc>>
    BY <1>4, <2>2 DEF uvs, gc
  <2>4. StackStep({x})
    BY <1>1, <1>3, <2>1, <2>2, <2>3, Put
  <2>5. QED
    BY <2>4
<1>6. CASE ~ upisopen(u)
  <2>1. value' = [value EXCEPT ![upvals[c][i]] = x] /\ luaC_upvalbarrier({x}) /\ UNCHANGED stack
    BY <1>2, <1>6 DEF setupval
  <2>2. BarrierSays({x})
    BY <1>1, <1>3, <2>1, BarrierIs
  <2>3. QED
    BY <1>2, <1>3, <1>4, <1>6, <2>1, <2>2
<1>7. QED
  BY <1>5, <1>6

LEMMA SetupvalSInv ==
  ASSUME IInv, NEW c \in Running, NEW i \in DOMAIN upvals[c], NEW x \in AtHand \cup {Nil},
         setupval(c, i, x)
  PROVE  SInv'
<1>1. SInv /\ Types
  BY DEF IInv, SInv
<1>2. CASE StackStep({x})
  BY <1>1, <1>2, StackStepSInv
<1>3. CASE ~ StackStep({x})
  <2>1. /\ value' = [value EXCEPT ![upvals[c][i]] = x]
        /\ BarrierSays({x}) /\ x \in Slot
        /\ UNCHANGED <<stack, L, code, at, refcount, touched, openupval, twups, gcstate, unswept>>
    BY <1>3, SetupvalIs DEF Good
  <2>2. value' \in [UpVal -> Values \cup {Nil}]
    BY <1>1, <2>1 DEF Types, Slot
  <2>3. color' \in [Obj -> Shades] /\ gray' \subseteq Obj
    BY <2>1 DEF BarrierSays
  <2>4. Types'
    BY <1>1, <2>1, <2>2, <2>3 DEF Types, code, Shades
  <2>5. StackOK(stack') /\ Longer(stack, stack')
    BY <1>1, <2>1, StackIs DEF Longer
  <2>6. QED
    BY <1>1, <2>1, <2>4, <2>5, BarrierNoneGoes, Quiet DEF code
<1>4. QED
  BY <1>2, <1>3

LEMMA NewthreadIs ==
  ASSUME Types, Live(L), NEW th \in NewObj \cap Coroutines, newthread(th)
  PROVE  /\ th \in Threads /\ color[th] = "free" /\ th # L /\ th \in Obj
         /\ StackOK(stack') /\ stack'[th] = <<>> /\ \A t \in Threads \ {L, th} : stack'[t] = stack[t]
         /\ stack'[L] = Append(stack[L], th)
         /\ \A t \in Threads \ {th} : Len(stack[t]) <= Len(stack'[t])
         /\ Grown(stack, stack', {th})
<1>1. th \in Threads /\ color[th] = "free" /\ th # L /\ th \in Obj /\ th \in Slot
  BY Kinds DEF NewObj, Live, Slot
<1>2. StackOK(stack) /\ L \in Threads
  BY StackIs
<1>3. PICK new : new = [stack EXCEPT ![L] = Append(@, th)]
  OBVIOUS
<1>4. stack' = [new EXCEPT ![th] = <<>>]
  BY <1>1, <1>3 DEF newthread
<1>5. GrownSeq(stack[L], Append(stack[L], th), {th}) /\ Len(stack[L]) <= Len(Append(stack[L], th))
  BY <1>1, AppendIs DEF newthread
<1>6. PICK t : t = Append(stack[L], th)
  OBVIOUS
<1>7. OneOther(stack, L, t, new) /\ GrownSeq(stack[L], t, {th}) /\ Len(stack[L]) <= Len(t)
  BY <1>3, <1>5, <1>6 DEF OneOther
<1>8. StackOK(new) /\ Grown(stack, new, {th}) /\ Longer(stack, new)
      /\ new[L] = t /\ \A d \in Threads \ {L} : new[d] = stack[d]
  <2>1. StackOK(new)
    BY <1>2, <1>7, OneStack
  <2>2. Grown(stack, new, {th})
    BY <1>2, <1>7, OneStack
  <2>3. Longer(stack, new)
    BY <1>2, <1>7, OneStack
  <2>4. new[L] = t
    BY <1>2, <1>7, OneStack
  <2>5. \A d \in Threads \ {L} : new[d] = stack[d]
    BY <1>2, <1>7, OneStack
  <2>6. QED
    BY <2>1, <2>2, <2>3, <2>4, <2>5
<1>9. stack'[th] = <<>> /\ (\A d \in Threads \ {th} : stack'[d] = new[d])
      /\ stack' = [d \in Threads |-> stack'[d]]
  BY <1>1, <1>4, <1>8 DEF StackOK
<1>10. <<>> \in Seq(Slot) /\ Len(<<>>) = 0
  OBVIOUS
<1>11. StackOK(stack')
  <2>1. StackSize \in Nat
    BY Kinds
  <2>2. ASSUME NEW d \in Threads PROVE stack'[d] \in Seq(Slot) /\ Len(stack'[d]) <= StackSize
    <3>1. CASE d = th
      BY <1>9, <1>10, <2>1, <3>1
    <3>2. CASE d # th
      BY <1>8, <1>9, <3>2 DEF StackOK
    <3>3. QED
      BY <3>1, <3>2
  <2>3. QED
    BY <1>9, <2>2 DEF StackOK
<1>12. ASSUME NEW d \in Threads, NEW l \in 1 .. Len(stack'[d])
       PROVE  stack'[d][l] \in {th} \/ (l <= Len(stack[d]) /\ stack'[d][l] = stack[d][l])
  <2>1. d # th
    BY <1>9, <1>10
  <2>2. QED
    BY <1>8, <1>9, <2>1 DEF Grown
<1>13. \A d \in Threads \ {th} : Len(stack[d]) <= Len(stack'[d])
  BY <1>8, <1>9 DEF Longer
<1>14. Grown(stack, stack', {th})
  BY <1>12 DEF Grown
<1>15. stack'[L] = Append(stack[L], th) /\ \A d \in Threads \ {L, th} : stack'[d] = stack[d]
  BY <1>1, <1>2, <1>6, <1>8, <1>9
<1>16. QED
  BY <1>1, <1>9, <1>11, <1>13, <1>14, <1>15

LEMMA NewthreadSInv ==
  ASSUME SInv, Live(L), NEW th \in NewObj \cap Coroutines, newthread(th)
  PROVE  SInv'
<1>1. Types /\ Counts /\ Lists /\ Gone
  BY DEF SInv
<1>2. /\ th \in Threads /\ color[th] = "free" /\ th # L /\ th \in Obj
      /\ StackOK(stack') /\ stack'[th] = <<>>
      /\ \A t \in Threads \ {th} : Len(stack[t]) <= Len(stack'[t])
  BY <1>1, NewthreadIs
<1>3. color' = [color EXCEPT ![th] = "white"]
      /\ UNCHANGED <<L, code, uvs, gcstate, gray, unswept>>
  BY DEF newthread
<1>4. Types'
  BY <1>1, <1>2, <1>3 DEF Types, code, uvs, StackOK, Slot
<1>5. Counts'
  BY <1>1, <1>3 DEF Counts, Exact, Refs, code, uvs
<1>6. Lists'
  <2>1. openupval' = openupval /\ at' = at
    BY <1>3 DEF uvs
  <2>2. ASSUME NEW d \in Threads
        PROVE  Ordered(openupval[d], at, d, Len(stack'[d])) /\ Complete(openupval[d], at, d)
    <3>1. Ordered(openupval[d], at, d, Len(stack[d])) /\ Complete(openupval[d], at, d)
      BY <1>1 DEF Lists
    <3>2. CASE d = th
      <4>1. openupval[d] = <<>>
        BY <1>1, <1>2, <3>2 DEF Gone
      <4>2. Len(openupval[d]) = 0
        BY <4>1
      <4>3. Ordered(openupval[d], at, d, Len(stack'[d]))
        BY <4>2 DEF Ordered
      <4>4. QED
        BY <3>1, <4>3
    <3>3. CASE d # th
      <4>1. Len(stack[d]) <= Len(stack'[d])
        BY <1>2, <3>3
      <4>2. Len(stack[d]) \in Nat /\ Len(stack'[d]) \in Nat
        BY <1>1, <1>2, StackIs DEF StackOK
      <4>3. openupval[d] \in Seq(UpVal)
        BY <1>1 DEF Types
      <4>4. \A i \in 1 .. Len(openupval[d]) : at[openupval[d][i]][2] \in Nat
        BY <3>1, <4>3, OrderedIs
      <4>5. Ordered(openupval[d], at, d, Len(stack'[d]))
        BY <3>1, <4>1, <4>2, <4>4 DEF Ordered
      <4>6. QED
        BY <3>1, <4>5
    <3>4. QED
      BY <3>2, <3>3
  <2>3. QED
    BY <2>1, <2>2 DEF Lists
<1>7. Gone'
  <2>1. NoneGoes
    BY <1>1, <1>2, <1>3 DEF NoneGoes, Types
  <2>2. QED
    BY <1>1, <1>3, <2>1, GoneKept DEF code, uvs
<1>8. QED
  BY <1>4, <1>5, <1>6, <1>7 DEF SInv

-----------------------------------------------------------------------------
(* Steps of the collector that free nothing                                  *)

LEMMA SameStacks ==
  ASSUME Types, stack' = stack
  PROVE  StackOK(stack') /\ Longer(stack, stack')
BY StackIs DEF Longer

LEMMA RestartSInv ==
  ASSUME SInv, restartcollection
  PROVE  SInv'
<1>1. Types /\ StackOK(stack') /\ Longer(stack, stack')
  BY SameStacks DEF SInv, restartcollection
<1>2. Roots \subseteq Obj
  BY Kinds
<1>3. Types'
  <2>1. color' \in [Obj -> Shades] /\ gray' \subseteq Obj
    BY <1>1, <1>2 DEF restartcollection, Types, Shades
  <2>2. QED
    BY <1>1, <2>1 DEF restartcollection, Types, Shades, code, uvs
<1>4. NoneGoes
  BY DEF NoneGoes, restartcollection
<1>5. QED
  BY <1>1, <1>3, <1>4, Quiet DEF restartcollection, code, uvs

LEMMA EndcycleSInv ==
  ASSUME SInv, endcycle
  PROVE  SInv'
<1>1. Types /\ StackOK(stack') /\ Longer(stack, stack')
  BY SameStacks DEF SInv, endcycle
<1>2. Types'
  BY <1>1, Kinds DEF endcycle, Types, code, uvs
<1>3. NoneGoes
  BY <1>1, Kinds DEF NoneGoes, endcycle, Types
<1>4. QED
  BY <1>1, <1>2, <1>3, Quiet DEF endcycle, code, uvs

\* The objects that o makes gray.
Whites(o) ==
  {x \in (CASE o \in Threads  -> ToSet(stack[o])
            [] o \in Closures -> {ValueOf(u) : u \in ClosedOf(o)} \cup {proto[o]}
            [] o \in Protos   -> {}) \ {Nil} : iswhite(x)}

LEMMA WhitesAre ==
  ASSUME Types, Lists, NEW o \in Obj
  PROVE  /\ Whites(o) \subseteq Obj /\ \A x \in Whites(o) : iswhite(x)
         /\ o \in Threads => \A x \in ToSet(stack[o]) \ {Nil} : iswhite(x) => x \in Whites(o)
         /\ o \in Closures =>
              \A u \in ToSet(upvals[o]) :
                ~ upisopen(u) /\ value[u] # Nil /\ iswhite(value[u]) => value[u] \in Whites(o)
<1> DEFINE refs == CASE o \in Threads  -> ToSet(stack[o])
                     [] o \in Closures -> {ValueOf(u) : u \in ClosedOf(o)} \cup {proto[o]}
                     [] o \in Protos   -> {}
<1>1. Whites(o) = {x \in refs \ {Nil} : iswhite(x)}
  BY DEF Whites
<1>2. CASE o \in Threads
  <2>1. o \notin Closures /\ o \notin Protos
    BY <1>2, Kinds
  <2>2. refs = ToSet(stack[o])
    BY <1>2, <2>1
  <2>3. ToSet(stack[o]) \subseteq Obj \cup {Nil}
    BY <1>2, StackIs, Kinds DEF Slot
  <2>4. QED
    BY <1>1, <2>1, <2>2, <2>3
<1>3. CASE o \in Closures
  <2>1. o \notin Threads /\ o \notin Protos
    BY <1>3, Kinds
  <2>2. refs = {ValueOf(u) : u \in ClosedOf(o)} \cup {proto[o]}
    BY <1>3, <2>1
  <2>3. \A u \in ClosedOf(o) : u \in UpVal
    BY <1>3, UpvalsOf DEF ClosedOf
  <2>4. \A u \in ClosedOf(o) : ValueOf(u) \in Obj \cup {Nil}
    BY <2>3, ValueIs, Kinds DEF Slot
  <2>5. proto[o] \in Obj \cup {Nil}
    BY <1>3, Kinds DEF Types
  <2>6. \A u \in ToSet(upvals[o]) : ~ upisopen(u) => u \in ClosedOf(o) /\ ValueOf(u) = value[u]
    BY DEF ClosedOf, OpenOf, ValueOf
  <2>7. QED
    BY <1>1, <2>1, <2>2, <2>4, <2>5, <2>6
<1>4. CASE o \in Protos
  <2>1. o \notin Threads /\ o \notin Closures
    BY <1>4, Kinds
  <2>2. refs = {}
    BY <1>4, <2>1
  <2>3. QED
    BY <1>1, <2>1, <2>2
<1>5. QED
  BY <1>2, <1>3, <1>4, Kinds

LEMMA PropagateIs ==
  ASSUME Types, Lists, NEW o \in Obj, propagatemark(o)
  PROVE  /\ gcstate = "propagate" /\ o \in gray
         /\ color' \in [Obj -> Shades] /\ gray' = (gray \ {o}) \cup Whites(o) /\ gray' \subseteq Obj
         /\ \A x \in Obj : color'[x] = IF x = o /\ o \notin Threads THEN "black"
                                       ELSE IF x \in Whites(o) THEN "gray" ELSE color[x]
         /\ \A u \in UpVal : /\ touched'[u] \in BOOLEAN /\ (touched[u] => touched'[u])
                             /\ o \in Closures /\ u \in OpenOf(o) => touched'[u]
         /\ touched' \in [UpVal -> BOOLEAN]
         /\ cache' \in [Protos -> Closures \cup {Nil}]
         /\ \A p \in Protos : \/ cache'[p] = cache[p] /\ (p = o => cache[p] = Nil \/ ~ iswhite(cache[p]))
                              \/ p = o /\ cache'[p] = Nil
         /\ UNCHANGED <<stack, L, proto, upvals, at, value, refcount, openupval, twups, gcstate, unswept>>
<1>1. Whites(o) \subseteq Obj
  BY WhitesAre
<1>2. /\ gcstate = "propagate" /\ o \in gray
      /\ color' = [x \in Obj |-> IF x = o /\ o \notin Threads THEN "black"
                                 ELSE IF x \in Whites(o) THEN "gray" ELSE color[x]]
      /\ gray' = (gray \ {o}) \cup Whites(o)
  BY DEF propagatemark, Whites
<1>3. /\ touched' = IF o \in Closures
                    THEN [u \in UpVal |-> touched[u] \/ u \in OpenOf(o)]
                    ELSE touched
      /\ cache' = IF o \in Protos /\ cache[o] # Nil /\ iswhite(cache[o])
                  THEN [cache EXCEPT ![o] = Nil]
                  ELSE cache
      /\ UNCHANGED <<stack, L, proto, upvals, at, value, refcount, openupval, twups, gcstate, unswept>>
  BY DEF propagatemark
<1>4. color' \in [Obj -> Shades] /\ gray' \subseteq Obj
  BY <1>1, <1>2 DEF Types, Shades
<1>5. \A x \in Obj : color'[x] = IF x = o /\ o \notin Threads THEN "black"
                                 ELSE IF x \in Whites(o) THEN "gray" ELSE color[x]
  BY <1>2
<1>6. /\ \A u \in UpVal : /\ touched'[u] \in BOOLEAN /\ (touched[u] => touched'[u])
                          /\ o \in Closures /\ u \in OpenOf(o) => touched'[u]
      /\ touched' \in [UpVal -> BOOLEAN]
  <2>1. touched \in [UpVal -> BOOLEAN]
    BY DEF Types
  <2>2. CASE o \in Closures
    <3>1. touched' = [u \in UpVal |-> touched[u] \/ u \in OpenOf(o)]
      BY <1>3, <2>2
    <3>2. QED
      BY <2>1, <3>1
  <2>3. CASE o \notin Closures
    BY <1>3, <2>1, <2>3
  <2>4. QED
    BY <2>2, <2>3
<1>7. /\ cache' \in [Protos -> Closures \cup {Nil}]
      /\ \A p \in Protos : \/ cache'[p] = cache[p] /\ (p = o => cache[p] = Nil \/ ~ iswhite(cache[p]))
                           \/ p = o /\ cache'[p] = Nil
  <2>1. cache \in [Protos -> Closures \cup {Nil}]
    BY DEF Types
  <2>2. CASE o \in Protos /\ cache[o] # Nil /\ iswhite(cache[o])
    BY <1>3, <2>1, <2>2
  <2>3. CASE ~ (o \in Protos /\ cache[o] # Nil /\ iswhite(cache[o]))
    BY <1>3, <2>1, <2>3
  <2>4. QED
    BY <2>2, <2>3
<1>8. QED
  BY <1>2, <1>3, <1>4, <1>5, <1>6, <1>7

LEMMA PropagateSInv ==
  ASSUME SInv, NEW o \in Obj, propagatemark(o)
  PROVE  SInv'
<1>1. Types /\ Lists
  BY DEF SInv
<1>2. /\ color' \in [Obj -> Shades] /\ gray' \subseteq Obj
      /\ \A x \in Obj : color'[x] = IF x = o /\ o \notin Threads THEN "black"
                                    ELSE IF x \in Whites(o) THEN "gray" ELSE color[x]
      /\ touched' \in [UpVal -> BOOLEAN] /\ cache' \in [Protos -> Closures \cup {Nil}]
      /\ UNCHANGED <<stack, L, proto, upvals, at, value, refcount, openupval, twups, gcstate, unswept>>
  BY <1>1, PropagateIs
<1>3. Types'
  BY <1>1, <1>2 DEF Types, Shades
<1>4. NoneGoes
  BY <1>2 DEF NoneGoes
<1>5. StackOK(stack') /\ Longer(stack, stack')
  BY <1>1, <1>2, SameStacks
<1>6. QED
  BY <1>2, <1>3, <1>4, <1>5, Quiet

LEMMA AtomicSInv ==
  ASSUME SInv, atomic
  PROVE  SInv'
<1>1. Types /\ StackOK(stack') /\ Longer(stack, stack')
  BY SameStacks DEF SInv, atomic
<1>2. UNCHANGED <<stack, L, code, at, value, refcount, openupval, gray>> /\ gcstate' = "sweep"
  BY DEF atomic
<1>3. touched' \in [UpVal -> BOOLEAN]
  BY <1>1 DEF atomic, Types
<1>4. twups' \subseteq Threads /\ unswept' \subseteq Obj
  BY <1>1 DEF atomic, Types
<1>5. color' \in [Obj -> Shades] /\ NoneGoes
  BY DEF atomic, Shades, NoneGoes
<1>6. Types'
  BY <1>1, <1>2, <1>3, <1>4, <1>5 DEF Types, Shades, code
<1>7. QED
  BY <1>1, <1>2, <1>5, <1>6, Quiet DEF code

-----------------------------------------------------------------------------
(* luaF_close                                                                *)

\* Upvalue u is open for a slot of th at 'level' or above.
OpenAt(u, th, level) == at[u] \in Slots /\ at[u][1] = th /\ at[u][2] >= level

LEMMA ClosingIs ==
  ASSUME Types, Lists, NEW th \in Threads, NEW level \in Nat
  PROVE  /\ Closing(th, level) \subseteq UpVal /\ Lower(th, level) \in Seq(UpVal)
         /\ \A u \in UpVal : u \in Closing(th, level) <=> OpenAt(u, th, level)
         /\ Ordered(Lower(th, level), at, th, level - 1)
         /\ \A i \in 1 .. Len(Lower(th, level)) : Lower(th, level)[i] \in UpVal \ Closing(th, level)
         /\ \A u \in UpVal : at[u] \in Slots /\ at[u][1] = th /\ u \notin Closing(th, level) =>
              \E i \in 1 .. Len(Lower(th, level)) : Lower(th, level)[i] = u
<1>1. PICK open \in Seq(UpVal) : open = openupval[th]
  BY DEF Types
<1>2. Ordered(open, at, th, Len(stack[th])) /\ Complete(open, at, th)
  BY <1>1 DEF Lists
<1>3. PICK k : k = Above(open, at, level) /\ IsAbove(open, at, level, k)
  BY <1>2, AboveIs
<1>4. PICK rest : rest = SubSeq(open, k + 1, Len(open))
  OBVIOUS
<1>5. k \in 0 .. Len(open) /\ Len(open) \in Nat
  BY <1>3 DEF IsAbove
<1>6. IsRest(open, k, rest)
  BY <1>4, <1>5, RestIs
<1>7. Lower(th, level) = rest /\ Closing(th, level) = {open[i] : i \in 1 .. k}
  BY <1>1, <1>3, <1>4 DEF Lower, Closing
<1>8. IsAbove(open, at, level, k)
  BY <1>3
<1>9. /\ Ordered(rest, at, th, level - 1)
      /\ \A i \in 1 .. k : \A j \in 1 .. Len(rest) : open[i] # rest[j]
  BY <1>2, <1>6, <1>8, LowerIs
<1>10. /\ rest \in Seq(UpVal) /\ Len(rest) = Len(open) - k
       /\ \A i \in 1 .. Len(rest) : rest[i] = open[k + i]
  BY <1>6 DEF IsRest
<1>11. /\ \A i \in 1 .. k : at[open[i]][2] >= level
       /\ \A i \in k + 1 .. Len(open) : at[open[i]][2] < level
  BY <1>8 DEF IsAbove
<1>12. \A i \in 1 .. Len(open) : /\ open[i] \in UpVal /\ at[open[i]] \in Slots /\ at[open[i]][1] = th
                                 /\ at[open[i]][2] \in Nat
  BY <1>2, OrderedIs
<1>13. \A i \in 1 .. k : i \in 1 .. Len(open)
  BY <1>5
<1>14. ASSUME NEW u \in UpVal PROVE u \in Closing(th, level) <=> OpenAt(u, th, level)
  <2>1. ASSUME u \in Closing(th, level) PROVE OpenAt(u, th, level)
    <3>1. PICK i \in 1 .. k : u = open[i]
      BY <1>7, <2>1
    <3>2. QED
      BY <1>11, <1>12, <1>13, <3>1 DEF OpenAt
  <2>2. ASSUME OpenAt(u, th, level) PROVE u \in Closing(th, level)
    <3>1. PICK i \in 1 .. Len(open) : open[i] = u
      BY <1>2, <2>2 DEF OpenAt, Complete
    <3>2. at[open[i]][2] >= level /\ at[open[i]][2] \in Nat
      BY <1>12, <2>2, <3>1 DEF OpenAt
    <3>3. ~ (i \in k + 1 .. Len(open))
      BY <1>11, <3>2
    <3>4. i \in 1 .. k
      BY <1>5, <3>3
    <3>5. QED
      BY <1>7, <3>1, <3>4
  <2>3. QED
    BY <2>1, <2>2
<1>15. Closing(th, level) \subseteq UpVal
  BY <1>7, <1>12, <1>13
<1>16. ASSUME NEW i \in 1 .. Len(rest) PROVE rest[i] \in UpVal \ Closing(th, level)
  <2>1. rest[i] \in UpVal
    BY <1>10, ElementOfSeq
  <2>2. rest[i] \notin {open[j] : j \in 1 .. k}
    BY <1>9
  <2>3. QED
    BY <1>7, <2>1, <2>2
<1>17. ASSUME NEW u \in UpVal, at[u] \in Slots, at[u][1] = th, u \notin Closing(th, level)
       PROVE  \E i \in 1 .. Len(rest) : rest[i] = u
  <2>1. PICK i \in 1 .. Len(open) : open[i] = u
    BY <1>2, <1>17 DEF Complete
  <2>2. ~ (i \in 1 .. k)
    BY <1>7, <1>17, <2>1
  <2>3. i - k \in 1 .. Len(rest) /\ k + (i - k) = i
    BY <1>5, <1>10, <2>2
  <2>4. rest[i - k] = u
    BY <1>10, <2>1, <2>3
  <2>5. QED
    BY <2>3, <2>4
<1>18. QED
  BY <1>7, <1>9, <1>10, <1>14, <1>15, <1>16, <1>17

\* What luaF_close does to the upvalues.
Closed(th, level) ==
  LET S == Closing(th, level)
  IN /\ at' \in [UpVal -> {Freed, Own} \cup Slots] /\ value' \in [UpVal -> Slot]
     /\ touched' \in [UpVal -> BOOLEAN] /\ openupval' \in [Threads -> Seq(UpVal)]
     /\ openupval'[th] = Lower(th, level)
     /\ \A t \in Threads \ {th} : openupval'[t] = openupval[t]
     /\ \A u \in UpVal \ S : at'[u] = at[u] /\ value'[u] = value[u] /\ touched'[u] = touched[u]
     /\ \A u \in S : IF refcount[u] > 0 THEN at'[u] = Own /\ value'[u] = ValueOf(u)
                                        ELSE at'[u] = Freed

LEMMA CloseIs ==
  ASSUME Types, Lists, NEW th \in Threads, NEW level \in Nat, luaF_close(th, level)
  PROVE  Closed(th, level)
<1> DEFINE S == Closing(th, level)
           K == {u \in S : refcount[u] > 0}
<1>1. S \subseteq UpVal /\ Lower(th, level) \in Seq(UpVal)
  BY ClosingIs
<1>2. /\ openupval' = [openupval EXCEPT ![th] = Lower(th, level)]
      /\ at' = [u \in UpVal |-> IF u \in K THEN Own ELSE IF u \in S THEN Freed ELSE at[u]]
      /\ touched' = [u \in UpVal |-> touched[u] /\ u \notin S]
      /\ value' = [u \in UpVal |-> IF u \in K THEN ValueOf(u) ELSE value[u]]
  BY DEF luaF_close
<1>3. \A u \in K : ValueOf(u) \in Slot
  BY <1>1, ValueIs
<1>4. \A u \in UpVal : u \in K <=> u \in S /\ refcount[u] > 0
  OBVIOUS
<1> HIDE DEF S, K
<1>5. at' \in [UpVal -> {Freed, Own} \cup Slots] /\ value' \in [UpVal -> Slot]
  BY <1>2, <1>3 DEF Types, Slot
<1>6. touched' \in [UpVal -> BOOLEAN]
  BY <1>2 DEF Types
<1>7. /\ openupval' \in [Threads -> Seq(UpVal)] /\ openupval'[th] = Lower(th, level)
      /\ \A t \in Threads \ {th} : openupval'[t] = openupval[t]
  BY <1>1, <1>2 DEF Types
<1>8. ASSUME NEW u \in UpVal \ S
      PROVE  at'[u] = at[u] /\ value'[u] = value[u] /\ touched'[u] = touched[u]
  <2>1. u \notin S /\ u \notin K /\ touched[u] \in BOOLEAN
    BY <1>4 DEF Types
  <2>2. touched'[u] = touched[u]
    BY <1>2, <2>1
  <2>3. QED
    BY <1>2, <2>1, <2>2
<1>9. \A u \in S : IF refcount[u] > 0 THEN at'[u] = Own /\ value'[u] = ValueOf(u)
                                      ELSE at'[u] = Freed
  BY <1>1, <1>2, <1>4
<1>10. QED
  BY <1>5, <1>6, <1>7, <1>8, <1>9 DEF Closed, S

\* The lists and the counts after that, when slots below 'level' stay.
LEMMA ClosedLists ==
  ASSUME Types, Lists, Counts, NEW th \in Threads, NEW level \in Nat, Closed(th, level),
         StackOK(stack'), level <= Len(stack'[th]) + 1,
         \A t \in Threads \ {th} : stack'[t] = stack[t]
  PROVE  /\ Lists'
         /\ \A u \in UpVal : /\ at'[u] = Freed => refcount[u] = 0
                             /\ at'[u] = Own => refcount[u] > 0
<1> DEFINE S == Closing(th, level)
<1>1. /\ S \subseteq UpVal
      /\ \A u \in UpVal : u \in S <=> OpenAt(u, th, level)
      /\ Ordered(Lower(th, level), at, th, level - 1)
      /\ \A i \in 1 .. Len(Lower(th, level)) : Lower(th, level)[i] \in UpVal \ S
      /\ \A u \in UpVal : at[u] \in Slots /\ at[u][1] = th /\ u \notin S =>
              \E i \in 1 .. Len(Lower(th, level)) : Lower(th, level)[i] = u
  BY ClosingIs
<1>2. /\ openupval'[th] = Lower(th, level)
      /\ \A t \in Threads \ {th} : openupval'[t] = openupval[t]
      /\ \A u \in UpVal \ S : at'[u] = at[u]
      /\ \A u \in S : IF refcount[u] > 0 THEN at'[u] = Own ELSE at'[u] = Freed
      /\ openupval' \in [Threads -> Seq(UpVal)]
  BY DEF Closed
<1>3. \A u \in UpVal : at'[u] \in Slots => u \notin S /\ at'[u] = at[u]
  BY <1>2, Places
<1> HIDE DEF S
<1>4. ASSUME NEW t \in Threads
      PROVE  Ordered(openupval'[t], at', t, Len(stack'[t])) /\ Complete(openupval'[t], at', t)
  <2>1. CASE t = th
    <3>1. PICK rest \in Seq(UpVal) : rest = openupval'[t] /\ rest = Lower(th, level)
      BY <1>2, <2>1
    <3>2. \A i \in 1 .. Len(rest) : rest[i] \in UpVal /\ at'[rest[i]] = at[rest[i]]
      BY <1>1, <1>2, <3>1
    <3>3. Ordered(rest, at, th, level - 1)
      BY <1>1, <3>1
    <3>4. \A i \in 1 .. Len(rest) : /\ at[rest[i]] \in Slots /\ at[rest[i]][1] = th
                                    /\ at[rest[i]][2] <= level - 1 /\ at[rest[i]][2] \in Nat
      BY <3>3, OrderedIs
    <3>5. PICK m \in Nat : m = Len(stack'[t])
      BY DEF StackOK
    <3>6. level - 1 <= m
      BY <2>1, <3>5
    <3>7. \A i \in 1 .. Len(rest) : /\ at'[rest[i]] \in Slots /\ at'[rest[i]][1] = th
                                    /\ at'[rest[i]][2] <= m
      <4>1. ASSUME NEW i \in 1 .. Len(rest)
            PROVE  /\ at'[rest[i]] \in Slots /\ at'[rest[i]][1] = th
                   /\ at'[rest[i]][2] <= m
        <5>1. at'[rest[i]] = at[rest[i]]
          BY <3>2
        <5>2. /\ at[rest[i]] \in Slots /\ at[rest[i]][1] = th
              /\ at[rest[i]][2] <= level - 1 /\ at[rest[i]][2] \in Nat
          BY <3>4
        <5>3. at[rest[i]][2] <= m
          BY <3>5, <3>6, <5>2
        <5>4. QED
          BY <5>1, <5>2, <5>3
      <4>2. QED
        BY <4>1
    <3>8. \A i, j \in 1 .. Len(rest) : i < j => at'[rest[j]][2] < at'[rest[i]][2]
      BY <3>2, <3>3 DEF Ordered
    <3>9. Ordered(rest, at', th, m)
      BY <3>7, <3>8 DEF Ordered
    <3>10. Complete(rest, at', th)
      BY <1>1, <1>3, <3>1 DEF Complete
    <3>11. QED
      BY <2>1, <3>1, <3>5, <3>9, <3>10
  <2>2. CASE t # th
    <3>1. PICK open \in Seq(UpVal) : open = openupval[t] /\ open = openupval'[t]
      BY <1>2, <2>2 DEF Types
    <3>2. Ordered(open, at, t, Len(stack[t])) /\ Complete(open, at, t)
      BY <3>1 DEF Lists
    <3>3. \A i \in 1 .. Len(open) : open[i] \in UpVal /\ at[open[i]] \in Slots /\ at[open[i]][1] = t
      BY <3>2, OrderedIs
    <3>4. \A i \in 1 .. Len(open) : at'[open[i]] = at[open[i]]
      <4>1. ASSUME NEW i \in 1 .. Len(open)
            PROVE  at'[open[i]] = at[open[i]]
        <5>1. open[i] \in UpVal /\ ~ OpenAt(open[i], th, level)
          BY <2>2, <3>3 DEF OpenAt
        <5>2. open[i] \in UpVal \ S
          BY <1>1, <5>1
        <5>3. QED
          BY <1>2, <5>2
      <4>2. QED
        BY <4>1
    <3>5. Ordered(open, at', t, Len(stack[t]))
      BY <3>2, <3>4 DEF Ordered
    <3>6. Complete(open, at', t)
      BY <1>3, <3>2 DEF Complete
    <3>7. stack'[t] = stack[t]
      BY <2>2
    <3>8. QED
      BY <3>1, <3>5, <3>6, <3>7
  <2>3. QED
    BY <2>1, <2>2
<1>5. Lists'
  BY <1>4 DEF Lists
<1>6. ASSUME NEW u \in UpVal
      PROVE  (at'[u] = Freed => refcount[u] = 0) /\ (at'[u] = Own => refcount[u] > 0)
  <2>1. refcount[u] \in Nat
    BY DEF Types
  <2>2. CASE u \in S
    BY <1>2, <2>1, <2>2, Places
  <2>3. CASE u \notin S
    BY <1>2, <2>3 DEF Counts
  <2>4. QED
    BY <2>2, <2>3
<1>7. QED
  BY <1>5, <1>6

LEMMA LeaveIs ==
  ASSUME Types, Lists, NEW level \in 1 .. top, NEW r \in One, leave(level, r)
  PROVE  /\ Closed(L, level) /\ level \in Nat
         /\ BarrierSays({ValueOf(u) : u \in {x \in Closing(L, level) : refcount[x] > 0}})
         /\ StackOK(stack') /\ Grown(stack, stack', AtHand \ {Nil})
         /\ \A t \in Threads \ {L} : stack'[t] = stack[t]
         /\ level <= Len(stack'[L]) + 1
         /\ UNCHANGED <<L, code, refcount, twups, gcstate, unswept>>
<1>1. L \in Threads /\ top = Len(stack[L]) /\ top \in 0 .. StackSize /\ StackSize \in Nat /\ level \in Nat
  BY StackIs
<1>2. /\ luaF_close(L, level)
      /\ luaC_upvalbarrier({ValueOf(u) : u \in {x \in Closing(L, level) : refcount[x] > 0}})
      /\ stack' = [stack EXCEPT ![L] = SubSeq(@, 1, level - 1) \o r]
      /\ UNCHANGED <<L, code, refcount, twups, gcstate, unswept>>
  BY DEF leave
<1>3. Closed(L, level)
  BY <1>1, <1>2, CloseIs
<1>4. Closing(L, level) \subseteq UpVal
  BY <1>1, ClosingIs
<1>5. {ValueOf(u) : u \in {x \in Closing(L, level) : refcount[x] > 0}} \in SUBSET Slot
  BY <1>4, ValueIs
<1>6. BarrierSays({ValueOf(u) : u \in {x \in Closing(L, level) : refcount[x] > 0}})
  BY <1>2, <1>5, BarrierIs
<1>7. PICK m : m = level - 1
  OBVIOUS
<1>8. PICK s : s = SubSeq(stack[L], 1, m) \o r
  OBVIOUS
<1>9. m \in 0 .. Len(stack[L]) /\ m + Len(r) <= StackSize /\ Len(r) \in 0 .. 1
  BY <1>1, <1>7, OneIs
<1>10. GrownSeq(stack[L], s, AtHand \ {Nil}) /\ Len(s) = m + Len(r)
  BY <1>1, <1>8, <1>9, TakeIs
<1>11. OneOther(stack, L, s, stack')
  BY <1>2, <1>7, <1>8 DEF OneOther
<1>12. StackOK(stack)
  BY StackIs
<1>13. StackOK(stack')
  BY <1>1, <1>10, <1>11, <1>12, OneStack
<1>14. Grown(stack, stack', AtHand \ {Nil})
  BY <1>1, <1>10, <1>11, <1>12, OneStack
<1>15. stack'[L] = s
  BY <1>1, <1>10, <1>11, <1>12, OneStack
<1>16. \A t \in Threads \ {L} : stack'[t] = stack[t]
  BY <1>11, <1>12 DEF OneOther, StackOK
<1>17. level <= Len(stack'[L]) + 1
  BY <1>1, <1>7, <1>9, <1>10, <1>15
<1>18. QED
  BY <1>1, <1>2, <1>3, <1>6, <1>13, <1>14, <1>16, <1>17

LEMMA LeaveSInv ==
  ASSUME SInv, Live(L), NEW level \in 1 .. top, NEW r \in One, leave(level, r)
  PROVE  SInv'
<1>1. Types /\ Counts /\ Lists /\ Gone /\ L \in Threads
  BY DEF SInv, Types
<1> DEFINE BS == {ValueOf(u) : u \in {x \in Closing(L, level) : refcount[x] > 0}}
<1>2. /\ Closed(L, level) /\ level \in Nat
      /\ BarrierSays(BS)
      /\ StackOK(stack') /\ \A t \in Threads \ {L} : stack'[t] = stack[t]
      /\ level <= Len(stack'[L]) + 1
      /\ UNCHANGED <<L, code, refcount, twups, gcstate, unswept>>
  BY <1>1, LeaveIs
<1> HIDE DEF BS
<1>3. /\ Lists'
      /\ \A u \in UpVal : /\ at'[u] = Freed => refcount[u] = 0
                          /\ at'[u] = Own => refcount[u] > 0
  BY <1>1, <1>2, ClosedLists
<1>4. Counts'
  BY <1>1, <1>2, <1>3 DEF Counts, Exact, Refs, code
<1>5. /\ at' \in [UpVal -> {Freed, Own} \cup Slots] /\ value' \in [UpVal -> Values \cup {Nil}]
      /\ touched' \in [UpVal -> BOOLEAN] /\ openupval' \in [Threads -> Seq(UpVal)]
      /\ \A t \in Threads \ {L} : openupval'[t] = openupval[t]
  BY <1>2 DEF Closed, Slot
<1>6. color' \in [Obj -> Shades] /\ gray' \subseteq Obj
  BY <1>2 DEF BarrierSays
<1>7. Types'
  BY <1>1, <1>2, <1>5, <1>6 DEF Types, Shades, code, StackOK, Slot
<1>8. Gone'
  <2>1. NoneGoes
    BY <1>2, BarrierNoneGoes
  <2>2. color[L] # "free"
    BY DEF Live
  <2>3. \A th \in Threads : color'[th] = "free" => th # L /\ color[th] = "free"
    BY <1>1, <2>1, <2>2, Kinds DEF NoneGoes
  <2>4. \A c \in Closures : color'[c] = "free" => color[c] = "free"
    BY <2>1, Kinds DEF NoneGoes
  <2>5. QED
    BY <1>1, <1>2, <1>5, <2>3, <2>4 DEF Gone, code
<1>9. QED
  BY <1>3, <1>4, <1>7, <1>8 DEF SInv

-----------------------------------------------------------------------------
(* Upvalues that change and are not open                                     *)

LEMMA ListsSame ==
  ASSUME Types, Lists, StackOK(stack'), Longer(stack, stack'), openupval' = openupval,
         \A u \in UpVal : at[u] \in Slots \/ at'[u] \in Slots => at'[u] = at[u]
  PROVE  Lists'
<1>1. ASSUME NEW th \in Threads
      PROVE  Ordered(openupval[th], at', th, Len(stack'[th])) /\ Complete(openupval[th], at', th)
  <2>1. PICK open \in Seq(UpVal) : open = openupval[th]
    BY DEF Types
  <2>2. Ordered(open, at, th, Len(stack[th])) /\ Complete(open, at, th)
    BY <2>1 DEF Lists
  <2>3. PICK n \in Nat, m \in Nat : n = Len(stack[th]) /\ m = Len(stack'[th])
    <3>1. Len(stack[th]) \in Nat
      BY StackIs
    <3>2. Len(stack'[th]) \in Nat
      BY DEF StackOK
    <3>3. QED
      BY <3>1, <3>2
  <2>4. n <= m
    BY <2>3 DEF Longer
  <2>5. Ordered(open, at, th, n)
    BY <2>2, <2>3
  <2>6. \A i \in 1 .. Len(open) : /\ open[i] \in UpVal /\ at[open[i]] \in Slots /\ at[open[i]][1] = th
                                  /\ at[open[i]][2] \in Nat /\ at[open[i]][2] <= n
    BY <2>5, OrderedIs
  <2>7. \A i \in 1 .. Len(open) : at'[open[i]] = at[open[i]]
    BY <2>6
  <2>8. \A i \in 1 .. Len(open) : at'[open[i]] \in Slots /\ at'[open[i]][1] = th /\ at'[open[i]][2] <= m
    BY <2>4, <2>6, <2>7
  <2>9. \A i, j \in 1 .. Len(open) : i < j => at'[open[j]][2] < at'[open[i]][2]
    BY <2>5, <2>7 DEF Ordered
  <2>10. Ordered(open, at', th, m)
    BY <2>8, <2>9 DEF Ordered
  <2>11. Complete(open, at', th)
    BY <2>2 DEF Complete
  <2>12. QED
    BY <2>1, <2>3, <2>10, <2>11
<1>2. QED
  BY <1>1 DEF Lists

-----------------------------------------------------------------------------
(* lua_upvaluejoin                                                           *)

\* Reference i of closure c moves from upvalue u to upvalue v.
JoinSays(c, i, u, v) ==
  /\ u = upvals[c][i] /\ u # v /\ Live(c) /\ Good(ValueOf(v))
  /\ at[u] # Freed /\ at[v] # Freed
  /\ upvals' = [upvals EXCEPT ![c][i] = v]
  /\ refcount' \in [UpVal -> Nat]
  /\ refcount'[u] = refcount[u] - 1 /\ refcount'[v] = refcount[v] + 1
  /\ \A w \in UpVal \ {u, v} : refcount'[w] = refcount[w]
  /\ at' \in [UpVal -> {Freed, Own} \cup Slots] /\ value' \in [UpVal -> Slot]
  /\ \A w \in UpVal \ {u} : at'[w] = at[w] /\ value'[w] = value[w]
  /\ IF refcount[u] = 1 /\ ~ upisopen(u) THEN at'[u] = Freed
                                         ELSE at'[u] = at[u] /\ value'[u] = value[u]
  /\ touched' \in [UpVal -> BOOLEAN] /\ \A w \in UpVal : touched[w] => touched'[w]
  /\ upisopen(v) => touched'[v]
  /\ \E S : BarrierSays(S) /\ (~ upisopen(v) => ValueOf(v) \in S)
  /\ UNCHANGED <<stack, L, proto, cache, openupval, twups, gcstate, unswept>>

LEMMA OneUse ==
  ASSUME NEW u, NEW w
  PROVE  Cardinality({k \in DOMAIN <<u>> : <<u>>[k] = w}) = IF w = u THEN 1 ELSE 0
<1>1. DOMAIN <<u>> = {1} /\ <<u>>[1] = u
  OBVIOUS
<1>2. CASE w = u
  <2>1. {k \in DOMAIN <<u>> : <<u>>[k] = w} = {1}
    BY <1>1, <1>2
  <2>2. QED
    BY <1>2, <2>1, FS_Singleton
<1>3. CASE w # u
  <2>1. {k \in DOMAIN <<u>> : <<u>>[k] = w} = {}
    BY <1>1, <1>3
  <2>2. QED
    BY <1>3, <2>1, FS_EmptySet
<1>4. QED
  BY <1>2, <1>3

LEMMA OrphansOne ==
  ASSUME Types, NEW u \in UpVal
  PROVE  /\ Decreased(<<u>>)[u] = refcount[u] - 1
         /\ \A w \in UpVal \ {u} : Decreased(<<u>>)[w] = refcount[w]
         /\ \A w : w \in Orphans(<<u>>) <=> w = u /\ refcount[u] = 1 /\ ~ upisopen(u)
<1>1. \A w \in UpVal : refcount[w] \in Nat
  BY DEF Types
<1>2. \A w \in UpVal : Decreased(<<u>>)[w] = refcount[w] - (IF w = u THEN 1 ELSE 0)
  BY OneUse DEF Decreased
<1>3. Decreased(<<u>>)[u] = refcount[u] - 1 /\ \A w \in UpVal \ {u} : Decreased(<<u>>)[w] = refcount[w]
  BY <1>1, <1>2
<1>4. ToSet(<<u>>) = {u}
  <2>1. DOMAIN <<u>> = {1} /\ <<u>>[1] = u
    OBVIOUS
  <2>2. QED
    BY <2>1 DEF ToSet
<1>5. Decreased(<<u>>)[u] = 0 <=> refcount[u] = 1
  BY <1>1, <1>3
<1>6. QED
  BY <1>3, <1>4, <1>5 DEF Orphans

LEMMA JoinIs ==
  ASSUME IInv, JoinSelf = FALSE, NEW c \in Running, NEW i \in DOMAIN upvals[c],
         NEW d \in Running, NEW j \in DOMAIN upvals[d], lua_upvaluejoin(c, i, d, j)
  PROVE  \E u, v \in UpVal : JoinSays(c, i, u, v)
<1>1. Types /\ Counts /\ Lists
  BY DEF IInv, SInv
<1>2. PICK u \in UpVal : u = upvals[c][i] /\ at[u] # Freed /\ refcount[u] > 0 /\ Live(c)
  BY GoodUpvalue
<1>3. PICK v \in UpVal : v = upvals[d][j] /\ at[v] # Freed /\ refcount[v] > 0 /\ Good(ValueOf(v))
  BY GoodUpvalue
<1>4. /\ u = v => JoinSelf
      /\ upvals' = [upvals EXCEPT ![c][i] = v]
      /\ refcount' = [Decreased(<<u>>) EXCEPT ![v] = @ + 1]
      /\ at' = [x \in UpVal |-> IF x \in Orphans(<<u>>) THEN Freed ELSE at[x]]
      /\ value' = [x \in UpVal |-> IF x \in Orphans(<<u>>) THEN Nil ELSE value[x]]
      /\ touched' = IF upisopen(v) THEN [touched EXCEPT ![v] = TRUE] ELSE touched
      /\ luaC_upvalbarrier(IF upisopen(v) THEN {} ELSE {ValueOf(v)})
      /\ UNCHANGED <<stack, L, proto, cache, openupval, twups, gcstate, unswept>>
  BY <1>2, <1>3 DEF lua_upvaluejoin
<1>5. u # v
  BY <1>4
<1>6. /\ Decreased(<<u>>)[u] = refcount[u] - 1
      /\ \A w \in UpVal \ {u} : Decreased(<<u>>)[w] = refcount[w]
      /\ \A w : w \in Orphans(<<u>>) <=> w = u /\ refcount[u] = 1 /\ ~ upisopen(u)
  BY <1>1, OrphansOne
<1>7. \A w \in UpVal : refcount[w] \in Nat
  BY <1>1 DEF Types
<1>8. PICK D : D = Decreased(<<u>>)
  OBVIOUS
<1>9. DOMAIN D = UpVal /\ D[u] = refcount[u] - 1 /\ \A w \in UpVal \ {u} : D[w] = refcount[w]
  BY <1>6, <1>8 DEF Decreased
<1>10. /\ refcount'[u] = refcount[u] - 1 /\ refcount'[v] = refcount[v] + 1
       /\ \A w \in UpVal \ {u, v} : refcount'[w] = refcount[w]
       /\ refcount' = [w \in UpVal |-> refcount'[w]]
  <2>1. refcount' = [D EXCEPT ![v] = @ + 1]
    BY <1>4, <1>8
  <2>2. refcount' = [w \in UpVal |-> IF w = v THEN D[v] + 1 ELSE D[w]]
    BY <1>9, <2>1
  <2>3. v \in UpVal \ {u}
    BY <1>5
  <2>4. D[v] = refcount[v]
    BY <1>9, <2>3
  <2>5. refcount'[u] = D[u] /\ refcount'[v] = D[v] + 1 /\ \A w \in UpVal \ {u, v} : refcount'[w] = D[w]
    BY <1>5, <2>2
  <2>6. refcount' = [w \in UpVal |-> refcount'[w]]
    BY <2>2
  <2>7. QED
    BY <1>9, <2>4, <2>5, <2>6
<1>11. refcount' \in [UpVal -> Nat]
  <2>1. refcount[u] - 1 \in Nat /\ refcount[v] + 1 \in Nat
    BY <1>2, <1>7
  <2>2. \A w \in UpVal : refcount'[w] \in Nat
    BY <1>7, <1>10, <2>1
  <2>3. QED
    BY <1>10, <2>2
<1>12. at' \in [UpVal -> {Freed, Own} \cup Slots] /\ value' \in [UpVal -> Slot]
  BY <1>1, <1>4 DEF Types, Slot
<1>13. /\ \A w \in UpVal \ {u} : at'[w] = at[w] /\ value'[w] = value[w]
       /\ IF refcount[u] = 1 /\ ~ upisopen(u) THEN at'[u] = Freed
                                              ELSE at'[u] = at[u] /\ value'[u] = value[u]
  BY <1>4, <1>6
<1>14. /\ touched' \in [UpVal -> BOOLEAN] /\ \A w \in UpVal : touched[w] => touched'[w]
       /\ upisopen(v) => touched'[v]
  <2>1. touched \in [UpVal -> BOOLEAN]
    BY <1>1 DEF Types
  <2>2. CASE upisopen(v)
    BY <1>4, <2>1, <2>2
  <2>3. CASE ~ upisopen(v)
    BY <1>4, <2>1, <2>3
  <2>4. QED
    BY <2>2, <2>3
<1>15. \E S : BarrierSays(S) /\ (~ upisopen(v) => ValueOf(v) \in S)
  <2>1. PICK S : S = IF upisopen(v) THEN {} ELSE {ValueOf(v)}
    OBVIOUS
  <2>2. S \in SUBSET Slot /\ (~ upisopen(v) => ValueOf(v) \in S)
    BY <1>3, <2>1 DEF Good
  <2>3. BarrierSays(S)
    BY <1>1, <1>4, <2>1, <2>2, BarrierIs
  <2>4. QED
    BY <2>2, <2>3
<1>16. UNCHANGED <<stack, L, proto, cache, openupval, twups, gcstate, unswept>>
  BY <1>4
<1>17. upvals' = [upvals EXCEPT ![c][i] = v]
  BY <1>4
<1>18. JoinSays(c, i, u, v)
  BY <1>2, <1>3, <1>5, <1>10, <1>11, <1>12, <1>13, <1>14, <1>15, <1>16, <1>17 DEF JoinSays
<1>19. QED
  BY <1>18

\* The upvalues of closures after that.
LEMMA JoinUpvals ==
  ASSUME Types, NEW c \in Closures, NEW i \in DOMAIN upvals[c], NEW v \in UpVal,
         upvals' = [upvals EXCEPT ![c][i] = v]
  PROVE  /\ upvals' \in [Closures -> Seq(UpVal)]
         /\ \A d \in Closures \ {c} : upvals'[d] = upvals[d]
         /\ ToSet(upvals'[c]) \subseteq ToSet(upvals[c]) \cup {v}
<1>1. PICK us \in Seq(UpVal) : us = upvals[c]
  BY DEF Types
<1>2. i \in 1 .. Len(us)
  BY <1>1
<1>3. PICK new : new = [us EXCEPT ![i] = v]
  OBVIOUS
<1>4. /\ new \in Seq(UpVal) /\ Len(new) = Len(us)
      /\ \A k \in 1 .. Len(us) : new[k] = IF k = i THEN v ELSE us[k]
  BY <1>2, <1>3, ExceptSeq
<1>5. upvals' = [upvals EXCEPT ![c] = new]
  BY <1>1, <1>3
<1>6. upvals'[c] = new /\ \A d \in Closures \ {c} : upvals'[d] = upvals[d]
  BY <1>5 DEF Types
<1>7. upvals' \in [Closures -> Seq(UpVal)]
  BY <1>4, <1>5 DEF Types
<1>8. DOMAIN new = 1 .. Len(us) /\ DOMAIN us = 1 .. Len(us)
  BY <1>4
<1>9. ToSet(new) \subseteq ToSet(us) \cup {v}
  BY <1>4, <1>8 DEF ToSet
<1>10. QED
  BY <1>1, <1>6, <1>7, <1>9

LEMMA JoinSInv ==
  ASSUME IInv, NEW c \in Closures, NEW i \in DOMAIN upvals[c], NEW u \in UpVal, NEW v \in UpVal,
         JoinSays(c, i, u, v)
  PROVE  SInv'
<1>1. Types /\ Counts /\ Lists /\ Gone
  BY DEF IInv, SInv
<1>2. /\ u = upvals[c][i] /\ u # v /\ Live(c) /\ at[u] # Freed /\ at[v] # Freed
      /\ upvals' = [upvals EXCEPT ![c][i] = v]
      /\ refcount' \in [UpVal -> Nat]
      /\ refcount'[u] = refcount[u] - 1 /\ refcount'[v] = refcount[v] + 1
      /\ \A w \in UpVal \ {u, v} : refcount'[w] = refcount[w]
      /\ at' \in [UpVal -> {Freed, Own} \cup Slots] /\ value' \in [UpVal -> Slot]
      /\ \A w \in UpVal \ {u} : at'[w] = at[w] /\ value'[w] = value[w]
      /\ IF refcount[u] = 1 /\ ~ upisopen(u) THEN at'[u] = Freed
                                             ELSE at'[u] = at[u] /\ value'[u] = value[u]
      /\ touched' \in [UpVal -> BOOLEAN]
      /\ UNCHANGED <<stack, L, proto, cache, openupval, twups, gcstate, unswept>>
  BY DEF JoinSays
<1>3. PICK S : BarrierSays(S)
  BY DEF JoinSays
<1>4. /\ upvals' \in [Closures -> Seq(UpVal)]
      /\ \A d \in Closures \ {c} : upvals'[d] = upvals[d]
  BY <1>1, <1>2, JoinUpvals
<1>5. color' \in [Obj -> Shades] /\ gray' \subseteq Obj
  BY <1>3 DEF BarrierSays
<1>6. Types'
  BY <1>1, <1>2, <1>4, <1>5 DEF Types, Shades, Slot
<1>7. Exact(upvals', refcount')
  <2>1. PICK H : H = upvals'
    OBVIOUS
  <2>2. PICK G \in [Closures -> Seq(UpVal)] : G = upvals
    BY <1>1 DEF Types
  <2>3. OneMoved(G, c, i, u, v, H)
    BY <1>2, <2>1, <2>2 DEF OneMoved
  <2>4. RefMoves(G, H, u, v)
    BY <2>3, RefsMoved
  <2>6. PICK x : /\ Refs(H, v) = Refs(G, v) \cup {x} /\ x \notin Refs(G, v)
                 /\ Refs(H, u) = Refs(G, u) \ {x} /\ x \in Refs(G, u)
                 /\ \A w \in UpVal \ {v, u} : Refs(H, w) = Refs(G, w)
    BY <2>4 DEF RefMoves
  <2>7. \A w \in UpVal : IsFiniteSet(Refs(G, w)) /\ refcount[w] = Cardinality(Refs(G, w))
    BY <1>1, <2>2 DEF Counts, Exact
  <2>8. IsFiniteSet(Refs(H, v)) /\ Cardinality(Refs(H, v)) = Cardinality(Refs(G, v)) + 1
    BY <2>6, <2>7, FS_AddElement
  <2>9. IsFiniteSet(Refs(H, u)) /\ Cardinality(Refs(H, u)) = Cardinality(Refs(G, u)) - 1
    BY <2>6, <2>7, OneFewer
  <2>10. ASSUME NEW w \in UpVal
         PROVE  IsFiniteSet(Refs(H, w)) /\ refcount'[w] = Cardinality(Refs(H, w))
    <3>1. CASE w = u
      BY <1>2, <2>7, <2>9, <3>1
    <3>2. CASE w = v
      BY <1>2, <2>7, <2>8, <3>2
    <3>3. CASE w # u /\ w # v
      BY <1>2, <2>6, <2>7, <3>3
    <3>4. QED
      BY <3>1, <3>2, <3>3
  <2>11. QED
    BY <2>1, <2>10 DEF Exact
<1>8. refcount[u] > 0 /\ refcount[u] \in Nat /\ refcount[v] \in Nat
  BY <1>1, <1>2, UsedUpvalue DEF Types
<1>9. ASSUME NEW w \in UpVal
      PROVE  (at'[w] = Freed => refcount'[w] = 0) /\ (at'[w] = Own => refcount'[w] > 0)
  <2>1. CASE w = u
    <3>1. CASE refcount[u] = 1 /\ ~ upisopen(u)
      <4>1. at'[u] = Freed /\ refcount'[u] = 0
        BY <1>2, <3>1
      <4>2. QED
        BY <2>1, <4>1, Places
    <3>2. CASE ~ (refcount[u] = 1 /\ ~ upisopen(u))
      <4>1. at'[u] = at[u]
        BY <1>2, <3>2
      <4>2. at[u] = Own => ~ upisopen(u)
        BY Places DEF upisopen
      <4>3. at[u] = Own => refcount'[u] > 0
        BY <1>2, <1>8, <3>2, <4>2
      <4>4. QED
        BY <1>2, <2>1, <4>1, <4>3
    <3>3. QED
      BY <3>1, <3>2
  <2>2. CASE w = v
    <3>1. at'[v] # Freed /\ refcount'[v] > 0
      BY <1>2, <1>8
    <3>2. QED
      BY <2>2, <3>1
  <2>3. CASE w # u /\ w # v
    BY <1>1, <1>2, <2>3 DEF Counts
  <2>4. QED
    BY <2>1, <2>2, <2>3
<1>10. Lists'
  <2>1. at \in [UpVal -> {Freed, Own} \cup Slots]
    BY <1>1 DEF Types
  <2>2. \A w \in UpVal : at[w] \in Slots \/ at'[w] \in Slots => at'[w] = at[w]
    BY <1>2, <2>1, Places, Upvalues
  <2>3. StackOK(stack') /\ Longer(stack, stack')
    BY <1>1, <1>2, SameStacks
  <2>4. QED
    BY <1>1, <1>2, <2>2, <2>3, ListsSame
<1>11. Gone'
  <2>1. NoneGoes
    BY <1>3, BarrierNoneGoes
  <2>2. color'[c] # "free"
    BY <1>2, <2>1, Kinds DEF NoneGoes, Live
  <2>3. QED
    BY <1>1, <1>2, <1>4, <2>1, <2>2, Kinds DEF Gone, NoneGoes
<1>12. Counts'
  BY <1>7, <1>9 DEF Counts
<1>13. QED
  BY <1>6, <1>10, <1>11, <1>12 DEF SInv

-----------------------------------------------------------------------------
(* New closures                                                              *)

LEMMA AddedCounts ==
  ASSUME NEW G, NEW H, NEW R, NEW Q, NEW c \in Closures, OneMore(G, H, c), Exact(G, R),
         \A u \in UpVal : Q[u] = R[u] + Cardinality(Uses(H[c], u))
  PROVE  Exact(H, Q)
<1>1. ASSUME NEW u \in UpVal PROVE IsFiniteSet(Refs(H, u)) /\ Q[u] = Cardinality(Refs(H, u))
  <2>1. IsFiniteSet(Refs(G, u)) /\ R[u] = Cardinality(Refs(G, u))
    BY DEF Exact
  <2>2. /\ IsFiniteSet(Refs(H, u))
        /\ Cardinality(Refs(H, u)) = Cardinality(Refs(G, u)) + Cardinality(Uses(H[c], u))
    BY <2>1, RefsMore
  <2>3. QED
    BY <2>1, <2>2
<1>2. QED
  BY <1>1 DEF Exact

LEMMA RemovedCounts ==
  ASSUME NEW G, NEW H, NEW R, NEW Q, NEW c \in Closures, OneMore(G, H, c), Exact(H, R),
         \A u \in UpVal : Q[u] = R[u] - Cardinality(Uses(H[c], u))
  PROVE  Exact(G, Q)
<1>1. ASSUME NEW u \in UpVal PROVE IsFiniteSet(Refs(G, u)) /\ Q[u] = Cardinality(Refs(G, u))
  <2>1. IsFiniteSet(Refs(H, u)) /\ R[u] = Cardinality(Refs(H, u))
    BY DEF Exact
  <2>2. IsFiniteSet(Refs(G, u))
    BY <2>1, RefsLess
  <2>3. Cardinality(Refs(H, u)) = Cardinality(Refs(G, u)) + Cardinality(Uses(H[c], u))
    BY <2>2, RefsMore
  <2>4. IsFiniteSet(Uses(H[c], u))
    BY UsesFinite DEF OneMore
  <2>5. Cardinality(Refs(G, u)) \in Nat /\ Cardinality(Uses(H[c], u)) \in Nat
    BY <2>2, <2>4, FS_CardinalityType
  <2>6. QED
    BY <2>1, <2>2, <2>3, <2>5
<1>2. QED
  BY <1>1 DEF Exact

\* A new closure c of prototype p has the upvalues us; 'open' is the list after that.
ClosureSays(p, enc, base, c, us, open) ==
  /\ p \in Protos /\ c \in Closures /\ color[c] = "free"
  /\ enc \in Enclosing /\ Capturable(p, enc, base)
  /\ us \in Seq(UpVal) /\ Len(us) = Len(Desc[p]) /\ open \in Seq(UpVal)
  /\ \A i \in 1 .. Len(us) : at'[us[i]] # Freed /\ Names(at', us[i], Desc[p][i], enc, base)
  /\ at' \in Wheres /\ Kept(at')
  /\ Ordered(open, at', L, Len(stack[L])) /\ Complete(open, at', L)
  /\ Room /\ push(c)
  /\ color' = [color EXCEPT ![c] = "white"]
  /\ proto' = [proto EXCEPT ![c] = p] /\ upvals' = [upvals EXCEPT ![c] = us]
  /\ cache' = IF color[p] = "black" THEN cache ELSE [cache EXCEPT ![p] = c]
  /\ openupval' = [openupval EXCEPT ![L] = open]
  /\ touched' = [u \in UpVal |-> touched[u] \/ at'[u] # at[u]]
  /\ refcount' = [u \in UpVal |-> refcount[u] + Cardinality(Uses(us, u))]
  /\ twups' = IF open # openupval[L] THEN twups \cup {L} ELSE twups
  /\ UNCHANGED <<value, gcstate, gray, unswept, L>>

LEMMA EnclosingIs ==
  ASSUME Types, Counts, NEW enc \in Enclosing
  PROVE  enc \in Seq(UpVal) /\ \A i \in DOMAIN enc : at[enc[i]] # Freed
<1>1. CASE enc = <<>>
  BY <1>1
<1>2. CASE enc # <<>>
  <2>1. PICK c \in Closures : enc = upvals[c]
    BY <1>2 DEF Enclosing, Running
  <2>2. upvals[c] \in Seq(UpVal) /\ \A i \in DOMAIN upvals[c] : at[upvals[c][i]] # Freed
    BY UpvalsOf, UsedUpvalue
  <2>3. QED
    BY <2>1, <2>2
<1>3. QED
  BY <1>1, <1>2

LEMMA MakingIs ==
  ASSUME Types, Counts, NEW p \in Protos, NEW enc \in Enclosing, NEW base \in 0 .. StackSize,
         Capturable(p, enc, base)
  PROVE  Making(p, enc, base)
BY EnclosingIs, Kinds DEF Making

LEMMA ClosureIs ==
  ASSUME Types, Counts, Lists, NEW p \in Protos, NEW enc \in Enclosing, NEW base \in 0 .. StackSize,
         NEW c \in Closures, closure(p, enc, base, c)
  PROVE  \/ /\ c \in getcached(p, enc, base) /\ c \in Closures /\ cache[p] = c
            /\ Room /\ push(c) /\ UNCHANGED <<L, code, uvs, gc>>
         \/ /\ Taking(Captured(p, enc, base), p, enc, base, Len(Desc[p]))
            /\ \E us, open : ClosureSays(p, enc, base, c, us, open)
<1>1. Room /\ Capturable(p, enc, base) /\ push(c) /\ UNCHANGED L
  BY DEF closure
<1>2. CASE getcached(p, enc, base) # {}
  <2>1. c \in getcached(p, enc, base) /\ UNCHANGED <<code, uvs, gc>>
    BY <1>2 DEF closure
  <2>2. cache[p] = c
    BY <2>1 DEF getcached
  <2>3. QED
    BY <1>1, <2>1, <2>2
<1>3. CASE getcached(p, enc, base) = {}
  <2>1. Making(p, enc, base)
    BY <1>1, MakingIs
  <2>2. PICK s : s = Captured(p, enc, base)
    OBVIOUS
  <2>3. /\ c \in NewObj
        /\ Cardinality(NewUpvals(p, base)) <= Cardinality(free)
        /\ color' = [color EXCEPT ![c] = "white"]
        /\ proto' = [proto EXCEPT ![c] = p]
        /\ upvals' = [upvals EXCEPT ![c] = s.found]
        /\ at' = s.at
        /\ openupval' = [openupval EXCEPT ![L] = s.open]
        /\ touched' = [u \in UpVal |-> touched[u] \/ s.at[u] # at[u]]
        /\ refcount' = Increased(s.found)
        /\ twups' = IF s.open # openupval[L] THEN twups \cup {L} ELSE twups
        /\ pushclosure(p, c)
        /\ UNCHANGED <<value, gcstate, gray, unswept>>
    BY <1>3, <2>2 DEF closure
  <2>4. Taking(Captured(p, enc, base), p, enc, base, Len(Desc[p]))
    BY <2>1, <2>3, CapturedAll
  <2>5. Taking(s, p, enc, base, Len(Desc[p]))
    BY <2>2, <2>4
  <2>6. PICK us, open : us = s.found /\ open = s.open
    OBVIOUS
  <2>7. /\ us \in Seq(UpVal) /\ open \in Seq(UpVal) /\ Len(us) = Len(Desc[p])
        /\ at' \in Wheres /\ Kept(at')
        /\ Ordered(open, at', L, Len(stack[L])) /\ Complete(open, at', L)
        /\ \A i \in 1 .. Len(us) : at'[us[i]] # Freed /\ Names(at', us[i], Desc[p][i], enc, base)
    BY <2>3, <2>5, <2>6 DEF Taking, Listing, AllNamed
  <2>8. color[c] = "free"
    BY <2>3 DEF NewObj
  <2>9. touched' = [u \in UpVal |-> touched[u] \/ at'[u] # at[u]]
    BY <2>3
  <2>10. refcount' = [u \in UpVal |-> refcount[u] + Cardinality(Uses(us, u))]
    BY <2>3, <2>6 DEF Increased, Uses
  <2>11. /\ upvals' = [upvals EXCEPT ![c] = us] /\ openupval' = [openupval EXCEPT ![L] = open]
         /\ twups' = IF open # openupval[L] THEN twups \cup {L} ELSE twups
         /\ cache' = IF color[p] = "black" THEN cache ELSE [cache EXCEPT ![p] = c]
    BY <2>3, <2>6 DEF pushclosure
  <2>12. ClosureSays(p, enc, base, c, us, open)
    BY <1>1, <2>3, <2>7, <2>8, <2>9, <2>10, <2>11 DEF ClosureSays
  <2>13. QED
    BY <2>4, <2>12
<1>4. QED
  BY <1>2, <1>3

LEMMA UpvalsNew ==
  ASSUME Types, Gone, NEW c \in Closures, color[c] = "free", NEW us \in Seq(UpVal),
         upvals' = [upvals EXCEPT ![c] = us]
  PROVE  /\ upvals' \in [Closures -> Seq(UpVal)] /\ upvals'[c] = us
         /\ \A d \in Closures \ {c} : upvals'[d] = upvals[d]
         /\ OneMore(upvals, upvals', c)
<1>1. /\ upvals' \in [Closures -> Seq(UpVal)] /\ upvals'[c] = us
      /\ \A d \in Closures \ {c} : upvals'[d] = upvals[d]
  BY DEF Types
<1>2. upvals \in [Closures -> Seq(UpVal)] /\ upvals[c] = <<>>
  BY DEF Types, Gone
<1>3. QED
  BY <1>1, <1>2 DEF OneMore

LEMMA ClosureSInv ==
  ASSUME SInv, Live(L), NEW p, NEW enc, NEW base, NEW c, NEW us, NEW open,
         ClosureSays(p, enc, base, c, us, open)
  PROVE  SInv'
<1>1. Types /\ Counts /\ Lists /\ Gone /\ L \in Threads
  BY DEF SInv, Types
<1>2. /\ p \in Protos /\ c \in Closures /\ color[c] = "free"
      /\ us \in Seq(UpVal) /\ open \in Seq(UpVal)
      /\ \A i \in 1 .. Len(us) : at'[us[i]] # Freed
      /\ at' \in Wheres /\ Kept(at')
      /\ Ordered(open, at', L, Len(stack[L])) /\ Complete(open, at', L)
      /\ Room /\ push(c)
      /\ color' = [color EXCEPT ![c] = "white"]
      /\ proto' = [proto EXCEPT ![c] = p] /\ upvals' = [upvals EXCEPT ![c] = us]
      /\ cache' = IF color[p] = "black" THEN cache ELSE [cache EXCEPT ![p] = c]
      /\ openupval' = [openupval EXCEPT ![L] = open]
      /\ touched' = [u \in UpVal |-> touched[u] \/ at'[u] # at[u]]
      /\ refcount' = [u \in UpVal |-> refcount[u] + Cardinality(Uses(us, u))]
      /\ twups' = IF open # openupval[L] THEN twups \cup {L} ELSE twups
      /\ UNCHANGED <<value, gcstate, gray, unswept, L>>
  BY DEF ClosureSays
<1>3. c \in Slot /\ c \in Obj
  BY <1>2, Kinds DEF Slot
<1>4. StackOK(stack') /\ Longer(stack, stack')
  BY <1>1, <1>2, <1>3, PushIs
<1>5. /\ upvals' \in [Closures -> Seq(UpVal)] /\ upvals'[c] = us
      /\ \A d \in Closures \ {c} : upvals'[d] = upvals[d]
      /\ OneMore(upvals, upvals', c)
  BY <1>1, <1>2, UpvalsNew
<1>6. \A u \in UpVal : /\ refcount[u] \in Nat
                       /\ Cardinality(Uses(us, u)) \in Nat
                       /\ (Cardinality(Uses(us, u)) = 0 <=> \A i \in DOMAIN us : us[i] # u)
  BY <1>1, <1>2, UsesFinite, FS_CardinalityType DEF Types
<1>7. refcount' \in [UpVal -> Nat]
  BY <1>2, <1>6
<1>8. Types'
  <2>1. touched' \in [UpVal -> BOOLEAN]
    BY <1>1, <1>2 DEF Types
  <2>2. cache' \in [Protos -> Closures \cup {Nil}]
    BY <1>1, <1>2 DEF Types
  <2>3. proto' \in [Closures -> Protos \cup {Nil}]
    BY <1>1, <1>2 DEF Types
  <2>4. openupval' \in [Threads -> Seq(UpVal)]
    BY <1>1, <1>2 DEF Types
  <2>5. twups' \subseteq Threads
    BY <1>1, <1>2 DEF Types
  <2>6. color' \in [Obj -> {"free", "white", "dead", "gray", "black"}]
    BY <1>1, <1>2 DEF Types
  <2>7. QED
    BY <1>1, <1>2, <1>4, <1>5, <1>7, <2>1, <2>2, <2>3, <2>4, <2>5, <2>6
       DEF Types, StackOK, Slot, Wheres
<1>9. Exact(upvals', refcount')
  <2>1. \A u \in UpVal : refcount'[u] = refcount[u] + Cardinality(Uses(upvals'[c], u))
    BY <1>2, <1>5
  <2>2. Exact(upvals, refcount)
    BY <1>1 DEF Counts
  <2>3. PICK H, Q : H = upvals' /\ Q = refcount'
    OBVIOUS
  <2>4. c \in Closures /\ OneMore(upvals, H, c)
    BY <1>2, <1>5, <2>3
  <2>5. \A u \in UpVal : Q[u] = refcount[u] + Cardinality(Uses(H[c], u))
    BY <2>1, <2>3
  <2>6. Exact(H, Q)
    BY <2>2, <2>4, <2>5, AddedCounts
  <2>7. QED
    BY <2>3, <2>6
<1>10. ASSUME NEW u \in UpVal
       PROVE  (at'[u] = Freed => refcount'[u] = 0) /\ (at'[u] = Own => refcount'[u] > 0)
  <2>1. refcount'[u] = refcount[u] + Cardinality(Uses(us, u))
    BY <1>2
  <2>2. ASSUME at'[u] = Freed PROVE refcount'[u] = 0
    <3>1. at[u] = Freed
      BY <1>2, <2>2 DEF Kept
    <3>2. refcount[u] = 0
      BY <1>1, <3>1 DEF Counts
    <3>3. \A i \in DOMAIN us : us[i] # u
      BY <1>2, <2>2
    <3>4. QED
      BY <1>6, <2>1, <3>2, <3>3
  <2>3. ASSUME at'[u] = Own PROVE refcount'[u] > 0
    <3>1. at[u] = Own
      BY <1>2, <2>3, Places DEF Kept
    <3>2. refcount[u] > 0
      BY <1>1, <3>1 DEF Counts
    <3>3. QED
      BY <1>6, <2>1, <3>2
  <2>4. QED
    BY <2>2, <2>3
<1>11. ASSUME NEW t \in Threads
       PROVE  Ordered(openupval'[t], at', t, Len(stack'[t])) /\ Complete(openupval'[t], at', t)
  <2>1. PICK n \in Nat, m \in Nat : n = Len(stack[t]) /\ m = Len(stack'[t])
    <3>1. Len(stack[t]) \in Nat
      BY <1>1, StackIs
    <3>2. Len(stack'[t]) \in Nat
      BY <1>4 DEF StackOK
    <3>3. QED
      BY <3>1, <3>2
  <2>2. n <= m
    BY <1>4, <2>1 DEF Longer
  <2>3. PICK list \in Seq(UpVal) : list = openupval'[t]
    BY <1>1, <1>2 DEF Types
  <2>4. Ordered(list, at', t, n) /\ Complete(list, at', t)
    <3>1. CASE t = L
      <4>1. list = open
        BY <1>1, <1>2, <2>3, <3>1 DEF Types
      <4>2. QED
        BY <1>2, <2>1, <3>1, <4>1
    <3>2. CASE t # L
      <4>1. list = openupval[t]
        BY <1>1, <1>2, <2>3, <3>2 DEF Types
      <4>2. Ordered(list, at, t, n) /\ Complete(list, at, t)
        BY <1>1, <2>1, <4>1 DEF Lists
      <4>3. \A i \in 1 .. Len(list) : list[i] \in UpVal /\ at[list[i]] \in Slots
        BY <4>2, OrderedIs
      <4>4. \A i \in 1 .. Len(list) : at'[list[i]] = at[list[i]]
        BY <1>2, <4>3, Places DEF Kept
      <4>5. Ordered(list, at', t, n)
        BY <4>2, <4>4 DEF Ordered
      <4>6. \A u \in UpVal : at'[u] \in Slots /\ at'[u][1] = t => at'[u] = at[u]
        BY <1>2, <3>2, Places DEF Kept
      <4>7. Complete(list, at', t)
        BY <4>2, <4>6 DEF Complete
      <4>8. QED
        BY <4>5, <4>7
    <3>3. QED
      BY <3>1, <3>2
  <2>5. \A i \in 1 .. Len(list) : at'[list[i]][2] \in Nat
    BY <2>4, OrderedIs
  <2>6. Ordered(list, at', t, m)
    BY <2>2, <2>4, <2>5 DEF Ordered
  <2>7. QED
    BY <2>1, <2>3, <2>4, <2>6
<1>12. Gone'
  <2>1. \A o \in Obj : color'[o] = "free" => o # c /\ color[o] = "free"
    BY <1>1, <1>2, <1>3 DEF Types
  <2>2. color[L] # "free"
    BY DEF Live
  <2>3. \A th \in Threads : color'[th] = "free" => th # L /\ color[th] = "free"
    BY <2>1, <2>2, Kinds
  <2>4. \A d \in Closures : color'[d] = "free" => d # c /\ color[d] = "free"
    BY <2>1, Kinds
  <2>5. \A th \in Threads \ {L} : openupval'[th] = openupval[th]
    BY <1>1, <1>2 DEF Types
  <2>6. QED
    BY <1>1, <1>5, <2>3, <2>4, <2>5 DEF Gone
<1>13. Counts'
  BY <1>9, <1>10 DEF Counts
<1>14. Lists'
  BY <1>11 DEF Lists
<1>15. QED
  BY <1>8, <1>12, <1>13, <1>14 DEF SInv

-----------------------------------------------------------------------------
(* lua_load                                                                  *)

LEMMA NewUpvaluesIs ==
  ASSUME NEW n \in Nat, Cardinality(free) >= n
  PROVE  /\ NewUpvalues(n) \in [1 .. n -> free]
         /\ \A i, j \in 1 .. n : NewUpvalues(n)[i] = NewUpvalues(n)[j] => i = j
<1>1. IsFiniteSet(free)
  BY FreeFinite DEF FreeIn, free
<1>2. PICK m \in Nat : ExistsBijection(1 .. m, free)
  BY <1>1, FS_NatBijection
<1>3. m = Cardinality(free)
  BY <1>2, FS_CountingElements
<1>4. PICK f : f \in Bijection(1 .. m, free)
  BY <1>2 DEF ExistsBijection
<1>5. f \in [1 .. m -> free] /\ \A i, j \in 1 .. m : f[i] = f[j] => i = j
  BY <1>4 DEF Bijection, Injection, IsInjective
<1>6. \A i \in 1 .. n : i \in 1 .. m
  BY <1>3
<1>7. PICK us : us = [i \in 1 .. n |-> f[i]]
  OBVIOUS
<1>8. us \in [1 .. n -> free] /\ \A i, j \in 1 .. n : us[i] = us[j] => i = j
  BY <1>5, <1>6, <1>7
<1>9. QED
  BY <1>8 DEF NewUpvalues

\* A closure c of prototype p is new, and its upvalues us are.
LoadSays(p, c, us) ==
  /\ p \in Protos /\ c \in Closures /\ color[c] = "free"
  /\ us \in Seq(UpVal) /\ Len(us) = Len(Desc[p])
  /\ \A i \in DOMAIN us : at[us[i]] = Freed
  /\ \A i, j \in DOMAIN us : us[i] = us[j] => i = j
  /\ Room /\ push(c)
  /\ color' = [color EXCEPT ![c] = "white"]
  /\ proto' = [proto EXCEPT ![c] = p] /\ upvals' = [upvals EXCEPT ![c] = us]
  /\ at' = [u \in UpVal |-> IF u \in ToSet(us) THEN Own ELSE at[u]]
  /\ value' = [u \in UpVal |-> IF u \in ToSet(us) THEN Nil ELSE value[u]]
  /\ refcount' = [u \in UpVal |-> IF u \in ToSet(us) THEN 1 ELSE refcount[u]]
  /\ UNCHANGED <<L, cache, touched, openupval, twups, gcstate, gray, unswept>>

LEMMA LoadIs ==
  ASSUME NEW p \in Protos, NEW c \in NewObj \cap Closures, load(p, c)
  PROVE  \E us : LoadSays(p, c, us)
<1>1. PICK us : us = NewUpvalues(Len(Desc[p]))
  OBVIOUS
<1>2. PICK n \in Nat : n = Len(Desc[p])
  BY DescIs
<1>3. us \in [1 .. n -> free] /\ \A i, j \in 1 .. n : us[i] = us[j] => i = j
  <2>1. Cardinality(free) >= n
    BY <1>2 DEF load
  <2>2. QED
    BY <1>1, <1>2, <2>1, NewUpvaluesIs
<1>4. us \in Seq(UpVal) /\ Len(us) = n /\ DOMAIN us = 1 .. n
  <2>1. us \in [1 .. n -> UpVal]
    BY <1>3 DEF free
  <2>2. QED
    BY <2>1
<1>5. \A i \in DOMAIN us : at[us[i]] = Freed
  BY <1>3 DEF free
<1>6. color[c] = "free" /\ c \in Closures
  BY DEF NewObj
<1>7. /\ Room /\ push(c)
      /\ color' = [color EXCEPT ![c] = "white"]
      /\ proto' = [proto EXCEPT ![c] = p] /\ upvals' = [upvals EXCEPT ![c] = us]
      /\ at' = [u \in UpVal |-> IF u \in ToSet(us) THEN Own ELSE at[u]]
      /\ value' = [u \in UpVal |-> IF u \in ToSet(us) THEN Nil ELSE value[u]]
      /\ refcount' = [u \in UpVal |-> IF u \in ToSet(us) THEN 1 ELSE refcount[u]]
      /\ UNCHANGED <<L, cache, touched, openupval, twups, gcstate, gray, unswept>>
  BY <1>1 DEF load
<1>8. LoadSays(p, c, us)
  BY <1>2, <1>3, <1>4, <1>5, <1>6, <1>7 DEF LoadSays
<1>9. QED
  BY <1>8

LEMMA LoadSInv ==
  ASSUME SInv, NEW p, NEW c, NEW us, LoadSays(p, c, us)
  PROVE  SInv'
<1>1. Types /\ Counts /\ Lists /\ Gone
  BY DEF SInv
<1>2. /\ p \in Protos /\ c \in Closures /\ color[c] = "free"
      /\ us \in Seq(UpVal)
      /\ \A i \in DOMAIN us : at[us[i]] = Freed
      /\ \A i, j \in DOMAIN us : us[i] = us[j] => i = j
      /\ Room /\ push(c)
      /\ color' = [color EXCEPT ![c] = "white"]
      /\ proto' = [proto EXCEPT ![c] = p] /\ upvals' = [upvals EXCEPT ![c] = us]
      /\ at' = [u \in UpVal |-> IF u \in ToSet(us) THEN Own ELSE at[u]]
      /\ value' = [u \in UpVal |-> IF u \in ToSet(us) THEN Nil ELSE value[u]]
      /\ refcount' = [u \in UpVal |-> IF u \in ToSet(us) THEN 1 ELSE refcount[u]]
      /\ UNCHANGED <<L, cache, touched, openupval, twups, gcstate, gray, unswept>>
  BY DEF LoadSays
<1>3. c \in Slot /\ c \in Obj
  BY <1>2, Kinds DEF Slot
<1>4. StackOK(stack') /\ Longer(stack, stack')
  BY <1>1, <1>2, <1>3, PushIs
<1>5. /\ upvals' \in [Closures -> Seq(UpVal)] /\ upvals'[c] = us
      /\ \A d \in Closures \ {c} : upvals'[d] = upvals[d]
      /\ OneMore(upvals, upvals', c)
  BY <1>1, <1>2, UpvalsNew
<1>6. \A u \in UpVal : u \in ToSet(us) <=> \E i \in DOMAIN us : us[i] = u
  BY DEF ToSet
<1>7. \A u \in UpVal : u \in ToSet(us) => at[u] = Freed /\ refcount[u] = 0
  BY <1>1, <1>2, <1>6 DEF Counts
<1>8. Types'
  <2>1. at' \in [UpVal -> {Freed, Own} \cup Slots] /\ value' \in [UpVal -> Values \cup {Nil}]
    BY <1>1, <1>2 DEF Types
  <2>2. refcount' \in [UpVal -> Nat]
    BY <1>1, <1>2 DEF Types
  <2>3. proto' \in [Closures -> Protos \cup {Nil}]
    BY <1>1, <1>2 DEF Types
  <2>4. color' \in [Obj -> {"free", "white", "dead", "gray", "black"}]
    BY <1>1, <1>2 DEF Types
  <2>5. QED
    BY <1>1, <1>2, <1>4, <1>5, <2>1, <2>2, <2>3, <2>4 DEF Types, StackOK, Slot
<1>9. Exact(upvals', refcount')
  <2>1. PICK H, Q : H = upvals' /\ Q = refcount'
    OBVIOUS
  <2>2. c \in Closures /\ OneMore(upvals, H, c) /\ H[c] = us
    BY <1>2, <1>5, <2>1
  <2>3. ASSUME NEW u \in UpVal PROVE Q[u] = refcount[u] + Cardinality(Uses(us, u))
    <3>1. refcount[u] \in Nat
      BY <1>1 DEF Types
    <3>2. CASE u \in ToSet(us)
      <4>1. PICK i \in DOMAIN us : us[i] = u
        BY <1>6, <3>2
      <4>2. Uses(us, u) = {i}
        BY <1>2, <4>1 DEF Uses
      <4>3. Cardinality(Uses(us, u)) = 1
        BY <4>2, FS_Singleton
      <4>4. Q[u] = 1 /\ refcount[u] = 0
        BY <1>2, <1>7, <2>1, <3>2
      <4>5. QED
        BY <4>3, <4>4
    <3>3. CASE u \notin ToSet(us)
      <4>1. Uses(us, u) = {}
        BY <1>6, <3>3 DEF Uses
      <4>2. Cardinality(Uses(us, u)) = 0
        BY <4>1, FS_EmptySet
      <4>3. Q[u] = refcount[u]
        BY <1>2, <2>1, <3>3
      <4>4. QED
        BY <3>1, <4>2, <4>3
    <3>4. QED
      BY <3>2, <3>3
  <2>4. \A u \in UpVal : Q[u] = refcount[u] + Cardinality(Uses(H[c], u))
    BY <2>2, <2>3
  <2>5. Exact(upvals, refcount)
    BY <1>1 DEF Counts
  <2>6. Exact(H, Q)
    BY <2>2, <2>4, <2>5, AddedCounts
  <2>7. QED
    BY <2>1, <2>6
<1>10. ASSUME NEW u \in UpVal
       PROVE  (at'[u] = Freed => refcount'[u] = 0) /\ (at'[u] = Own => refcount'[u] > 0)
  <2>1. CASE u \in ToSet(us)
    BY <1>2, <2>1, Places
  <2>2. CASE u \notin ToSet(us)
    BY <1>1, <1>2, <2>2 DEF Counts
  <2>3. QED
    BY <2>1, <2>2
<1>11. Lists'
  <2>1. \A u \in UpVal : at[u] \in Slots \/ at'[u] \in Slots => at'[u] = at[u]
    BY <1>2, <1>7, Places
  <2>2. openupval' = openupval
    BY <1>2
  <2>3. QED
    BY <1>1, <1>4, <2>1, <2>2, ListsSame
<1>12. Gone'
  <2>1. \A o \in Obj : color'[o] = "free" => o # c /\ color[o] = "free"
    BY <1>1, <1>2, <1>3 DEF Types
  <2>2. QED
    BY <1>1, <1>2, <1>5, <2>1, Kinds DEF Gone
<1>13. Counts'
  BY <1>9, <1>10 DEF Counts
<1>14. QED
  BY <1>8, <1>11, <1>12, <1>13 DEF SInv

-----------------------------------------------------------------------------
(* The sweep                                                                 *)

\* A dead closure is freed.
ClosureFreed(c) ==
  /\ c \in Closures /\ color[c] = "dead"
  /\ color' = [color EXCEPT ![c] = "free"]
  /\ proto' = [proto EXCEPT ![c] = Nil] /\ upvals' = [upvals EXCEPT ![c] = <<>>]
  /\ \A u \in UpVal : /\ refcount'[u] = refcount[u] - Cardinality(Uses(upvals[c], u))
                      /\ IF u \in Orphans(upvals[c]) THEN at'[u] = Freed /\ refcount'[u] = 0
                         ELSE at'[u] = at[u] /\ value'[u] = value[u]
                      /\ u \in Orphans(upvals[c]) <=> /\ \E i \in DOMAIN upvals[c] : upvals[c][i] = u
                                                      /\ refcount'[u] = 0 /\ ~ upisopen(u)
  /\ refcount' = [u \in UpVal |-> refcount'[u]]
  /\ at' \in [UpVal -> {Freed, Own} \cup Slots] /\ value' \in [UpVal -> Slot]
  /\ UNCHANGED <<stack, L, cache, touched, openupval, twups, gcstate, gray>>

\* A dead thread is freed.
ThreadFreed(th) ==
  /\ th \in Threads /\ color[th] = "dead"
  /\ color' = [color EXCEPT ![th] = "free"]
  /\ Closed(th, 1) /\ OneOther(stack, th, <<>>, stack')
  /\ UNCHANGED <<L, code, refcount, twups, gcstate, gray>>

\* Any other object turns white.
Spared(o) ==
  /\ color[o] # "dead" /\ color' = [color EXCEPT ![o] = "white"]
  /\ UNCHANGED <<stack, L, code, uvs, gcstate, gray>>

LEMMA SweepIs ==
  ASSUME Types, Lists, NEW o \in Obj, sweepstep(o)
  PROVE  /\ gcstate = "sweep" /\ o \in unswept /\ unswept' = unswept \ {o}
         /\ ClosureFreed(o) \/ ThreadFreed(o) \/ Spared(o)
<1>1. gcstate = "sweep" /\ o \in unswept /\ unswept' = unswept \ {o}
      /\ UNCHANGED <<L, cache, twups, gcstate, gray>>
  BY DEF sweepstep
<1>2. CASE color[o] = "dead"
  <2>1. color' = [color EXCEPT ![o] = "free"] /\ freeobj(o)
    BY <1>2 DEF sweepstep
  <2>2. CASE o \in Closures
    <3>1. freeLclosure(o) /\ UNCHANGED stack
      BY <2>1, <2>2, Kinds DEF freeobj
    <3>2. PICK us \in Seq(UpVal) : us = upvals[o]
      BY <2>2 DEF Types
    <3>3. /\ proto' = [proto EXCEPT ![o] = Nil] /\ upvals' = [upvals EXCEPT ![o] = <<>>]
          /\ UNCHANGED <<touched, openupval>>
      BY <3>1 DEF freeLclosure
    <3>4. /\ refcount' = Decreased(us)
          /\ at' = [u \in UpVal |-> IF u \in Orphans(us) THEN Freed ELSE at[u]]
          /\ value' = [u \in UpVal |-> IF u \in Orphans(us) THEN Nil ELSE value[u]]
      BY <3>1, <3>2 DEF freeLclosure, luaC_upvdeccount
    <3>5. \A u \in UpVal : refcount'[u] = refcount[u] - Cardinality(Uses(us, u))
      BY <3>4 DEF Decreased, Uses
    <3>6. \A u \in UpVal : u \in Orphans(us) <=> /\ \E i \in DOMAIN us : us[i] = u
                                                 /\ refcount'[u] = 0 /\ ~ upisopen(u)
      BY <3>4 DEF Orphans, ToSet
    <3>7. /\ refcount' = [u \in UpVal |-> refcount'[u]]
          /\ at' \in [UpVal -> {Freed, Own} \cup Slots] /\ value' \in [UpVal -> Slot]
      <4>1. refcount' = [u \in UpVal |-> refcount'[u]]
        BY <3>4 DEF Decreased
      <4>2. QED
        BY <3>4, <4>1 DEF Types, Slot
    <3>8. \A u \in UpVal : /\ refcount'[u] = refcount[u] - Cardinality(Uses(us, u))
                           /\ IF u \in Orphans(us) THEN at'[u] = Freed /\ refcount'[u] = 0
                              ELSE at'[u] = at[u] /\ value'[u] = value[u]
                           /\ u \in Orphans(us) <=> /\ \E i \in DOMAIN us : us[i] = u
                                                    /\ refcount'[u] = 0 /\ ~ upisopen(u)
      BY <3>4, <3>5, <3>6
    <3>9. ClosureFreed(o)
      BY <1>1, <1>2, <2>1, <2>2, <3>1, <3>2, <3>3, <3>7, <3>8 DEF ClosureFreed
    <3>10. QED
      BY <1>1, <3>9
  <2>3. CASE o \notin Closures
    <3>1. o \in Threads /\ luaE_freethread(o) /\ UNCHANGED <<proto, upvals>>
      BY <2>1, <2>3 DEF freeobj
    <3>2. luaF_close(o, 1) /\ stack' = [stack EXCEPT ![o] = <<>>] /\ UNCHANGED refcount
      BY <3>1 DEF luaE_freethread
    <3>3. Closed(o, 1)
      BY <3>1, <3>2, CloseIs
    <3>4. ThreadFreed(o)
      BY <1>1, <1>2, <2>1, <3>1, <3>2, <3>3 DEF ThreadFreed, OneOther, code
    <3>5. QED
      BY <1>1, <3>4
  <2>4. QED
    BY <2>2, <2>3
<1>3. CASE color[o] # "dead"
  <2>1. Spared(o)
    BY <1>1, <1>3 DEF sweepstep, Spared, code, uvs
  <2>2. QED
    BY <1>1, <2>1
<1>4. QED
  BY <1>2, <1>3

LEMMA ClosureFreedSInv ==
  ASSUME SInv, NEW c, ClosureFreed(c), unswept' \subseteq Obj
  PROVE  SInv'
<1>1. Types /\ Counts /\ Lists /\ Gone
  BY DEF SInv
<1>2. /\ c \in Closures
      /\ color' = [color EXCEPT ![c] = "free"]
      /\ proto' = [proto EXCEPT ![c] = Nil] /\ upvals' = [upvals EXCEPT ![c] = <<>>]
      /\ refcount' = [u \in UpVal |-> refcount'[u]]
      /\ at' \in [UpVal -> {Freed, Own} \cup Slots] /\ value' \in [UpVal -> Slot]
      /\ UNCHANGED <<stack, L, cache, touched, openupval, twups, gcstate, gray>>
  BY DEF ClosureFreed
<1>3. PICK us \in Seq(UpVal) : us = upvals[c]
  BY <1>1, <1>2 DEF Types
<1>4. \A u \in UpVal : /\ refcount'[u] = refcount[u] - Cardinality(Uses(us, u))
                       /\ IF u \in Orphans(us) THEN at'[u] = Freed /\ refcount'[u] = 0
                          ELSE at'[u] = at[u] /\ value'[u] = value[u]
                       /\ u \in Orphans(us) <=> /\ \E i \in DOMAIN us : us[i] = u
                                                /\ refcount'[u] = 0 /\ ~ upisopen(u)
  BY <1>3 DEF ClosureFreed
<1>5. /\ upvals' \in [Closures -> Seq(UpVal)] /\ upvals'[c] = <<>>
      /\ \A d \in Closures \ {c} : upvals'[d] = upvals[d]
  <2>1. <<>> \in Seq(UpVal)
    OBVIOUS
  <2>2. QED
    BY <1>1, <1>2, <2>1 DEF Types
<1>6. Exact(upvals', refcount')
  <2>1. PICK G, Q : G = upvals' /\ Q = refcount'
    OBVIOUS
  <2>2. PICK H \in [Closures -> Seq(UpVal)] : H = upvals
    BY <1>1 DEF Types
  <2>3. OneMore(G, H, c)
    BY <1>5, <2>1, <2>2 DEF OneMore
  <2>4. \A u \in UpVal : Q[u] = refcount[u] - Cardinality(Uses(H[c], u))
    BY <1>3, <1>4, <2>1, <2>2
  <2>5. Exact(H, refcount)
    BY <1>1, <2>2 DEF Counts
  <2>6. Exact(G, Q)
    BY <1>2, <2>3, <2>4, <2>5, RemovedCounts
  <2>7. QED
    BY <2>1, <2>6
<1>7. \A u \in UpVal : refcount'[u] \in Nat /\ refcount[u] \in Nat
  <2>1. \A u \in UpVal : refcount'[u] \in Nat
    BY <1>6, FS_CardinalityType DEF Exact
  <2>2. QED
    BY <1>1, <2>1 DEF Types
<1>8. refcount' \in [UpVal -> Nat]
  BY <1>2, <1>7
<1>9. Types'
  <2>1. proto' \in [Closures -> Protos \cup {Nil}]
    BY <1>1, <1>2 DEF Types
  <2>2. color' \in [Obj -> {"free", "white", "dead", "gray", "black"}]
    BY <1>1, <1>2 DEF Types
  <2>3. QED
    BY <1>1, <1>2, <1>5, <1>8, <2>1, <2>2 DEF Types, Slot
<1>10. \A u \in UpVal : /\ Cardinality(Uses(us, u)) \in Nat
                        /\ (Cardinality(Uses(us, u)) = 0 <=> \A i \in DOMAIN us : us[i] # u)
  BY UsesFinite, FS_CardinalityType
<1>11. ASSUME NEW u \in UpVal
       PROVE  (at'[u] = Freed => refcount'[u] = 0) /\ (at'[u] = Own => refcount'[u] > 0)
  <2>1. refcount'[u] = refcount[u] - Cardinality(Uses(us, u))
    BY <1>4
  <2>2. CASE u \in Orphans(us)
    BY <1>4, <2>2, Places
  <2>3. CASE u \notin Orphans(us)
    <3>1. at'[u] = at[u]
      BY <1>4, <2>3
    <3>2. at[u] = Freed => refcount[u] = 0
      BY <1>1 DEF Counts
    <3>3. at'[u] = Freed => refcount'[u] = 0
      BY <1>7, <1>10, <2>1, <3>1, <3>2
    <3>4. ASSUME at'[u] = Own PROVE refcount'[u] > 0
      <4>1. refcount[u] > 0 /\ ~ upisopen(u)
        BY <1>1, <3>1, <3>4, Places DEF Counts, upisopen
      <4>2. CASE \E i \in DOMAIN us : us[i] = u
        <5>1. refcount'[u] # 0
          BY <1>4, <2>3, <4>1, <4>2
        <5>2. QED
          BY <1>7, <5>1
      <4>3. CASE ~ \E i \in DOMAIN us : us[i] = u
        <5>1. Cardinality(Uses(us, u)) = 0
          BY <1>10, <4>3
        <5>2. QED
          BY <1>7, <2>1, <4>1, <5>1
      <4>4. QED
        BY <4>2, <4>3
    <3>5. QED
      BY <3>3, <3>4
  <2>4. QED
    BY <2>2, <2>3
<1>12. Lists'
  <2>1. at \in [UpVal -> {Freed, Own} \cup Slots]
    BY <1>1 DEF Types
  <2>2. \A u \in UpVal : at[u] \in Slots \/ at'[u] \in Slots => at'[u] = at[u]
    BY <1>4, <2>1, Places, Upvalues
  <2>3. StackOK(stack') /\ Longer(stack, stack')
    BY <1>1, <1>2, SameStacks
  <2>4. openupval' = openupval
    BY <1>2
  <2>5. QED
    BY <1>1, <2>2, <2>3, <2>4, ListsSame
<1>13. Gone'
  <2>1. \A o \in Obj \ {c} : color'[o] = color[o]
    BY <1>1, <1>2 DEF Types
  <2>2. c \notin Threads
    BY <1>2, Kinds
  <2>3. QED
    BY <1>1, <1>2, <1>5, <2>1, <2>2, Kinds DEF Gone
<1>14. Counts'
  BY <1>6, <1>11 DEF Counts
<1>15. QED
  BY <1>9, <1>12, <1>13, <1>14 DEF SInv

LEMMA NoneBelow ==
  ASSUME Types, Lists, NEW th \in Threads
  PROVE  Lower(th, 1) = <<>>
<1>1. PICK rest \in Seq(UpVal) : rest = Lower(th, 1) /\ Ordered(rest, at, th, 1 - 1)
  BY ClosingIs
<1>2. PICK n \in Nat : n = 1 - 1 /\ n = 0
  OBVIOUS
<1>3. Ordered(rest, at, th, n)
  BY <1>1, <1>2
<1>4. \A i \in 1 .. Len(rest) : at[rest[i]][2] \in 1 .. StackSize /\ at[rest[i]][2] <= n
  BY <1>3, OrderedIs
<1>5. \A i \in 1 .. Len(rest) : FALSE
  BY <1>2, <1>4
<1>6. Len(rest) = 0
  BY <1>5
<1>7. QED
  BY <1>1, <1>6

LEMMA ThreadFreedSInv ==
  ASSUME SInv, NEW th, ThreadFreed(th), unswept' \subseteq Obj
  PROVE  SInv'
<1>1. Types /\ Counts /\ Lists /\ Gone
  BY DEF SInv
<1>2. /\ th \in Threads
      /\ color' = [color EXCEPT ![th] = "free"]
      /\ Closed(th, 1) /\ OneOther(stack, th, <<>>, stack')
      /\ UNCHANGED <<L, code, refcount, twups, gcstate, gray>>
  BY DEF ThreadFreed
<1>3. /\ at' \in [UpVal -> {Freed, Own} \cup Slots] /\ value' \in [UpVal -> Slot]
      /\ touched' \in [UpVal -> BOOLEAN] /\ openupval' \in [Threads -> Seq(UpVal)]
      /\ openupval'[th] = Lower(th, 1)
      /\ \A t \in Threads \ {th} : openupval'[t] = openupval[t]
  BY <1>2 DEF Closed
<1>4. StackOK(stack)
  BY <1>1, StackIs
<1>5. /\ StackOK(stack') /\ stack'[th] = <<>> /\ \A t \in Threads \ {th} : stack'[t] = stack[t]
  <2>1. <<>> \in Seq(Slot) /\ Len(<<>>) = 0 /\ StackSize \in Nat
    BY Kinds
  <2>2. stack' = [stack EXCEPT ![th] = <<>>]
    BY <1>2 DEF OneOther
  <2>3. QED
    BY <1>2, <1>4, <2>1, <2>2 DEF StackOK
<1>6. /\ Lists'
      /\ \A u \in UpVal : /\ at'[u] = Freed => refcount[u] = 0
                          /\ at'[u] = Own => refcount[u] > 0
  <2>1. Len(stack'[th]) = 0
    BY <1>5
  <2>2. PICK one \in Nat : one = 1 /\ Closed(th, one) /\ one <= Len(stack'[th]) + 1
    BY <1>2, <2>1
  <2>3. Lists'
    BY <1>1, <1>2, <1>5, <2>2, ClosedLists
  <2>4. \A u \in UpVal : /\ at'[u] = Freed => refcount[u] = 0
                         /\ at'[u] = Own => refcount[u] > 0
    BY <1>1, <1>2, <1>5, <2>2, ClosedLists
  <2>5. QED
    BY <2>3, <2>4
<1>7. Types'
  <2>1. color' \in [Obj -> {"free", "white", "dead", "gray", "black"}]
    BY <1>1, <1>2 DEF Types
  <2>2. QED
    BY <1>1, <1>2, <1>3, <1>5, <2>1 DEF Types, StackOK, Slot, code
<1>8. Counts'
  BY <1>1, <1>2, <1>6 DEF Counts, Exact, Refs, code
<1>9. Gone'
  <2>1. openupval'[th] = <<>>
    BY <1>1, <1>2, <1>3, NoneBelow
  <2>2. \A o \in Obj \ {th} : color'[o] = color[o]
    BY <1>1, <1>2 DEF Types
  <2>3. th \notin Closures
    BY <1>2, Kinds
  <2>4. \A t \in Threads \ {th} : t \in Obj \ {th}
    BY Kinds
  <2>5. \A c \in Closures : c \in Obj \ {th}
    BY <2>3, Kinds
  <2>6. \A t \in Threads : color'[t] = "free" => openupval'[t] = <<>>
    BY <1>1, <1>3, <2>1, <2>2, <2>4 DEF Gone
  <2>7. \A c \in Closures : color'[c] = "free" => upvals'[c] = <<>>
    BY <1>1, <1>2, <2>2, <2>5 DEF Gone, code
  <2>8. QED
    BY <2>6, <2>7 DEF Gone
<1>10. QED
  BY <1>6, <1>7, <1>8, <1>9 DEF SInv

LEMMA SweepSInv ==
  ASSUME SInv, NEW o \in Obj, sweepstep(o)
  PROVE  SInv'
<1>1. Types /\ Lists
  BY DEF SInv
<1>2. /\ unswept' = unswept \ {o}
      /\ ClosureFreed(o) \/ ThreadFreed(o) \/ Spared(o)
  BY <1>1, SweepIs
<1>3. unswept' \subseteq Obj
  BY <1>1, <1>2 DEF Types
<1>4. CASE Spared(o)
  <2>1. Types'
    BY <1>1, <1>3, <1>4 DEF Spared, Types, code, uvs
  <2>2. NoneGoes
    BY <1>1, <1>4 DEF Spared, NoneGoes, Types
  <2>3. StackOK(stack') /\ Longer(stack, stack')
    BY <1>1, <1>4, SameStacks DEF Spared
  <2>4. QED
    BY <1>4, <2>1, <2>2, <2>3, Quiet DEF Spared, code, uvs
<1>5. QED
  BY <1>2, <1>3, <1>4, ClosureFreedSInv, ThreadFreedSInv


-----------------------------------------------------------------------------
(* What keeps the colors                                                     *)

LEMMA ColorIs ==
  ASSUME Types
  PROVE  color \in [Obj -> Shades] /\ \A o \in Obj : color[o] \in Shades
BY DEF Types, Shades

\* Marked objects stay marked.
StayMarked == \A o \in Obj : color[o] \in {"gray", "black"} => color'[o] \in {"gray", "black"}
\* What is in use stays in use.
LiveAfter(o) == color'[o] \notin {"free", "dead"}
LivesOn == \A o \in Obj : Live(o) => LiveAfter(o)

LEMMA BarrierKeeps ==
  ASSUME Hues, NEW S, BarrierSays(S)
  PROVE  /\ StayMarked /\ LivesOn
         /\ \A o \in Obj : LiveAfter(o) => Live(o)
         /\ \A o \in Obj : color'[o] = "black" => color[o] = "black"
         /\ keepinvariant => \A o \in S \ {Nil} : o \in Obj /\ Live(o) => color'[o] \in {"gray", "black"}
<1>1. StayMarked
  BY DEF BarrierSays, StayMarked, iswhite
<1>2. LivesOn
  BY DEF BarrierSays, LivesOn, Live, LiveAfter
<1>3. \A o \in Obj : LiveAfter(o) => Live(o)
  BY DEF BarrierSays, Live, LiveAfter, iswhite, keepinvariant, Hues
<1>4. \A o \in Obj : color'[o] = "black" => color[o] = "black"
  BY DEF BarrierSays
<1>5. keepinvariant => \A o \in S \ {Nil} : o \in Obj /\ Live(o) => color'[o] \in {"gray", "black"}
  BY DEF BarrierSays, Live, iswhite, Shades
<1>6. QED
  BY <1>1, <1>2, <1>3, <1>4, <1>5

LEMMA BarrierHues ==
  ASSUME Types, Hues, NEW S, BarrierSays(S), UNCHANGED <<gcstate, unswept>>
  PROVE  Hues'
<1>1. gcstate' = gcstate /\ unswept' = unswept
  OBVIOUS
<1>2. CASE gcstate = "propagate"
  <2>1. /\ \A o \in Obj : color[o] # "dead"
        /\ \A o \in gray : color[o] = "gray"
        /\ \A o \in Obj \ Threads : color[o] = "gray" => o \in gray
        /\ \A th \in Threads : color[th] # "black"
        /\ \A o \in Roots : color[o] \in {"gray", "black"}
        /\ unswept = {}
    BY <1>2 DEF Hues
  <2>2. \A o \in Obj : color'[o] = color[o] \/ (color'[o] = "gray" /\ o \in gray' /\ iswhite(o))
    BY DEF BarrierSays
  <2>3. \A o \in Obj : color'[o] # "dead"
    BY <2>1, <2>2
  <2>4. \A o \in gray' : color'[o] = "gray"
    BY <2>1, <2>2 DEF BarrierSays, iswhite
  <2>5. \A o \in Obj \ Threads : color'[o] = "gray" => o \in gray'
    BY <2>1, <2>2 DEF BarrierSays
  <2>6. \A th \in Threads : color'[th] # "black"
    BY <2>1, <2>2, Kinds
  <2>7. \A o \in Roots : color'[o] \in {"gray", "black"}
    BY <2>1, <2>2, Kinds
  <2>8. QED
    BY <1>1, <1>2, <2>1, <2>3, <2>4, <2>5, <2>6, <2>7 DEF Hues
<1>3. CASE gcstate # "propagate"
  <2>1. (\A o \in Obj : color'[o] = color[o]) /\ (\A o \in gray' : o \in gray)
    BY <1>3 DEF BarrierSays, keepinvariant
  <2>2. gray' = gray
    BY <2>1 DEF BarrierSays
  <2>3. MainThread \in Obj
    BY Kinds
  <2>4. \A o \in unswept : o \in Obj
    BY DEF Types
  <2>5. \A o \in unswept : Exists(o) <=> Exists(o)'
    BY <2>1, <2>4 DEF Exists
  <2>6. QED
    BY <1>1, <1>3, <2>1, <2>2, <2>3, <2>5 DEF Hues
<1>4. QED
  BY <1>2, <1>3

\* A new object.
Born(o) == o \in Obj /\ color[o] = "free" /\ color' = [color EXCEPT ![o] = "white"]

LEMMA BornIs ==
  ASSUME Types, NEW c, Born(c)
  PROVE  /\ color'[c] = "white" /\ \A o \in Obj \ {c} : color'[o] = color[o]
         /\ StayMarked /\ LivesOn
         /\ \A o \in Obj : LiveAfter(o) => o = c \/ Live(o)
         /\ \A o \in Obj : color'[o] = "black" => color[o] = "black"
<1>1. color'[c] = "white" /\ \A o \in Obj \ {c} : color'[o] = color[o]
  BY ColorIs DEF Born
<1>2. color[c] = "free"
  BY DEF Born
<1>3. StayMarked
  BY <1>1, <1>2 DEF StayMarked
<1>4. LivesOn /\ \A o \in Obj : LiveAfter(o) => o = c \/ Live(o)
  BY <1>1, <1>2 DEF LivesOn, Live, LiveAfter
<1>5. \A o \in Obj : color'[o] = "black" => color[o] = "black"
  BY <1>1
<1>6. QED
  BY <1>1, <1>3, <1>4, <1>5

LEMMA BornHues ==
  ASSUME Types, Hues, NEW c, Born(c), UNCHANGED <<gcstate, gray, unswept>>
  PROVE  Hues'
<1>1. color'[c] = "white" /\ color[c] = "free" /\ \A o \in Obj \ {c} : color'[o] = color[o]
  BY BornIs DEF Born
<1>2. gcstate' = gcstate /\ gray' = gray /\ unswept' = unswept /\ gray \subseteq Obj /\ unswept \subseteq Obj
  BY DEF Types
<1>3. Roots \subseteq Obj /\ Threads \subseteq Obj /\ MainThread \in Obj
  BY Kinds
<1>4. CASE gcstate = "pause"
  BY <1>1, <1>2, <1>4 DEF Hues
<1>5. CASE gcstate = "propagate"
  BY <1>1, <1>2, <1>3, <1>5 DEF Hues
<1>6. CASE gcstate = "sweep"
  <2>1. \A o \in unswept : Exists(o)'
    BY <1>1, <1>2, <1>6 DEF Hues, Exists
  <2>2. \A o \in Obj \ unswept : color'[o] \in {"free", "white"} \/ o = MainThread
    BY <1>1, <1>2, <1>6 DEF Hues
  <2>3. QED
    BY <1>2, <1>6, <2>1, <2>2 DEF Hues
<1>7. QED
  BY <1>4, <1>5, <1>6 DEF Types

-----------------------------------------------------------------------------
(* What keeps the propagation and what is in use                             *)

\* Upvalue u of a black closure c is the one it was, or what it needs to be.
StaysFit(c, u) ==
  \/ u \in ToSet(upvals[c]) /\ at'[u] = at[u] /\ value'[u] = value[u] /\ (touched[u] => touched'[u])
  \/ upisopen(u)' /\ touched'[u]
  \/ ~ upisopen(u)' /\ (value'[u] = Nil \/ color'[value'[u]] \in {"gray", "black"})

LEMMA MarkedStays ==
  ASSUME StayMarked, NEW x \in Obj \cup {Nil}, Marked(x)
  PROVE  x = Nil \/ color'[x] \in {"gray", "black"}
BY Kinds DEF Marked, StayMarked

\* A closure stays traversed.
LEMMA TraversedStays ==
  ASSUME Types, StayMarked, NEW c \in Closures, Traversed(c),
         \A u \in ToSet(upvals'[c]) : u \in UpVal /\ StaysFit(c, u)
  PROVE  Traversed(c)'
<1>1. ASSUME NEW u \in ToSet(upvals'[c])
      PROVE  IF upisopen(u)' THEN touched'[u] ELSE value'[u] = Nil \/ color'[value'[u]] \in {"gray", "black"}
  <2>1. u \in UpVal /\ StaysFit(c, u)
    BY <1>1
  <2>2. CASE u \in ToSet(upvals[c]) /\ at'[u] = at[u] /\ value'[u] = value[u] /\ (touched[u] => touched'[u])
    <3>1. upisopen(u)' <=> upisopen(u)
      BY <2>2 DEF upisopen
    <3>2. IF upisopen(u) THEN touched[u] ELSE Marked(value[u])
      BY <2>2 DEF Traversed
    <3>3. value[u] \in Obj \cup {Nil}
      BY <2>1, Kinds DEF Types
    <3>4. Marked(value[u]) => value[u] = Nil \/ color'[value[u]] \in {"gray", "black"}
      BY <3>3, MarkedStays
    <3>5. QED
      BY <2>2, <3>1, <3>2, <3>4
  <2>3. CASE upisopen(u)' /\ touched'[u]
    BY <2>3
  <2>4. CASE ~ upisopen(u)' /\ (value'[u] = Nil \/ color'[value'[u]] \in {"gray", "black"})
    BY <2>4
  <2>5. QED
    BY <2>1, <2>2, <2>3, <2>4 DEF StaysFit
<1>2. QED
  BY <1>1 DEF Traversed, Marked

LEMMA CacheMarked ==
  ASSUME Types, StayMarked, NEW f \in Protos, Marked(cache[f]), cache'[f] = cache[f]
  PROVE  Marked(cache[f])'
<1>1. cache[f] \in Obj \cup {Nil}
  BY Kinds DEF Types
<1>2. cache[f] = Nil \/ color'[cache[f]] \in {"gray", "black"}
  BY <1>1, MarkedStays
<1>3. QED
  BY <1>2 DEF Marked

LEMMA BlacksKept ==
  ASSUME Types, Blacks, gcstate' = gcstate, StayMarked,
         \A o \in Obj : color'[o] = "black" => color[o] = "black",
         \A c \in Closures : gcstate = "propagate" /\ color[c] = "black" =>
            \A u \in ToSet(upvals'[c]) : u \in UpVal /\ StaysFit(c, u),
         \A f \in Protos : color[f] = "black" => cache'[f] = cache[f]
  PROVE  Blacks'
<1> SUFFICES ASSUME gcstate = "propagate"
             PROVE  /\ \A c \in Closures : color'[c] = "black" => Traversed(c)'
                    /\ \A f \in Protos : color'[f] = "black" => Marked(cache[f])'
  BY DEF Blacks
<1>1. ASSUME NEW c \in Closures, color'[c] = "black" PROVE Traversed(c)'
  <2>1. color[c] = "black" /\ Traversed(c)
    BY <1>1, Kinds DEF Blacks
  <2>2. QED
    BY <2>1, TraversedStays
<1>2. ASSUME NEW f \in Protos, color'[f] = "black" PROVE Marked(cache[f])'
  <2>1. color[f] = "black" /\ Marked(cache[f]) /\ cache'[f] = cache[f]
    BY <1>2, Kinds DEF Blacks
  <2>2. QED
    BY <2>1, CacheMarked
<1>3. QED
  BY <1>1, <1>2

\* A black closure is in use, and so are the values of its upvalues.
LEMMA UsedValue ==
  ASSUME Types, Counts, Lists, LiveValues, NEW c \in Closures, Live(c), NEW u \in ToSet(upvals[c])
  PROVE  /\ u \in UpVal /\ at[u] # Freed /\ refcount[u] > 0
         /\ ValueOf(u) \in Slot /\ (ValueOf(u) = Nil \/ Live(ValueOf(u)))
<1>1. PICK i \in DOMAIN upvals[c] : u = upvals[c][i]
  BY DEF ToSet
<1>2. u \in UpVal /\ at[u] # Freed /\ refcount[u] > 0
  BY <1>1, UsedUpvalue
<1>3. ValueOf(u) \in Slot
  BY <1>2, ValueIs
<1>4. ValueOf(u) \in AtomicRefs(c)
  BY RefsOf
<1>5. ValueOf(u) = Nil \/ Live(ValueOf(u))
  BY <1>4, Kinds DEF LiveValues
<1>6. QED
  BY <1>2, <1>3, <1>5

LEMMA ValueKept ==
  ASSUME Types, Lists, NEW X, Grown(stack, stack', X), NEW u \in UpVal,
         at'[u] = at[u], value'[u] = value[u],
         upisopen(u) => LevelOf(u) <= Len(stack'[ThreadOf(u)])
  PROVE  ValueOf(u)' = ValueOf(u) \/ ValueOf(u)' \in X
<1>1. CASE upisopen(u)
  <2>1. PICK th \in Threads, l \in Nat : th = ThreadOf(u) /\ l = LevelOf(u) /\ l \in 1 .. Len(stack[th])
    BY <1>1, OpenUpvalue
  <2>2. ThreadOf(u)' = th /\ LevelOf(u)' = l /\ upisopen(u)'
    BY <1>1, <2>1 DEF ThreadOf, LevelOf, upisopen
  <2>3. ValueOf(u) = stack[th][l] /\ ValueOf(u)' = stack'[th][l]
    BY <1>1, <2>1, <2>2 DEF ValueOf
  <2>4. l \in Nat \ {0} /\ l <= Len(stack'[th])
    BY <1>1, <2>1, StackIs
  <2>5. CASE l \in 1 .. Len(stack'[th])
    BY <2>3, <2>5 DEF Grown
  <2>6. QED
    BY <2>4, <2>5
<1>2. CASE ~ upisopen(u)
  BY <1>2 DEF ValueOf, upisopen
<1>3. QED
  BY <1>1, <1>2

\* What comes into stacks and upvalues is in use afterwards.
Comes(X) == \A x \in X : x = Nil \/ LiveAfter(x)

LEMMA StackStays ==
  ASSUME Types, LiveValues, LivesOn, NEW X, Comes(X), StackOK(stack'), Grown(stack, stack', X),
         NEW th \in Threads, Live(th)
  PROVE  \A x \in ToSet(stack'[th]) \ {Nil} : LiveAfter(x)
<1>1. stack'[th] \in Seq(Slot) /\ DOMAIN stack'[th] = 1 .. Len(stack'[th])
  BY DEF StackOK
<1>2. SUFFICES ASSUME NEW l \in 1 .. Len(stack'[th]), stack'[th][l] # Nil PROVE LiveAfter(stack'[th][l])
  BY <1>1 DEF ToSet
<1>3. CASE stack'[th][l] \in X
  BY <1>2, <1>3 DEF Comes, Live, LiveAfter
<1>4. CASE l <= Len(stack[th]) /\ stack'[th][l] = stack[th][l]
  <2>1. stack[th] \in Seq(Slot) /\ DOMAIN stack[th] = 1 .. Len(stack[th]) /\ Len(stack[th]) \in Nat
    BY StackIs
  <2>2. Len(stack'[th]) \in Nat
    BY <1>1
  <2>3. l \in DOMAIN stack[th]
    BY <1>4, <2>1, <2>2
  <2>4. stack[th][l] \in ToSet(stack[th]) /\ stack[th][l] \in Slot
    BY <2>1, <2>3, StackIs DEF ToSet
  <2>5. Live(stack[th][l])
    BY <1>2, <1>4, <2>4, RefsOf, Kinds DEF LiveValues
  <2>6. stack[th][l] \in Obj
    BY <1>2, <1>4, <2>4, Kinds DEF Slot
  <2>7. QED
    BY <1>4, <2>5, <2>6 DEF LivesOn, Live, LiveAfter
<1>5. QED
  BY <1>2, <1>3, <1>4 DEF Grown

LEMMA UpvalueStays ==
  ASSUME Types, Counts, Lists, LiveValues, LivesOn, NEW X, Comes(X), Grown(stack, stack', X),
         NEW c \in Closures, Live(c), NEW u \in ToSet(upvals[c]),
         at'[u] = at[u], value'[u] = value[u],
         upisopen(u) => LevelOf(u) <= Len(stack'[ThreadOf(u)])
  PROVE  ValueOf(u)' = Nil \/ LiveAfter(ValueOf(u)')
<1>1. u \in UpVal /\ ValueOf(u) \in Slot /\ (ValueOf(u) = Nil \/ Live(ValueOf(u)))
  BY UsedValue
<1>2. ValueOf(u)' = ValueOf(u) \/ ValueOf(u)' \in X
  BY <1>1, ValueKept
<1>3. PICK x : x = ValueOf(u)'
  OBVIOUS
<1>4. x = Nil \/ LiveAfter(x)
  <2>1. CASE x \in X
    BY <2>1 DEF Comes
  <2>2. CASE x = ValueOf(u)
    BY <1>1, <2>2, Kinds DEF LivesOn, Slot
  <2>3. QED
    BY <1>2, <1>3, <2>1, <2>2
<1>5. QED
  BY <1>3, <1>4 DEF Live, LiveAfter

LEMMA LiveAll ==
  ASSUME \A th \in Threads : LiveAfter(th) => \A x \in ToSet(stack'[th]) \ {Nil} : LiveAfter(x),
         \A c \in Closures : LiveAfter(c) => \A u \in ToSet(upvals'[c]) : ValueOf(u)' = Nil \/ LiveAfter(ValueOf(u)')
  PROVE  LiveValues'
<1>1. ASSUME NEW o \in Values, LiveAfter(o) PROVE \A x \in AtomicRefs(o)' \ {Nil} : LiveAfter(x)
  <2>1. CASE o \in Threads
    BY <1>1, <2>1, RefsOf
  <2>2. CASE o \in Closures
    <3>1. AtomicRefs(o)' = {ValueOf(u)' : u \in ToSet(upvals'[o])}
      BY <2>2, RefsOf
    <3>2. \A u \in ToSet(upvals'[o]) : ValueOf(u)' = Nil \/ LiveAfter(ValueOf(u)')
      BY <1>1, <2>2
    <3>3. QED
      BY <3>1, <3>2 DEF Live, LiveAfter
  <2>3. QED
    BY <2>1, <2>2, Kinds
<1>2. QED
  BY <1>1 DEF LiveValues, Live, LiveAfter

\* The running thread and what the collector starts from stay in use.
LEMMA RootsLive ==
  ASSUME Types, Alive, LivesOn, L' = L
  PROVE  LiveAfter(L') /\ \A o \in Roots : LiveAfter(o)
BY Kinds, StackIs DEF Alive, LivesOn, Live, LiveAfter

LEMMA CacheLive ==
  ASSUME Types, Alive, LivesOn, \A p \in Protos : cache'[p] = cache[p] \/ cache'[p] = Nil \/ LiveAfter(cache'[p])
  PROVE  LiveCache'
<1>1. ASSUME NEW p \in Protos, cache'[p] # Nil PROVE LiveAfter(cache'[p])
  <2>1. CASE cache'[p] = cache[p]
    <3>1. cache[p] \in Obj /\ Live(cache[p])
      BY <1>1, <2>1, Kinds DEF Types, Alive, LiveCache
    <3>2. QED
      BY <2>1, <3>1 DEF LivesOn, Live, LiveAfter
  <2>2. QED
    BY <1>1, <2>1
<1>2. QED
  BY <1>1 DEF LiveCache, Live, LiveAfter

LEMMA TwupsKept ==
  ASSUME Types, Alive, LivesOn, \A th \in Threads : LiveAfter(th) => Live(th),
         twups' = twups, \A th \in Threads : openupval'[th] # <<>> => openupval[th] # <<>>
  PROVE  Twups'
BY Kinds DEF Alive, Twups, LivesOn, Live, LiveAfter

-----------------------------------------------------------------------------
(* The steps of the program: colors, and what is in use                      *)

GoodAfter(u) == ValueOf(u)' = Nil \/ LiveAfter(ValueOf(u)')

LEMMA LiveFrom ==
  ASSUME Types, LiveValues, LivesOn, NEW X, Comes(X), StackOK(stack'), Grown(stack, stack', X),
         \A th \in Threads : LiveAfter(th) => Live(th) \/ stack'[th] = <<>>,
         \A c \in Closures : LiveAfter(c) => \A u \in ToSet(upvals'[c]) : GoodAfter(u)
  PROVE  LiveValues'
<1>1. ASSUME NEW th \in Threads, LiveAfter(th) PROVE \A x \in ToSet(stack'[th]) \ {Nil} : LiveAfter(x)
  <2>1. CASE Live(th)
    BY <2>1, StackStays
  <2>2. CASE stack'[th] = <<>>
    BY <2>2 DEF ToSet
  <2>3. QED
    BY <1>1, <2>1, <2>2
<1>2. QED
  BY <1>1, LiveAll DEF GoodAfter

\* Open upvalues keep their slots where stacks only grow.
LEMMA SlotsKept ==
  ASSUME Types, Lists, Longer(stack, stack'), StackOK(stack'), NEW u \in UpVal, upisopen(u)
  PROVE  LevelOf(u) <= Len(stack'[ThreadOf(u)])
<1>1. PICK th \in Threads, l \in Nat : th = ThreadOf(u) /\ l = LevelOf(u) /\ l \in 1 .. Len(stack[th])
  BY OpenUpvalue, StackIs
<1>2. Len(stack[th]) \in Nat /\ Len(stack[th]) <= Len(stack'[th])
  BY StackIs DEF Longer
<1>3. Len(stack'[th]) \in Nat
  BY DEF StackOK
<1>4. QED
  BY <1>1, <1>2, <1>3

LEMMA IInvIs ==
  ASSUME IInv
  PROVE  /\ SInv /\ Types /\ Counts /\ Lists /\ Gone /\ Hues /\ Blacks /\ Alive
         /\ Live(L) /\ LiveValues /\ LiveCache /\ Twups /\ \A o \in Roots : Live(o)
BY DEF IInv, SInv, Colors, Alive

LEMMA StackStepIInv ==
  ASSUME IInv, NEW X, StackStep(X)
  PROVE  IInv'
<1>1. SInv /\ Types /\ Counts /\ Lists /\ Gone /\ Hues /\ Blacks /\ Alive /\ LiveValues
  BY IInvIs
<1>2. /\ StackOK(stack') /\ Longer(stack, stack') /\ Grown(stack, stack', X) /\ \A x \in X : Good(x)
      /\ L' \in Threads /\ Live(L') /\ UNCHANGED <<proto, upvals, cache>>
      /\ UNCHANGED <<at, value, refcount, touched, openupval, twups>>
      /\ UNCHANGED <<gcstate, color, gray, unswept>>
  BY DEF StackStep, code, uvs, gc
<1>3. SInv'
  BY <1>1, StackStepSInv
<1>4. Hues'
  BY <1>1, <1>2 DEF Hues, Exists
<1>5. Blacks'
  BY <1>1, <1>2 DEF Blacks, Traversed, Marked, upisopen
<1>6. LivesOn /\ \A o : LiveAfter(o) <=> Live(o)
  BY <1>2 DEF LivesOn, LiveAfter, Live
<1>7. Comes(X)
  BY <1>2, <1>6 DEF Comes, Good
<1>8. ASSUME NEW c \in Closures, LiveAfter(c), NEW u \in ToSet(upvals'[c]) PROVE GoodAfter(u)
  <2>1. Live(c) /\ u \in ToSet(upvals[c]) /\ u \in UpVal
    BY <1>1, <1>2, <1>6, <1>8, UpvalsOf
  <2>2. at'[u] = at[u] /\ value'[u] = value[u]
    BY <1>2
  <2>3. upisopen(u) => LevelOf(u) <= Len(stack'[ThreadOf(u)])
    BY <1>1, <1>2, <2>1, SlotsKept
  <2>4. QED
    BY <1>1, <1>2, <1>6, <1>7, <2>1, <2>2, <2>3, UpvalueStays DEF GoodAfter
<1>9. LiveValues'
  BY <1>1, <1>2, <1>6, <1>7, <1>8, LiveFrom
<1>10. LiveCache'
  BY <1>1, <1>2, <1>6, CacheLive
<1>11. Twups'
  BY <1>1, <1>2, <1>6, TwupsKept
<1>12. Live(L)' /\ \A o \in Roots : Live(o)'
  BY <1>1, <1>2 DEF Alive, Live
<1>13. QED
  BY <1>3, <1>4, <1>5, <1>9, <1>10, <1>11, <1>12 DEF IInv, Colors, Alive

LEMMA SetupvalIInv ==
  ASSUME IInv, NEW c \in Running, NEW i \in DOMAIN upvals[c], NEW x \in AtHand \cup {Nil},
         setupval(c, i, x)
  PROVE  IInv'
<1>1. SInv /\ Types /\ Counts /\ Lists /\ Gone /\ Hues /\ Blacks /\ Alive /\ LiveValues
  BY IInvIs
<1>2. CASE StackStep({x})
  BY <1>2, StackStepIInv
<1>3. CASE ~ StackStep({x})
  <2>1. PICK u \in UpVal : u = upvals[c][i]
    BY GoodUpvalue
  <2>2. /\ value' = [value EXCEPT ![u] = x] /\ ~ upisopen(u)
        /\ BarrierSays({x}) /\ Good(x)
        /\ UNCHANGED <<stack, L, code, at, refcount, touched, openupval, twups, gcstate, unswept>>
    BY <1>3, <2>1, SetupvalIs
  <2>3. UNCHANGED <<proto, upvals, cache>>
    BY <2>2 DEF code
  <2>4. SInv'
    BY SetupvalSInv
  <2>5. /\ StayMarked /\ LivesOn
        /\ \A o \in Obj : LiveAfter(o) => Live(o)
        /\ \A o \in Obj : color'[o] = "black" => color[o] = "black"
        /\ keepinvariant => \A y \in {x} \ {Nil} : y \in Obj /\ Live(y) => color'[y] \in {"gray", "black"}
    BY <1>1, <2>2, BarrierKeeps
  <2>6. Hues'
    BY <1>1, <2>2, BarrierHues
  <2>7. value'[u] = x /\ \A w \in UpVal \ {u} : value'[w] = value[w]
    BY <1>1, <2>2 DEF Types
  <2>8. x = Nil \/ (x \in Obj /\ Live(x) /\ LiveAfter(x))
    BY <2>2, <2>5, Kinds DEF Good, Slot, LivesOn
  <2>9. ASSUME NEW d \in Closures, NEW w \in ToSet(upvals'[d]), gcstate = "propagate"
        PROVE  w \in UpVal /\ StaysFit(d, w)
    <3>1. w \in UpVal /\ w \in ToSet(upvals[d])
      BY <1>1, <2>3, <2>9, UpvalsOf
    <3>2. CASE w = u
      BY <2>2, <2>5, <2>7, <2>8, <2>9, <3>1, <3>2 DEF StaysFit, upisopen, keepinvariant
    <3>3. CASE w # u
      BY <2>2, <2>7, <3>1, <3>3 DEF StaysFit
    <3>4. QED
      BY <3>1, <3>2, <3>3
  <2>10. Blacks'
    BY <1>1, <2>2, <2>3, <2>5, <2>9, BlacksKept
  <2>11. StackOK(stack') /\ Longer(stack, stack')
    BY <1>1, <2>2, SameStacks
  <2>12. Grown(stack, stack', {x}) /\ Comes({x})
    BY <1>1, <2>2, <2>8, StackIs DEF Grown, Comes
  <2>13. ASSUME NEW d \in Closures, LiveAfter(d), NEW w \in ToSet(upvals'[d]) PROVE GoodAfter(w)
    <3>1. Live(d) /\ w \in ToSet(upvals[d]) /\ w \in UpVal
      BY <1>1, <2>3, <2>5, <2>13, UpvalsOf, Kinds
    <3>2. CASE w = u
      <4>1. ValueOf(w)' = x
        BY <2>2, <2>7, <3>2 DEF ValueOf, upisopen
      <4>2. QED
        BY <2>8, <4>1 DEF GoodAfter
    <3>3. CASE w # u
      <4>1. at'[w] = at[w] /\ value'[w] = value[w]
        BY <2>2, <2>7, <3>1, <3>3
      <4>2. upisopen(w) => LevelOf(w) <= Len(stack'[ThreadOf(w)])
        BY <1>1, <2>11, <3>1, SlotsKept
      <4>3. QED
        BY <1>1, <2>5, <2>12, <3>1, <4>1, <4>2, UpvalueStays DEF GoodAfter
    <3>4. QED
      BY <3>2, <3>3
  <2>14. \A th \in Threads : LiveAfter(th) => Live(th)
    BY <2>5, Kinds
  <2>15. LiveValues'
    BY <1>1, <2>5, <2>11, <2>12, <2>13, <2>14, LiveFrom
  <2>16. LiveCache'
    BY <1>1, <2>3, <2>5, CacheLive
  <2>17. Twups'
    BY <1>1, <2>2, <2>5, <2>14, TwupsKept
  <2>18. Live(L)' /\ \A o \in Roots : Live(o)'
    BY <1>1, <2>2, <2>5, RootsLive DEF Live, LiveAfter
  <2>19. QED
    BY <2>4, <2>6, <2>10, <2>15, <2>16, <2>17, <2>18 DEF IInv, Colors, Alive
<1>4. QED
  BY <1>2, <1>3

LEMMA NewthreadIInv ==
  ASSUME IInv, NEW th \in NewObj \cap Coroutines, newthread(th)
  PROVE  IInv'
<1>1. SInv /\ Types /\ Counts /\ Lists /\ Gone /\ Hues /\ Blacks /\ Alive /\ LiveValues /\ Live(L) /\ Twups
  BY IInvIs
<1>2. /\ th \in Threads /\ color[th] = "free" /\ th # L /\ th \in Obj
      /\ StackOK(stack') /\ stack'[th] = <<>>
      /\ \A t \in Threads \ {th} : Len(stack[t]) <= Len(stack'[t])
      /\ Grown(stack, stack', {th})
  BY <1>1, NewthreadIs
<1>3. Born(th) /\ UNCHANGED <<L, code, uvs, gcstate, gray, unswept>>
  BY <1>2 DEF newthread, Born
<1>4. UNCHANGED <<proto, upvals, cache>> /\ UNCHANGED <<at, value, refcount, touched, openupval, twups>>
      /\ L' = L /\ gcstate' = gcstate /\ gray' = gray /\ unswept' = unswept
  BY <1>3 DEF code, uvs
<1>5. /\ color'[th] = "white" /\ StayMarked /\ LivesOn
      /\ \A o \in Obj : LiveAfter(o) => o = th \/ Live(o)
      /\ \A o \in Obj : color'[o] = "black" => color[o] = "black"
  BY <1>1, <1>3, BornIs
<1>6. SInv'
  BY <1>1, NewthreadSInv
<1>7. Hues'
  BY <1>1, <1>3, <1>4, BornHues
<1>8. \A d \in Closures : \A w \in ToSet(upvals'[d]) : w \in UpVal /\ StaysFit(d, w)
  BY <1>1, <1>4, UpvalsOf DEF StaysFit
<1>9. Blacks'
  BY <1>1, <1>4, <1>5, <1>8, BlacksKept
<1>10. Comes({th})
  BY <1>5 DEF Comes, LiveAfter
<1>11. ASSUME NEW d \in Closures, LiveAfter(d), NEW w \in ToSet(upvals'[d]) PROVE GoodAfter(w)
  <2>1. d # th /\ Live(d) /\ w \in ToSet(upvals[d]) /\ w \in UpVal
    BY <1>1, <1>2, <1>4, <1>5, <1>11, UpvalsOf, Kinds
  <2>2. ASSUME upisopen(w) PROVE LevelOf(w) <= Len(stack'[ThreadOf(w)])
    <3>1. PICK t \in Threads, l \in Nat : t = ThreadOf(w) /\ l = LevelOf(w) /\ l \in 1 .. Len(stack[t])
                                          /\ \E i \in 1 .. Len(openupval[t]) : openupval[t][i] = w
      BY <1>1, <2>1, <2>2, OpenUpvalue, StackIs
    <3>2. t # th
      <4>1. openupval[th] = <<>>
        BY <1>1, <1>2 DEF Gone
      <4>2. QED
        BY <3>1, <4>1
    <3>3. Len(stack[t]) <= Len(stack'[t]) /\ Len(stack[t]) \in Nat
      BY <1>1, <1>2, <3>2, StackIs
    <3>4. Len(stack'[t]) \in Nat
      BY <1>2 DEF StackOK
    <3>5. QED
      BY <3>1, <3>3, <3>4
  <2>3. QED
    BY <1>1, <1>2, <1>4, <1>5, <1>10, <2>1, <2>2, UpvalueStays DEF GoodAfter
<1>12. \A t \in Threads : LiveAfter(t) => Live(t) \/ stack'[t] = <<>>
  BY <1>2, <1>5, Kinds
<1>13. LiveValues'
  BY <1>1, <1>2, <1>5, <1>10, <1>11, <1>12, LiveFrom
<1>14. LiveCache'
  BY <1>1, <1>4, <1>5, CacheLive
<1>15. Twups'
  <2>1. openupval[th] = <<>> /\ th \notin twups
    BY <1>1, <1>2 DEF Gone, Twups, Live
  <2>2. \A t \in Threads : t # th => (LiveAfter(t) <=> Live(t))
    BY <1>5, Kinds DEF LivesOn
  <2>3. QED
    BY <1>1, <1>4, <2>1, <2>2 DEF Twups, LiveAfter, Live
<1>16. Live(L)' /\ \A o \in Roots : Live(o)'
  BY <1>1, <1>4, <1>5, RootsLive DEF Live, LiveAfter
<1>17. QED
  BY <1>6, <1>7, <1>9, <1>13, <1>14, <1>15, <1>16 DEF IInv, Colors, Alive

LEMMA ClosureIInv ==
  ASSUME IInv, NEW p, NEW enc, NEW base, NEW c, NEW us, NEW open,
         ClosureSays(p, enc, base, c, us, open)
  PROVE  IInv'
<1>1. SInv /\ Types /\ Counts /\ Lists /\ Gone /\ Hues /\ Blacks /\ Alive /\ LiveValues /\ Live(L) /\ Twups
  BY IInvIs
<1>2. /\ p \in Protos /\ c \in Closures /\ color[c] = "free" /\ us \in Seq(UpVal)
      /\ enc \in Enclosing /\ Capturable(p, enc, base) /\ Len(us) = Len(Desc[p])
      /\ \A i \in 1 .. Len(us) : at'[us[i]] # Freed /\ Names(at', us[i], Desc[p][i], enc, base)
      /\ at' \in Wheres /\ Kept(at') /\ Room /\ push(c)
      /\ color' = [color EXCEPT ![c] = "white"]
      /\ proto' = [proto EXCEPT ![c] = p] /\ upvals' = [upvals EXCEPT ![c] = us]
      /\ cache' = IF color[p] = "black" THEN cache ELSE [cache EXCEPT ![p] = c]
      /\ openupval' = [openupval EXCEPT ![L] = open]
      /\ touched' = [u \in UpVal |-> touched[u] \/ at'[u] # at[u]]
      /\ twups' = IF open # openupval[L] THEN twups \cup {L} ELSE twups
      /\ value' = value /\ gcstate' = gcstate /\ gray' = gray /\ unswept' = unswept /\ L' = L
  BY DEF ClosureSays
<1>3. c \in Obj /\ c \in Slot /\ c \notin Threads /\ Born(c)
  BY <1>2, Kinds DEF Born, Slot
<1>4. /\ color'[c] = "white" /\ StayMarked /\ LivesOn
      /\ \A o \in Obj : LiveAfter(o) => o = c \/ Live(o)
      /\ \A o \in Obj : color'[o] = "black" => color[o] = "black"
  BY <1>1, <1>3, BornIs
<1>5. SInv'
  BY <1>1, ClosureSInv
<1>6. Hues'
  BY <1>1, <1>2, <1>3, BornHues
<1>7. upvals'[c] = us /\ \A d \in Closures \ {c} : upvals'[d] = upvals[d]
  BY <1>1, <1>2, UpvalsNew
<1>8. StackOK(stack') /\ Longer(stack, stack') /\ Grown(stack, stack', {c}) /\ stack'[L] = Append(stack[L], c)
  BY <1>1, <1>2, <1>3, PushIs
<1>9. Comes({c})
  BY <1>4 DEF Comes, LiveAfter
<1>10. ASSUME NEW d \in Closures, Live(d), NEW w \in ToSet(upvals[d])
       PROVE  w \in UpVal /\ at'[w] = at[w] /\ value'[w] = value[w] /\ (touched[w] => touched'[w])
  <2>1. w \in UpVal /\ at[w] # Freed
    BY <1>1, <1>10, UsedValue
  <2>2. QED
    BY <1>2, <2>1 DEF Kept
<1>11. Blacks'
  <2>1. ASSUME NEW d \in Closures, color[d] = "black", NEW w \in ToSet(upvals'[d])
        PROVE  w \in UpVal /\ StaysFit(d, w)
    <3>1. d # c /\ Live(d)
      BY <1>2, <2>1 DEF Live
    <3>2. w \in ToSet(upvals[d])
      BY <1>7, <2>1, <3>1
    <3>3. QED
      BY <1>10, <3>1, <3>2 DEF StaysFit
  <2>2. \A f \in Protos : color[f] = "black" => cache'[f] = cache[f]
    BY <1>1, <1>2 DEF Types
  <2>3. QED
    BY <1>1, <1>2, <1>4, <2>1, <2>2, BlacksKept
<1>12. ASSUME NEW d \in Closures, Live(d), NEW w \in ToSet(upvals[d]) PROVE GoodAfter(w)
  <2>1. w \in UpVal /\ at'[w] = at[w] /\ value'[w] = value[w]
    BY <1>10, <1>12
  <2>2. upisopen(w) => LevelOf(w) <= Len(stack'[ThreadOf(w)])
    BY <1>1, <1>8, <2>1, SlotsKept
  <2>3. QED
    BY <1>1, <1>4, <1>8, <1>9, <1>12, <2>1, <2>2, UpvalueStays DEF GoodAfter
<1>13. ASSUME NEW w \in ToSet(us) PROVE GoodAfter(w)
  <2>1. PICK i \in 1 .. Len(us) : w = us[i]
    BY <1>2 DEF ToSet
  <2>2. DOMAIN Desc[p] = 1 .. Len(Desc[p])
    BY <1>2, DescIs
  <2>3. w \in UpVal /\ i \in DOMAIN Desc[p] /\ Names(at', w, Desc[p][i], enc, base)
    <3>1. w \in UpVal
      BY <1>2, <2>1, ElementOfSeq
    <3>2. QED
      BY <1>2, <2>1, <2>2, <3>1
  <2>4. CASE Desc[p][i].instack
    <3>1. PICK n : n = base + Desc[p][i].idx
      OBVIOUS
    <3>2. at'[w] = <<L, n>> /\ n <= top
      BY <1>2, <2>3, <2>4, <3>1 DEF Names, Capturable
    <3>3. at'[w] \in {Freed, Own} \cup Slots /\ Len(at'[w]) = 2
      BY <1>2, <2>3, <3>2 DEF Wheres
    <3>4. at'[w] \in Slots
      BY <3>3, Places
    <3>5. n \in 1 .. StackSize
      BY <3>2, <3>4 DEF Slots
    <3>6. upisopen(w)' /\ ThreadOf(w)' = L /\ LevelOf(w)' = n
      BY <3>2, <3>3, <1>2 DEF upisopen, ThreadOf, LevelOf
    <3>7. ValueOf(w)' = stack'[L][n]
      BY <3>6 DEF ValueOf
    <3>8. L \in Threads /\ n \in DOMAIN stack'[L]
      <4>1. L \in Threads /\ Len(stack[L]) \in Nat /\ top = Len(stack[L]) /\ StackSize \in Nat
        BY <1>1, StackIs
      <4>2. PICK s \in Seq(Slot) : s = stack'[L] /\ DOMAIN s = 1 .. Len(s) /\ Len(s) \in Nat
        <5>1. stack'[L] \in Seq(Slot)
          BY <1>8, <4>1 DEF StackOK
        <5>2. QED
          BY <5>1
      <4>3. Len(stack[L]) <= Len(stack'[L])
        BY <1>8, <4>1 DEF Longer
      <4>4. QED
        BY <3>2, <3>5, <4>1, <4>2, <4>3
    <3>9. stack'[L][n] \in ToSet(stack'[L])
      BY <3>8 DEF ToSet
    <3>10. stack'[L][n] = Nil \/ LiveAfter(stack'[L][n])
      BY <1>1, <1>4, <1>8, <1>9, <3>8, <3>9, StackStays
    <3>11. QED
      BY <3>7, <3>10 DEF GoodAfter
  <2>5. CASE ~ Desc[p][i].instack
    <3>1. w = enc[Desc[p][i].idx] /\ Desc[p][i].idx \in DOMAIN enc
      BY <1>2, <2>3, <2>5 DEF Names, Capturable
    <3>2. PICK d \in Running : enc = upvals[d]
      <4>1. enc # <<>>
        BY <3>1
      <4>2. QED
        BY <1>2, <4>1 DEF Enclosing
    <3>3. d \in Closures /\ Live(d)
      BY <1>1, GoodStack
    <3>4. w \in ToSet(upvals[d])
      BY <3>1, <3>2 DEF ToSet
    <3>5. QED
      BY <1>12, <3>3, <3>4
  <2>6. QED
    BY <2>4, <2>5
<1>14. ASSUME NEW d \in Closures, LiveAfter(d), NEW w \in ToSet(upvals'[d]) PROVE GoodAfter(w)
  BY <1>4, <1>7, <1>12, <1>13, <1>14, Kinds
<1>15. \A t \in Threads : LiveAfter(t) => Live(t)
  BY <1>3, <1>4, Kinds
<1>16. LiveValues'
  BY <1>1, <1>4, <1>8, <1>9, <1>14, <1>15, LiveFrom
<1>17. LiveCache'
  <2>1. \A f \in Protos : cache'[f] = cache[f] \/ LiveAfter(cache'[f])
    <3>1. LiveAfter(c) /\ cache \in [Protos -> Closures \cup {Nil}]
      BY <1>1, <1>4 DEF LiveAfter, Types
    <3>2. QED
      BY <1>2, <3>1
  <2>2. QED
    BY <1>1, <1>4, <2>1, CacheLive
<1>18. Twups'
  <2>1. ASSUME NEW t \in Threads, LiveAfter(t), openupval'[t] # <<>> PROVE t \in twups'
    <3>1. CASE t = L
      BY <1>1, <1>2, <1>15, <2>1, <3>1 DEF Types, Twups
    <3>2. CASE t # L
      BY <1>1, <1>2, <1>15, <2>1, <3>2 DEF Types, Twups
    <3>3. QED
      BY <3>1, <3>2
  <2>2. ASSUME NEW t \in Threads, t \in twups' PROVE LiveAfter(t)
    BY <1>1, <1>2, <1>4, <2>2, Kinds DEF Twups, LivesOn
  <2>3. QED
    BY <2>1, <2>2 DEF Twups, Live, LiveAfter
<1>19. Live(L)' /\ \A o \in Roots : Live(o)'
  BY <1>1, <1>2, <1>4, RootsLive DEF Live, LiveAfter
<1>20. QED
  BY <1>5, <1>6, <1>11, <1>16, <1>17, <1>18, <1>19 DEF IInv, Colors, Alive

LEMMA LoadIInv ==
  ASSUME IInv, NEW p, NEW c, NEW us, LoadSays(p, c, us)
  PROVE  IInv'
<1>1. SInv /\ Types /\ Counts /\ Lists /\ Gone /\ Hues /\ Blacks /\ Alive /\ LiveValues /\ Live(L) /\ Twups
  BY IInvIs
<1>2. /\ p \in Protos /\ c \in Closures /\ color[c] = "free" /\ us \in Seq(UpVal)
      /\ \A i \in DOMAIN us : at[us[i]] = Freed
      /\ Room /\ push(c)
      /\ color' = [color EXCEPT ![c] = "white"]
      /\ upvals' = [upvals EXCEPT ![c] = us]
      /\ at' = [u \in UpVal |-> IF u \in ToSet(us) THEN Own ELSE at[u]]
      /\ value' = [u \in UpVal |-> IF u \in ToSet(us) THEN Nil ELSE value[u]]
      /\ UNCHANGED <<L, cache, touched, openupval, twups, gcstate, gray, unswept>>
  BY DEF LoadSays
<1>3. c \in Obj /\ c \in Slot /\ c \notin Threads /\ Born(c)
  BY <1>2, Kinds DEF Born, Slot
<1>4. /\ color'[c] = "white" /\ StayMarked /\ LivesOn
      /\ \A o \in Obj : LiveAfter(o) => o = c \/ Live(o)
      /\ \A o \in Obj : color'[o] = "black" => color[o] = "black"
  BY <1>1, <1>3, BornIs
<1>5. SInv'
  BY <1>1, LoadSInv
<1>6. Hues'
  BY <1>1, <1>2, <1>3, BornHues
<1>7. upvals'[c] = us /\ \A d \in Closures \ {c} : upvals'[d] = upvals[d]
  BY <1>1, <1>2, UpvalsNew
<1>8. StackOK(stack') /\ Longer(stack, stack') /\ Grown(stack, stack', {c})
  BY <1>1, <1>2, <1>3, PushIs
<1>9. Comes({c})
  BY <1>4 DEF Comes, LiveAfter
<1>10. \A u \in ToSet(us) : u \in UpVal /\ at[u] = Freed
  BY <1>2, ElementOfSeq DEF ToSet
<1>11. ASSUME NEW d \in Closures, Live(d), NEW w \in ToSet(upvals[d])
       PROVE  w \in UpVal /\ at'[w] = at[w] /\ value'[w] = value[w]
  <2>1. w \in UpVal /\ at[w] # Freed
    BY <1>1, <1>11, UsedValue
  <2>2. QED
    BY <1>2, <1>10, <2>1
<1>12. Blacks'
  <2>1. ASSUME NEW d \in Closures, color[d] = "black", NEW w \in ToSet(upvals'[d])
        PROVE  w \in UpVal /\ StaysFit(d, w)
    <3>1. d # c /\ Live(d)
      BY <1>2, <2>1 DEF Live
    <3>2. w \in ToSet(upvals[d])
      BY <1>7, <2>1, <3>1
    <3>3. QED
      BY <1>2, <1>11, <3>1, <3>2 DEF StaysFit
  <2>2. QED
    BY <1>1, <1>2, <1>4, <2>1, BlacksKept
<1>13. ASSUME NEW d \in Closures, LiveAfter(d), NEW w \in ToSet(upvals'[d]) PROVE GoodAfter(w)
  <2>1. CASE d = c
    <3>1. w \in UpVal /\ at'[w] = Own /\ value'[w] = Nil
      BY <1>2, <1>7, <1>10, <1>13, <2>1
    <3>2. ~ upisopen(w)'
      BY <3>1, Places DEF upisopen
    <3>3. QED
      BY <3>1, <3>2 DEF GoodAfter, ValueOf
  <2>2. CASE d # c
    <3>1. Live(d) /\ w \in ToSet(upvals[d])
      BY <1>4, <1>7, <1>13, <2>2, Kinds
    <3>2. w \in UpVal /\ at'[w] = at[w] /\ value'[w] = value[w]
      BY <1>11, <3>1
    <3>3. upisopen(w) => LevelOf(w) <= Len(stack'[ThreadOf(w)])
      BY <1>1, <1>8, <3>2, SlotsKept
    <3>4. QED
      BY <1>1, <1>4, <1>8, <1>9, <3>1, <3>2, <3>3, UpvalueStays DEF GoodAfter
  <2>3. QED
    BY <2>1, <2>2
<1>14. \A t \in Threads : LiveAfter(t) => Live(t)
  BY <1>3, <1>4, Kinds
<1>15. LiveValues'
  BY <1>1, <1>4, <1>8, <1>9, <1>13, <1>14, LiveFrom
<1>16. LiveCache'
  BY <1>1, <1>2, <1>4, CacheLive
<1>17. Twups'
  BY <1>1, <1>2, <1>4, <1>14, TwupsKept
<1>18. Live(L)' /\ \A o \in Roots : Live(o)'
  BY <1>1, <1>2, <1>4, RootsLive DEF Live, LiveAfter
<1>19. QED
  BY <1>5, <1>6, <1>12, <1>15, <1>16, <1>17, <1>18 DEF IInv, Colors, Alive

LEMMA LeaveIInv ==
  ASSUME IInv, NEW level \in 1 .. top, NEW r \in One, leave(level, r)
  PROVE  IInv'
<1>1. SInv /\ Types /\ Counts /\ Lists /\ Gone /\ Hues /\ Blacks /\ Alive /\ LiveValues /\ Live(L) /\ Twups
  BY IInvIs
<1>2. PICK S : S = {ValueOf(u) : u \in {x \in Closing(L, level) : refcount[x] > 0}}
  OBVIOUS
<1>3. /\ Closed(L, level) /\ level \in Nat /\ BarrierSays(S)
      /\ StackOK(stack') /\ Grown(stack, stack', AtHand \ {Nil})
      /\ \A t \in Threads \ {L} : stack'[t] = stack[t]
      /\ level <= Len(stack'[L]) + 1
      /\ UNCHANGED <<L, code, refcount, twups, gcstate, unswept>>
  BY <1>1, <1>2, LeaveIs
<1>4. UNCHANGED <<proto, upvals, cache>>
  BY <1>3 DEF code
<1>5. /\ StayMarked /\ LivesOn
      /\ \A o \in Obj : LiveAfter(o) => Live(o)
      /\ \A o \in Obj : color'[o] = "black" => color[o] = "black"
      /\ keepinvariant => \A y \in S \ {Nil} : y \in Obj /\ Live(y) => color'[y] \in {"gray", "black"}
  BY <1>1, <1>3, BarrierKeeps
<1>6. SInv'
  BY <1>1, LeaveSInv
<1>7. Hues'
  BY <1>1, <1>3, BarrierHues
<1>8. L \in Threads /\ L' = L
  BY <1>1, <1>3, StackIs
<1>9. /\ \A u \in UpVal : u \in Closing(L, level) <=> OpenAt(u, L, level)
      /\ Ordered(Lower(L, level), at, L, level - 1) /\ Lower(L, level) \in Seq(UpVal)
  BY <1>1, <1>3, <1>8, ClosingIs
<1>10. ASSUME NEW d \in Closures, Live(d), NEW w \in ToSet(upvals[d])
       PROVE  /\ w \in UpVal /\ (ValueOf(w) = Nil \/ (ValueOf(w) \in Obj /\ Live(ValueOf(w))))
              /\ \/ w \in Closing(L, level) /\ at'[w] = Own /\ value'[w] = ValueOf(w) /\ ValueOf(w) \in S
                 \/ w \notin Closing(L, level) /\ at'[w] = at[w] /\ value'[w] = value[w] /\ touched'[w] = touched[w]
  <2>1. /\ w \in UpVal /\ refcount[w] > 0 /\ ValueOf(w) \in Slot
        /\ (ValueOf(w) = Nil \/ Live(ValueOf(w)))
    BY <1>1, <1>10, UsedValue
  <2>2. CASE w \in Closing(L, level)
    <3>1. at'[w] = Own /\ value'[w] = ValueOf(w)
      BY <1>3, <2>1, <2>2 DEF Closed
    <3>2. ValueOf(w) \in S
      BY <1>2, <2>1, <2>2
    <3>3. QED
      BY <2>1, <2>2, <3>1, <3>2, Kinds DEF Slot
  <2>3. CASE w \notin Closing(L, level)
    BY <1>3, <2>1, <2>3, Kinds DEF Closed, Slot
  <2>4. QED
    BY <2>2, <2>3
<1>11. Comes(AtHand \ {Nil})
  BY <1>1, <1>5, GoodStack, Kinds DEF Comes, Good, Slot, LivesOn
<1>12. Blacks'
  <2>1. ASSUME gcstate = "propagate", NEW d \in Closures, color[d] = "black", NEW w \in ToSet(upvals'[d])
        PROVE  w \in UpVal /\ StaysFit(d, w)
    <3>1. Live(d) /\ w \in ToSet(upvals[d])
      BY <1>4, <2>1 DEF Live
    <3>2. /\ w \in UpVal /\ (ValueOf(w) = Nil \/ (ValueOf(w) \in Obj /\ Live(ValueOf(w))))
          /\ \/ w \in Closing(L, level) /\ at'[w] = Own /\ value'[w] = ValueOf(w) /\ ValueOf(w) \in S
             \/ w \notin Closing(L, level) /\ at'[w] = at[w] /\ value'[w] = value[w] /\ touched'[w] = touched[w]
      BY <1>10, <3>1
    <3>3. CASE at'[w] = Own /\ value'[w] = ValueOf(w) /\ ValueOf(w) \in S
      <4>1. ~ upisopen(w)'
        BY <3>3, Places DEF upisopen
      <4>2. value'[w] = Nil \/ color'[value'[w]] \in {"gray", "black"}
        BY <1>5, <2>1, <3>2, <3>3 DEF keepinvariant
      <4>3. QED
        BY <3>2, <4>1, <4>2 DEF StaysFit
    <3>4. CASE at'[w] = at[w] /\ value'[w] = value[w] /\ touched'[w] = touched[w]
      BY <3>1, <3>2, <3>4 DEF StaysFit
    <3>5. QED
      BY <3>2, <3>3, <3>4
  <2>2. QED
    BY <1>1, <1>3, <1>4, <1>5, <2>1, BlacksKept
<1>13. ASSUME NEW d \in Closures, LiveAfter(d), NEW w \in ToSet(upvals'[d]) PROVE GoodAfter(w)
  <2>1. Live(d) /\ w \in ToSet(upvals[d])
    BY <1>4, <1>5, <1>13, Kinds
  <2>2. /\ w \in UpVal /\ (ValueOf(w) = Nil \/ (ValueOf(w) \in Obj /\ Live(ValueOf(w))))
        /\ \/ w \in Closing(L, level) /\ at'[w] = Own /\ value'[w] = ValueOf(w)
           \/ w \notin Closing(L, level) /\ at'[w] = at[w] /\ value'[w] = value[w]
    BY <1>10, <2>1
  <2>3. CASE at'[w] = Own /\ value'[w] = ValueOf(w)
    <3>1. ~ upisopen(w)'
      BY <2>3, Places DEF upisopen
    <3>2. ValueOf(w)' = ValueOf(w)
      BY <2>3, <3>1 DEF ValueOf
    <3>3. QED
      BY <1>5, <2>2, <3>2 DEF GoodAfter, LivesOn
  <2>4. CASE w \notin Closing(L, level) /\ at'[w] = at[w] /\ value'[w] = value[w]
    <3>1. ASSUME upisopen(w) PROVE LevelOf(w) <= Len(stack'[ThreadOf(w)])
      <4>1. PICK t \in Threads, l \in Nat : t = ThreadOf(w) /\ l = LevelOf(w) /\ l \in 1 .. Len(stack[t])
                                            /\ at[w] = <<t, l>> /\ at[w] \in Slots
        BY <1>1, <2>2, <3>1, OpenUpvalue, StackIs
      <4>2. Len(stack'[L]) \in Nat
        BY <1>3, <1>8 DEF StackOK
      <4>3. CASE t = L
        <5>1. at[w][1] = L /\ at[w][2] = l
          BY <4>1, <4>3 DEF ThreadOf, LevelOf
        <5>2. ~ OpenAt(w, L, level)
          BY <1>9, <2>2, <2>4
        <5>3. ~ (l >= level)
          BY <4>1, <5>1, <5>2 DEF OpenAt
        <5>4. QED
          BY <1>3, <4>1, <4>2, <4>3, <5>3
      <4>4. CASE t # L
        <5>1. stack'[t] = stack[t] /\ Len(stack[t]) \in Nat
          BY <1>1, <1>3, <4>4, StackIs
        <5>2. QED
          BY <4>1, <5>1
      <4>5. QED
        BY <4>3, <4>4
    <3>2. QED
      BY <1>1, <1>3, <1>5, <1>11, <2>1, <2>4, <3>1, UpvalueStays DEF GoodAfter
  <2>5. QED
    BY <2>2, <2>3, <2>4
<1>14. \A t \in Threads : LiveAfter(t) => Live(t)
  BY <1>5, Kinds
<1>15. LiveValues'
  BY <1>1, <1>3, <1>5, <1>11, <1>13, <1>14, LiveFrom
<1>16. LiveCache'
  BY <1>1, <1>4, <1>5, CacheLive
<1>17. Twups'
  <2>1. ASSUME NEW t \in Threads, openupval'[t] # <<>> PROVE openupval[t] # <<>>
    <3>1. CASE t = L
      <4>1. openupval'[L] = Lower(L, level)
        BY <1>3 DEF Closed
      <4>2. Len(Lower(L, level)) \in Nat \ {0}
        BY <1>9, <2>1, <3>1, <4>1
      <4>3. at[Lower(L, level)[1]] \in Slots /\ at[Lower(L, level)[1]][1] = L
        BY <1>9, <4>2 DEF Ordered
      <4>4. Lower(L, level)[1] \in UpVal
        BY <1>9, <4>2, ElementOfSeq
      <4>5. Complete(openupval[L], at, L)
        BY <1>1, <1>8 DEF Lists
      <4>6. \E k \in 1 .. Len(openupval[L]) : openupval[L][k] = Lower(L, level)[1]
        BY <4>3, <4>4, <4>5 DEF Complete
      <4>7. QED
        BY <3>1, <4>6
    <3>2. CASE t # L
      BY <1>3, <2>1, <3>2 DEF Closed
    <3>3. QED
      BY <3>1, <3>2
  <2>2. QED
    BY <1>1, <1>3, <1>5, <1>14, <2>1, TwupsKept
<1>18. Live(L)' /\ \A o \in Roots : Live(o)'
  BY <1>1, <1>5, <1>8, RootsLive DEF Live, LiveAfter
<1>19. QED
  BY <1>6, <1>7, <1>12, <1>15, <1>16, <1>17, <1>18 DEF IInv, Colors, Alive

\* An upvalue that a closure refers to has references.
LEMMA UsedIn ==
  ASSUME NEW G \in [Closures -> Seq(UpVal)], NEW R, Exact(G, R), NEW c \in Closures, NEW u \in ToSet(G[c])
  PROVE  u \in UpVal /\ R[u] # 0
<1>1. PICK us \in Seq(UpVal) : us = G[c] /\ DOMAIN us = 1 .. Len(us) /\ Len(us) \in Nat
  OBVIOUS
<1>2. PICK i \in 1 .. Len(us) : u = us[i]
  BY <1>1 DEF ToSet
<1>3. u \in UpVal
  BY <1>2, ElementOfSeq
<1>4. <<c, i>> \in Refs(G, u)
  BY <1>1, <1>2 DEF Refs
<1>5. IsFiniteSet(Refs(G, u)) /\ R[u] = Cardinality(Refs(G, u))
  BY <1>3 DEF Exact
<1>6. QED
  BY <1>3, <1>4, <1>5, OneFewer

LEMMA JoinIInv ==
  ASSUME IInv, NEW c \in Closures, NEW i \in DOMAIN upvals[c], NEW u \in UpVal, NEW v \in UpVal,
         JoinSays(c, i, u, v)
  PROVE  IInv'
<1>1. SInv /\ Types /\ Counts /\ Lists /\ Gone /\ Hues /\ Blacks /\ Alive /\ LiveValues /\ Live(L) /\ Twups
  BY IInvIs
<1>2. PICK S : BarrierSays(S) /\ (~ upisopen(v) => ValueOf(v) \in S)
  BY DEF JoinSays
<1>3. /\ u = upvals[c][i] /\ u # v /\ Live(c) /\ Good(ValueOf(v)) /\ at[v] # Freed
      /\ upvals' = [upvals EXCEPT ![c][i] = v]
      /\ \A w \in UpVal \ {u} : at'[w] = at[w] /\ value'[w] = value[w]
      /\ at'[u] = Freed \/ (at'[u] = at[u] /\ value'[u] = value[u])
      /\ \A w \in UpVal : touched[w] => touched'[w]
      /\ upisopen(v) => touched'[v]
      /\ UNCHANGED <<stack, L, proto, cache, openupval, twups, gcstate, unswept>>
  BY DEF JoinSays
<1>4. /\ StayMarked /\ LivesOn
      /\ \A o \in Obj : LiveAfter(o) => Live(o)
      /\ \A o \in Obj : color'[o] = "black" => color[o] = "black"
      /\ keepinvariant => \A y \in S \ {Nil} : y \in Obj /\ Live(y) => color'[y] \in {"gray", "black"}
  BY <1>1, <1>2, BarrierKeeps
<1>5. SInv'
  BY JoinSInv
<1>6. Hues'
  BY <1>1, <1>2, <1>3, BarrierHues
<1>7. /\ upvals' \in [Closures -> Seq(UpVal)]
      /\ \A d \in Closures \ {c} : upvals'[d] = upvals[d]
      /\ ToSet(upvals'[c]) \subseteq ToSet(upvals[c]) \cup {v}
  BY <1>1, <1>3, JoinUpvals
<1>8. ASSUME NEW d \in Closures, NEW w \in ToSet(upvals'[d])
      PROVE  w \in UpVal /\ at'[w] = at[w] /\ value'[w] = value[w] /\ (w \in ToSet(upvals[d]) \/ w = v)
  <2>1. PICK H, R : H = upvals' /\ R = refcount'
    OBVIOUS
  <2>2. Exact(H, R) /\ H \in [Closures -> Seq(UpVal)] /\ w \in ToSet(H[d])
    BY <1>5, <1>7, <1>8, <2>1 DEF SInv, Counts, Exact, Refs
  <2>3. w \in UpVal /\ R[w] # 0
    BY <2>2, UsedIn
  <2>4. at'[w] # Freed
    BY <1>5, <2>1, <2>3 DEF SInv, Counts
  <2>5. w \in ToSet(upvals[d]) \/ w = v
    BY <1>7, <1>8
  <2>6. QED
    BY <1>3, <2>3, <2>4, <2>5
<1>9. ValueOf(v) = Nil \/ (ValueOf(v) \in Obj /\ Live(ValueOf(v)) /\ LiveAfter(ValueOf(v)))
  BY <1>3, <1>4, Kinds DEF Good, Slot, LivesOn
<1>10. v \in UpVal /\ at'[v] = at[v] /\ value'[v] = value[v]
  BY <1>3
<1>11. Blacks'
  <2>1. ASSUME gcstate = "propagate", NEW d \in Closures, color[d] = "black", NEW w \in ToSet(upvals'[d])
        PROVE  w \in UpVal /\ StaysFit(d, w)
    <3>1. w \in UpVal /\ at'[w] = at[w] /\ value'[w] = value[w] /\ (w \in ToSet(upvals[d]) \/ w = v)
      BY <1>8, <2>1
    <3>2. CASE w \in ToSet(upvals[d])
      BY <1>3, <3>1, <3>2 DEF StaysFit
    <3>3. CASE w = v /\ upisopen(v)
      BY <1>3, <1>10, <3>1, <3>3 DEF StaysFit, upisopen
    <3>4. CASE w = v /\ ~ upisopen(v)
      <4>1. ~ upisopen(v)' /\ value'[v] = ValueOf(v) /\ ValueOf(v) \in S
        BY <1>2, <1>10, <3>4 DEF upisopen, ValueOf
      <4>2. value'[v] = Nil \/ color'[value'[v]] \in {"gray", "black"}
        BY <1>4, <1>9, <2>1, <4>1 DEF keepinvariant
      <4>3. QED
        BY <3>1, <3>4, <4>1, <4>2 DEF StaysFit
    <3>5. QED
      BY <3>1, <3>2, <3>3, <3>4
  <2>2. QED
    BY <1>1, <1>3, <1>4, <2>1, BlacksKept
<1>12. StackOK(stack') /\ Longer(stack, stack') /\ Grown(stack, stack', {}) /\ Comes({})
  BY <1>1, <1>3, SameStacks, StackIs DEF Grown, Comes
<1>13. ASSUME NEW d \in Closures, LiveAfter(d), NEW w \in ToSet(upvals'[d]) PROVE GoodAfter(w)
  <2>1. w \in UpVal /\ at'[w] = at[w] /\ value'[w] = value[w] /\ (w \in ToSet(upvals[d]) \/ w = v)
    BY <1>8, <1>13
  <2>2. Live(d)
    BY <1>4, <1>13, Kinds
  <2>3. upisopen(w) => LevelOf(w) <= Len(stack'[ThreadOf(w)])
    BY <1>1, <1>12, <2>1, SlotsKept
  <2>4. CASE w \in ToSet(upvals[d])
    BY <1>1, <1>4, <1>12, <2>1, <2>2, <2>3, <2>4, UpvalueStays DEF GoodAfter
  <2>5. CASE w = v
    <3>1. ValueOf(w)' = ValueOf(w)
      BY <1>1, <1>12, <2>1, <2>3, ValueKept
    <3>2. QED
      BY <1>9, <2>5, <3>1 DEF GoodAfter
  <2>6. QED
    BY <2>1, <2>4, <2>5
<1>14. \A t \in Threads : LiveAfter(t) => Live(t)
  BY <1>4, Kinds
<1>15. LiveValues'
  BY <1>1, <1>4, <1>12, <1>13, <1>14, LiveFrom
<1>16. LiveCache'
  BY <1>1, <1>3, <1>4, CacheLive
<1>17. Twups'
  BY <1>1, <1>3, <1>4, <1>14, TwupsKept
<1>18. Live(L)' /\ \A o \in Roots : Live(o)'
  BY <1>1, <1>3, <1>4, RootsLive DEF Live, LiveAfter
<1>19. QED
  BY <1>5, <1>6, <1>11, <1>15, <1>16, <1>17, <1>18 DEF IInv, Colors, Alive

-----------------------------------------------------------------------------
(* The steps of the collector that do not decide what is garbage             *)

LEMMA SameLive ==
  ASSUME IInv, LivesOn, \A o \in Obj : LiveAfter(o) => Live(o),
         UNCHANGED <<stack, L, upvals, at, value>>
  PROVE  LiveValues' /\ Live(L)' /\ \A o \in Roots : Live(o)'
<1>1. SInv /\ Types /\ Counts /\ Lists /\ Alive /\ LiveValues
  BY IInvIs
<1>2. StackOK(stack') /\ Longer(stack, stack') /\ Grown(stack, stack', {}) /\ Comes({})
  BY <1>1, SameStacks, StackIs DEF Grown, Comes
<1>3. ASSUME NEW d \in Closures, LiveAfter(d), NEW w \in ToSet(upvals'[d]) PROVE GoodAfter(w)
  <2>1. Live(d) /\ w \in ToSet(upvals[d]) /\ w \in UpVal
    BY <1>1, <1>3, UpvalsOf, Kinds
  <2>2. at'[w] = at[w] /\ value'[w] = value[w]
    OBVIOUS
  <2>3. upisopen(w) => LevelOf(w) <= Len(stack'[ThreadOf(w)])
    BY <1>1, <1>2, <2>1, SlotsKept
  <2>4. QED
    BY <1>1, <1>2, <2>1, <2>2, <2>3, UpvalueStays DEF GoodAfter
<1>4. \A t \in Threads : LiveAfter(t) => Live(t)
  BY Kinds
<1>5. LiveValues'
  BY <1>1, <1>2, <1>3, <1>4, LiveFrom
<1>6. QED
  BY <1>1, <1>5, RootsLive DEF Live, LiveAfter

LEMMA RestartIInv ==
  ASSUME IInv, restartcollection
  PROVE  IInv'
<1>1. SInv /\ Types /\ Hues /\ Alive /\ \A o \in Roots : Live(o)
  BY IInvIs
<1>2. /\ gcstate = "pause" /\ gcstate' = "propagate" /\ gray' = Roots
      /\ \A o \in Obj : color'[o] = IF o \in Roots THEN "gray" ELSE color[o]
      /\ UNCHANGED <<stack, L, proto, upvals, cache, at, value, refcount, touched, openupval, twups, unswept>>
  BY DEF restartcollection, code, uvs
<1>3. /\ \A o \in Obj : color[o] \in {"free", "white"}
      /\ unswept = {}
  BY <1>1, <1>2 DEF Hues
<1>4. Roots \subseteq Obj /\ Roots = Protos \cup {MainThread} /\ Threads \subseteq Obj /\ Protos \subseteq Obj
      /\ Obj = Closures \cup Threads \cup Protos
  BY Kinds
<1>5. SInv'
  BY <1>1, RestartSInv
<1>6. Hues'
  <2>1. \A o \in Obj : color'[o] # "dead" /\ color'[o] # "black"
    BY <1>2, <1>3
  <2>2. \A o \in gray' : color'[o] = "gray"
    BY <1>2, <1>4
  <2>3. \A o \in Obj \ Threads : color'[o] = "gray" => o \in gray'
    BY <1>2, <1>3
  <2>4. \A o \in Roots : color'[o] \in {"gray", "black"}
    BY <1>2, <1>4
  <2>5. QED
    BY <1>2, <1>3, <1>4, <2>1, <2>2, <2>3, <2>4 DEF Hues
<1>7. Blacks'
  <2>1. \A o \in Obj : color'[o] # "black"
    BY <1>2, <1>3
  <2>2. QED
    BY <1>4, <2>1 DEF Blacks
<1>8. LivesOn /\ \A o \in Obj : LiveAfter(o) => Live(o)
  BY <1>1, <1>2 DEF LivesOn, Live, LiveAfter
<1>9. LiveValues' /\ Live(L)' /\ \A o \in Roots : Live(o)'
  BY <1>2, <1>8, SameLive
<1>10. LiveCache'
  BY <1>1, <1>2, <1>8, CacheLive
<1>11. Twups'
  BY <1>1, <1>2, <1>4, <1>8, TwupsKept
<1>12. QED
  BY <1>5, <1>6, <1>7, <1>9, <1>10, <1>11 DEF IInv, Colors, Alive

LEMMA EndcycleIInv ==
  ASSUME IInv, endcycle
  PROVE  IInv'
<1>1. SInv /\ Types /\ Hues /\ Alive /\ \A o \in Roots : Live(o)
  BY IInvIs
<1>2. /\ gcstate = "sweep" /\ gcstate' = "pause" /\ gray' = gray /\ unswept' = unswept /\ unswept = {}
      /\ \A o \in Obj : color'[o] = IF o = MainThread THEN "white" ELSE color[o]
      /\ UNCHANGED <<stack, L, proto, upvals, cache, at, value, refcount, touched, openupval, twups>>
  BY <1>1 DEF endcycle, code, uvs, Types
<1>3. gray = {} /\ \A o \in Obj : color[o] \in {"free", "white"} \/ o = MainThread
  BY <1>1, <1>2 DEF Hues
<1>4. MainThread \in Roots /\ Threads \subseteq Obj
  BY Kinds
<1>5. SInv'
  BY <1>1, EndcycleSInv
<1>6. Hues' /\ Blacks'
  BY <1>2, <1>3 DEF Hues, Blacks
<1>7. LivesOn /\ \A o \in Obj : LiveAfter(o) => Live(o)
  BY <1>1, <1>2, <1>4 DEF LivesOn, Live, LiveAfter
<1>8. LiveValues' /\ Live(L)' /\ \A o \in Roots : Live(o)'
  BY <1>2, <1>7, SameLive
<1>9. LiveCache'
  BY <1>1, <1>2, <1>7, CacheLive
<1>10. Twups'
  BY <1>1, <1>2, <1>4, <1>7, TwupsKept
<1>11. QED
  BY <1>5, <1>6, <1>8, <1>9, <1>10 DEF IInv, Colors, Alive

LEMMA PropagateIInv ==
  ASSUME IInv, NEW o \in Obj, propagatemark(o)
  PROVE  IInv'
<1>1. SInv /\ Types /\ Counts /\ Lists /\ Hues /\ Blacks /\ Alive /\ LiveValues /\ LiveCache
  BY IInvIs
<1>2. /\ gcstate = "propagate" /\ o \in gray
      /\ gray' = (gray \ {o}) \cup Whites(o)
      /\ \A x \in Obj : color'[x] = IF x = o /\ o \notin Threads THEN "black"
                                    ELSE IF x \in Whites(o) THEN "gray" ELSE color[x]
      /\ \A u \in UpVal : (touched[u] => touched'[u]) /\ (o \in Closures /\ u \in OpenOf(o) => touched'[u])
      /\ \A p \in Protos : \/ cache'[p] = cache[p] /\ (p = o => cache[p] = Nil \/ ~ iswhite(cache[p]))
                           \/ p = o /\ cache'[p] = Nil
      /\ UNCHANGED <<stack, L, proto, upvals, at, value, refcount, openupval, twups, gcstate, unswept>>
  BY <1>1, PropagateIs
<1>3. /\ \A x \in Obj : color[x] # "dead"
      /\ \A x \in gray : color[x] = "gray"
      /\ \A x \in Obj \ Threads : color[x] = "gray" => x \in gray
      /\ \A th \in Threads : color[th] # "black"
      /\ \A x \in Roots : color[x] \in {"gray", "black"}
      /\ unswept = {} /\ gray \subseteq Obj
  BY <1>1, <1>2 DEF Hues, Types
<1>4. Whites(o) \subseteq Obj /\ \A x \in Whites(o) : color[x] = "white"
  BY <1>1, <1>3, WhitesAre DEF iswhite
<1>5. color[o] = "gray"
  BY <1>2, <1>3
<1>6. SInv'
  BY <1>1, PropagateSInv
<1>7. Hues'
  <2>1. \A x \in Obj : color'[x] # "dead"
    BY <1>2, <1>3
  <2>2. \A x \in gray' : color'[x] = "gray"
    BY <1>2, <1>3, <1>4, <1>5
  <2>3. \A x \in Obj \ Threads : color'[x] = "gray" => x \in gray'
    BY <1>2, <1>3
  <2>4. \A th \in Threads : color'[th] # "black"
    BY <1>2, <1>3, Kinds
  <2>5. \A x \in Roots : color'[x] \in {"gray", "black"}
    BY <1>2, <1>3, Kinds
  <2>6. QED
    BY <1>2, <1>3, <2>1, <2>2, <2>3, <2>4, <2>5 DEF Hues
<1>8. StayMarked
  BY <1>2, <1>4 DEF StayMarked
<1>9. LivesOn /\ \A x \in Obj : LiveAfter(x) => Live(x)
  BY <1>2, <1>4, <1>5 DEF LivesOn, Live, LiveAfter
<1>10. \A x \in Obj : x # o /\ color'[x] = "black" => color[x] = "black"
  BY <1>2
<1>11. Blacks'
  <2>1. ASSUME NEW c \in Closures, color'[c] = "black" PROVE Traversed(c)'
    <3>1. CASE c # o
      <4>1. color[c] = "black" /\ Traversed(c)
        BY <1>1, <1>2, <1>10, <2>1, <3>1, Kinds DEF Blacks
      <4>2. \A u \in ToSet(upvals'[c]) : u \in UpVal /\ StaysFit(c, u)
        BY <1>1, <1>2, UpvalsOf DEF StaysFit
      <4>3. QED
        BY <1>1, <1>8, <4>1, <4>2, TraversedStays
    <3>2. CASE c = o
      <4>1. Live(o)
        BY <1>5 DEF Live
      <4>2. ASSUME NEW u \in ToSet(upvals[o])
            PROVE  IF upisopen(u) THEN touched'[u] ELSE value[u] = Nil \/ color'[value[u]] \in {"gray", "black"}
        <5>1. /\ u \in UpVal /\ (ValueOf(u) = Nil \/ Live(ValueOf(u))) /\ ValueOf(u) \in Slot
          BY <1>1, <3>2, <4>1, <4>2, UsedValue
        <5>2. CASE upisopen(u)
          BY <1>2, <3>2, <4>2, <5>1, <5>2 DEF OpenOf
        <5>3. CASE ~ upisopen(u) /\ value[u] # Nil
          <6>1. ValueOf(u) = value[u] /\ value[u] \in Obj /\ Live(value[u])
            BY <5>1, <5>3, Kinds DEF ValueOf, Slot
          <6>2. CASE iswhite(value[u])
            <7>1. value[u] \in Whites(o)
              BY <1>1, <3>2, <4>2, <5>3, <6>2, WhitesAre
            <7>2. QED
              BY <1>2, <5>3, <6>1, <7>1
          <6>3. CASE ~ iswhite(value[u])
            <7>1. color[value[u]] \in Shades
              BY <1>1, <6>1, ColorIs
            <7>2. color[value[u]] \in {"gray", "black"}
              BY <6>1, <6>3, <7>1 DEF iswhite, Live, Shades
            <7>3. QED
              BY <1>8, <5>3, <6>1, <7>2 DEF StayMarked
          <6>4. QED
            BY <6>2, <6>3
        <5>4. QED
          BY <5>2, <5>3
      <4>3. QED
        BY <1>2, <3>2, <4>2 DEF Traversed, Marked, upisopen
    <3>3. QED
      BY <3>1, <3>2
  <2>2. ASSUME NEW f \in Protos, color'[f] = "black" PROVE Marked(cache[f])'
    <3>1. CASE cache'[f] = Nil
      BY <3>1 DEF Marked
    <3>2. CASE f # o /\ cache'[f] = cache[f]
      <4>1. Marked(cache[f])
        BY <1>1, <1>2, <1>10, <2>2, <3>2, Kinds DEF Blacks
      <4>2. QED
        BY <1>1, <1>8, <3>2, <4>1, CacheMarked
    <3>3. CASE f = o /\ cache'[f] = cache[f] /\ cache[f] # Nil
      <4>1. ~ iswhite(cache[f]) /\ Live(cache[f]) /\ cache[f] \in Obj
        BY <1>1, <1>2, <3>3, Kinds DEF LiveCache, Types
      <4>2. color[cache[f]] \in Shades
        BY <1>1, <4>1, ColorIs
      <4>3. Marked(cache[f])
        BY <4>1, <4>2 DEF iswhite, Live, Shades, Marked
      <4>4. QED
        BY <1>1, <1>8, <3>3, <4>3, CacheMarked
    <3>4. QED
      BY <1>2, <3>1, <3>2, <3>3
  <2>3. QED
    BY <2>1, <2>2 DEF Blacks
<1>12. LiveValues' /\ Live(L)' /\ \A x \in Roots : Live(x)'
  BY <1>2, <1>9, SameLive
<1>13. LiveCache'
  <2>1. \A p \in Protos : cache'[p] = cache[p] \/ cache'[p] = Nil
    BY <1>2
  <2>2. QED
    BY <1>1, <1>9, <2>1, CacheLive
<1>14. Twups'
  <2>1. \A t \in Threads : LiveAfter(t) => Live(t)
    BY <1>9, Kinds
  <2>2. QED
    BY <1>1, <1>2, <1>9, <2>1, TwupsKept
<1>15. QED
  BY <1>6, <1>7, <1>11, <1>12, <1>13, <1>14 DEF IInv, Colors, Alive

-----------------------------------------------------------------------------
(* The sweep                                                                 *)

\* A dead object is freed.
Swept(o) == o \in Obj /\ color[o] = "dead" /\ color' = [color EXCEPT ![o] = "free"]

LEMMA SweptIs ==
  ASSUME Types, NEW o, Swept(o)
  PROVE  /\ \A x \in Obj : color'[x] = IF x = o THEN "free" ELSE color[x]
         /\ LivesOn /\ \A x \in Obj : LiveAfter(x) => Live(x) /\ x # o
<1>1. \A x \in Obj : color'[x] = IF x = o THEN "free" ELSE color[x]
  BY DEF Types, Swept
<1>2. LivesOn /\ \A x \in Obj : LiveAfter(x) => Live(x) /\ x # o
  BY <1>1 DEF Swept, LivesOn, Live, LiveAfter
<1>3. QED
  BY <1>1, <1>2

LEMMA SweptHues ==
  ASSUME Types, Hues, NEW o \in Obj, gcstate = "sweep", unswept' = unswept \ {o},
         Swept(o) \/ (color[o] # "dead" /\ o \in unswept /\ color' = [color EXCEPT ![o] = "white"]),
         gcstate' = gcstate, gray' = gray
  PROVE  Hues' /\ Blacks'
<1>1. /\ MainThread \notin unswept /\ gray = {}
      /\ \A x \in Obj \ unswept : color[x] \in {"free", "white"} \/ x = MainThread
      /\ \A x \in unswept : Exists(x)
  BY DEF Hues
<1>2. \A x \in Obj : x # o => color'[x] = color[x]
  BY DEF Types, Swept
<1>3. color'[o] \in {"free", "white"}
  BY DEF Types, Swept
<1>4. unswept \subseteq Obj
  BY DEF Types
<1>5. \A x \in Obj \ unswept' : color'[x] \in {"free", "white"} \/ x = MainThread
  BY <1>1, <1>2, <1>3
<1>6. \A x \in unswept' : Exists(x)'
  BY <1>1, <1>2, <1>4 DEF Exists
<1>7. QED
  BY <1>1, <1>5, <1>6 DEF Hues, Blacks

LEMMA SparedIInv ==
  ASSUME IInv, NEW o \in Obj, gcstate = "sweep", o \in unswept, unswept' = unswept \ {o}, Spared(o), SInv'
  PROVE  IInv'
<1>1. SInv /\ Types /\ Hues /\ Alive /\ \A x \in Roots : Live(x)
  BY IInvIs
<1>2. /\ color[o] # "dead" /\ color' = [color EXCEPT ![o] = "white"] /\ gcstate' = gcstate /\ gray' = gray
      /\ UNCHANGED <<stack, L, proto, upvals, cache, at, value, refcount, touched, openupval, twups>>
  BY DEF Spared, code, uvs
<1>3. Exists(o)
  BY <1>1 DEF Hues
<1>4. \A x \in Obj : color'[x] = IF x = o THEN "white" ELSE color[x]
  BY <1>1, <1>2 DEF Types
<1>5. Hues' /\ Blacks'
  BY <1>1, <1>2, SweptHues
<1>6. LivesOn /\ \A x \in Obj : LiveAfter(x) => Live(x)
  BY <1>2, <1>3, <1>4 DEF LivesOn, Live, LiveAfter, Exists
<1>7. LiveValues' /\ Live(L)' /\ \A x \in Roots : Live(x)'
  BY <1>2, <1>6, SameLive
<1>8. LiveCache'
  BY <1>1, <1>2, <1>6, CacheLive
<1>9. Twups'
  <2>1. \A t \in Threads : LiveAfter(t) => Live(t)
    BY <1>6, Kinds
  <2>2. QED
    BY <1>1, <1>2, <1>6, <2>1, TwupsKept
<1>10. QED
  BY <1>5, <1>7, <1>8, <1>9 DEF IInv, Colors, Alive

LEMMA ClosureFreedIInv ==
  ASSUME IInv, NEW c, ClosureFreed(c), gcstate = "sweep", unswept' = unswept \ {c}, SInv'
  PROVE  IInv'
<1>1. SInv /\ Types /\ Counts /\ Lists /\ Hues /\ Alive /\ LiveValues
  BY IInvIs
<1>2. /\ c \in Closures /\ color[c] = "dead" /\ color' = [color EXCEPT ![c] = "free"]
      /\ upvals' = [upvals EXCEPT ![c] = <<>>]
      /\ \A u \in UpVal : \/ at'[u] = Freed /\ refcount'[u] = 0
                          \/ at'[u] = at[u] /\ value'[u] = value[u]
      /\ UNCHANGED <<stack, L, cache, touched, openupval, twups, gcstate, gray>>
  BY DEF ClosureFreed
<1>3. c \in Obj /\ Swept(c)
  BY <1>2, Kinds DEF Swept
<1>4. LivesOn /\ \A x \in Obj : LiveAfter(x) => Live(x) /\ x # c
  BY <1>1, <1>3, SweptIs
<1>5. Hues' /\ Blacks'
  BY <1>1, <1>2, <1>3, SweptHues
<1>6. StackOK(stack') /\ Longer(stack, stack') /\ Grown(stack, stack', {}) /\ Comes({})
  BY <1>1, <1>2, SameStacks, StackIs DEF Grown, Comes
<1>7. ASSUME NEW d \in Closures, LiveAfter(d), NEW w \in ToSet(upvals'[d]) PROVE GoodAfter(w)
  <2>1. Live(d) /\ d # c
    BY <1>4, <1>7, Kinds
  <2>2. w \in ToSet(upvals[d]) /\ w \in UpVal
    BY <1>1, <1>2, <1>7, <2>1, UpvalsOf DEF Types
  <2>3. PICK H, R : H = upvals' /\ R = refcount'
    OBVIOUS
  <2>4. Exact(H, R) /\ H \in [Closures -> Seq(UpVal)] /\ w \in ToSet(H[d])
    BY <1>7, <2>3 DEF SInv, Counts, Types, Exact, Refs
  <2>5. R[w] # 0
    BY <2>4, UsedIn
  <2>6. at'[w] = at[w] /\ value'[w] = value[w]
    BY <1>2, <2>2, <2>3, <2>5
  <2>7. upisopen(w) => LevelOf(w) <= Len(stack'[ThreadOf(w)])
    BY <1>1, <1>6, <2>2, SlotsKept
  <2>8. QED
    BY <1>1, <1>4, <1>6, <2>1, <2>2, <2>6, <2>7, UpvalueStays DEF GoodAfter
<1>8. \A t \in Threads : LiveAfter(t) => Live(t)
  BY <1>4, Kinds
<1>9. LiveValues'
  BY <1>1, <1>4, <1>6, <1>7, <1>8, LiveFrom
<1>10. LiveCache'
  BY <1>1, <1>2, <1>4, CacheLive
<1>11. Twups'
  BY <1>1, <1>2, <1>4, <1>8, TwupsKept
<1>12. Live(L)' /\ \A x \in Roots : Live(x)'
  BY <1>1, <1>2, <1>4, RootsLive DEF Live, LiveAfter
<1>13. QED
  BY <1>5, <1>9, <1>10, <1>11, <1>12 DEF IInv, Colors, Alive

LEMMA ThreadFreedIInv ==
  ASSUME IInv, NEW th, ThreadFreed(th), gcstate = "sweep", unswept' = unswept \ {th}, SInv'
  PROVE  IInv'
<1>1. SInv /\ Types /\ Counts /\ Lists /\ Hues /\ Alive /\ LiveValues
  BY IInvIs
<1>2. /\ th \in Threads /\ color[th] = "dead" /\ color' = [color EXCEPT ![th] = "free"]
      /\ Closed(th, 1) /\ OneOther(stack, th, <<>>, stack')
      /\ UNCHANGED <<L, proto, upvals, cache, refcount, twups, gcstate, gray>>
  BY DEF ThreadFreed, code
<1>3. th \in Obj /\ Swept(th)
  BY <1>2, Kinds DEF Swept
<1>4. LivesOn /\ \A x \in Obj : LiveAfter(x) => Live(x) /\ x # th
  BY <1>1, <1>3, SweptIs
<1>5. Hues' /\ Blacks'
  BY <1>1, <1>2, <1>3, SweptHues
<1>6. /\ stack'[th] = <<>> /\ \A t \in Threads \ {th} : stack'[t] = stack[t]
      /\ StackOK(stack') /\ Grown(stack, stack', {})
  <2>1. StackOK(stack) /\ StackSize \in Nat
    BY <1>1, StackIs
  <2>2. GrownSeq(stack[th], <<>>, {})
    BY <2>1 DEF GrownSeq
  <2>3. StackOK(stack')
    BY <1>2, <2>1, <2>2, OneStack
  <2>4. Grown(stack, stack', {})
    BY <1>2, <2>1, <2>2, OneStack
  <2>5. stack'[th] = <<>>
    BY <1>2, <2>1 DEF OneOther, StackOK
  <2>6. \A t \in Threads \ {th} : stack'[t] = stack[t]
    BY <1>2, <2>1 DEF OneOther, StackOK
  <2>7. QED
    BY <2>3, <2>4, <2>5, <2>6
<1>7. Comes({})
  BY DEF Comes
<1>8. \A u \in UpVal : u \in Closing(th, 1) <=> OpenAt(u, th, 1)
  BY <1>1, <1>2, ClosingIs
<1>9. ASSUME NEW d \in Closures, LiveAfter(d), NEW w \in ToSet(upvals'[d]) PROVE GoodAfter(w)
  <2>1. Live(d) /\ w \in ToSet(upvals[d])
    BY <1>2, <1>4, <1>9, Kinds
  <2>2. /\ w \in UpVal /\ refcount[w] > 0 /\ (ValueOf(w) = Nil \/ (ValueOf(w) \in Obj /\ Live(ValueOf(w))))
    BY <1>1, <2>1, UsedValue, Kinds DEF Slot
  <2>3. CASE w \in Closing(th, 1)
    <3>1. at'[w] = Own /\ value'[w] = ValueOf(w)
      BY <1>2, <2>2, <2>3 DEF Closed
    <3>2. ~ upisopen(w)'
      BY <3>1, Places DEF upisopen
    <3>3. ValueOf(w)' = ValueOf(w)
      BY <3>1, <3>2 DEF ValueOf
    <3>4. QED
      BY <1>4, <2>2, <3>3 DEF GoodAfter, LivesOn
  <2>4. CASE w \notin Closing(th, 1)
    <3>1. at'[w] = at[w] /\ value'[w] = value[w]
      BY <1>2, <2>2, <2>4 DEF Closed
    <3>2. ASSUME upisopen(w) PROVE LevelOf(w) <= Len(stack'[ThreadOf(w)])
      <4>1. PICK t \in Threads, l \in Nat : t = ThreadOf(w) /\ l = LevelOf(w) /\ l \in 1 .. Len(stack[t])
                                            /\ at[w] \in Slots
        BY <1>1, <2>2, <3>2, OpenUpvalue, StackIs
      <4>2. at[w][1] = t /\ at[w][2] = l /\ l >= 1
        BY <1>1, <4>1, StackIs DEF ThreadOf, LevelOf
      <4>3. ~ OpenAt(w, th, 1)
        BY <1>8, <2>2, <2>4
      <4>4. t # th
        BY <4>1, <4>2, <4>3 DEF OpenAt
      <4>5. stack'[t] = stack[t] /\ Len(stack[t]) \in Nat
        BY <1>1, <1>6, <4>4, StackIs
      <4>6. QED
        BY <4>1, <4>5
    <3>3. QED
      BY <1>1, <1>4, <1>6, <1>7, <2>1, <3>1, <3>2, UpvalueStays DEF GoodAfter
  <2>5. QED
    BY <2>3, <2>4
<1>10. \A t \in Threads : LiveAfter(t) => Live(t) /\ t # th
  BY <1>4, Kinds
<1>11. LiveValues'
  BY <1>1, <1>4, <1>6, <1>7, <1>9, <1>10, LiveFrom
<1>12. LiveCache'
  BY <1>1, <1>2, <1>4, CacheLive
<1>13. Twups'
  <2>1. ASSUME NEW t \in Threads, LiveAfter(t), openupval'[t] # <<>> PROVE t \in twups'
    <3>1. openupval'[t] = openupval[t]
      BY <1>2, <1>10, <2>1 DEF Closed
    <3>2. QED
      BY <1>1, <1>2, <1>10, <2>1, <3>1 DEF Alive, Twups
  <2>2. ASSUME NEW t \in Threads, t \in twups' PROVE LiveAfter(t)
    BY <1>1, <1>2, <1>4, <2>2, Kinds DEF Alive, Twups, LivesOn
  <2>3. QED
    BY <2>1, <2>2 DEF Twups, Live, LiveAfter
<1>14. Live(L)' /\ \A x \in Roots : Live(x)'
  BY <1>1, <1>2, <1>4, RootsLive DEF Live, LiveAfter
<1>15. QED
  BY <1>5, <1>11, <1>12, <1>13, <1>14 DEF IInv, Colors, Alive

LEMMA SweepIInv ==
  ASSUME IInv, NEW o \in Obj, sweepstep(o)
  PROVE  IInv'
<1>1. SInv /\ Types /\ Lists
  BY IInvIs
<1>2. /\ gcstate = "sweep" /\ o \in unswept /\ unswept' = unswept \ {o}
      /\ ClosureFreed(o) \/ ThreadFreed(o) \/ Spared(o)
  BY <1>1, SweepIs
<1>3. SInv'
  BY <1>1, SweepSInv
<1>4. CASE ClosureFreed(o)
  BY <1>2, <1>3, <1>4, ClosureFreedIInv
<1>5. CASE ThreadFreed(o)
  BY <1>2, <1>3, <1>5, ThreadFreedIInv
<1>6. CASE Spared(o)
  BY <1>2, <1>3, <1>6, SparedIInv
<1>7. QED
  BY <1>2, <1>4, <1>5, <1>6

-----------------------------------------------------------------------------
(* The atomic phase                                                          *)

LEMMA ReachIs ==
  ASSUME NEW S \in SUBSET Obj, NEW done
  PROVE  /\ S \subseteq Reach(S, done)
         /\ \A o \in Reach(S, done) \ done : \A x \in AtomicRefs(o) \ {Nil} : x \in Obj => x \in Reach(S, done)
<1> DEFINE closed == {C \in {S \cup X : X \in SUBSET (Values \ S)} :
                        \A o \in C \ done : AtomicRefs(o) \ {Nil} \subseteq C}
<1>1. Reach(S, done) = {o \in Obj : \A C \in closed : o \in C}
  BY DEF Reach
<1>2. \A C \in closed : S \subseteq C /\ \A o \in C \ done : AtomicRefs(o) \ {Nil} \subseteq C
  OBVIOUS
<1>3. S \subseteq Reach(S, done)
  BY <1>1, <1>2
<1>4. ASSUME NEW o \in Reach(S, done) \ done, NEW x \in AtomicRefs(o) \ {Nil}, x \in Obj
      PROVE  x \in Reach(S, done)
  <2>1. \A C \in closed : x \in C
    BY <1>1, <1>2, <1>4
  <2>2. QED
    BY <1>1, <1>4, <2>1
<1>5. QED
  BY <1>3, <1>4

\* What is marked at the start of the atomic phase, with the running thread; what is
\* marked for open upvalues; the closures traversed before.
Marks == marked \cup {L}
Seeds == Marks \cup (Remarked(Marks) \ {Nil})
Done == {o \in Closures : color[o] = "black"}
Keeps == Reach(Seeds, Done)

LEMMA AtomicIs ==
  ASSUME atomic
  PROVE  /\ gcstate = "propagate" /\ gray = {} /\ gcstate' = "sweep"
         /\ twups' = (twups \ LeavingTwups(Marks)) \cup {th \in Keeps \cap Threads : openupval[th] # <<>>}
         /\ \A o \in Obj : color'[o] = IF color[o] = "free" THEN "free"
                                       ELSE IF o \notin Keeps THEN "dead"
                                       ELSE IF o \in Threads THEN "gray" ELSE "black"
         /\ unswept' = {o \in Obj : Exists(o)} \ {MainThread}
         /\ UNCHANGED <<stack, L, proto, upvals, cache, at, value, refcount, openupval, gray>>
BY DEF atomic, Marks, Seeds, Done, Keeps, code

LEMMA SeedsIs ==
  ASSUME Types, Lists
  PROVE  Seeds \subseteq Obj /\ marked \subseteq Seeds /\ L \in Seeds /\ Marks \subseteq Seeds
<1>1. L \in Obj
  BY Kinds, StackIs
<1>2. \A th \in Threads : \A u \in ToSet(openupval[th]) : u \in UpVal
  <2>1. ASSUME NEW th \in Threads, NEW u \in ToSet(openupval[th]) PROVE u \in UpVal
    <3>1. PICK us \in Seq(UpVal) : us = openupval[th] /\ DOMAIN us = 1 .. Len(us) /\ Len(us) \in Nat
      BY DEF Types
    <3>2. PICK i \in 1 .. Len(us) : u = us[i]
      BY <2>1, <3>1 DEF ToSet
    <3>3. QED
      BY <3>2, ElementOfSeq
  <2>2. QED
    BY <2>1
<1>3. twups \subseteq Threads
  BY DEF Types
<1>4. \A u \in OpenIn(LeavingTwups(Marks)) : u \in UpVal
  BY <1>2, <1>3 DEF OpenIn, LeavingTwups
<1>5. Remarked(Marks) \ {Nil} \subseteq Obj
  BY <1>4, ValueIs, Kinds DEF Remarked, Slot
<1>6. QED
  BY <1>1, <1>5 DEF Seeds, Marks, marked

\* The value of an open upvalue that a traversed closure refers to is kept, whether
\* its thread is or not.
LEMMA OpenKept ==
  ASSUME IInv, gcstate = "propagate", NEW c \in Done, NEW u \in ToSet(upvals[c]), upisopen(u),
         ValueOf(u) # Nil
  PROVE  ValueOf(u) \in Keeps
<1>1. SInv /\ Types /\ Counts /\ Lists /\ Gone /\ Hues /\ Blacks /\ LiveValues /\ Twups
  BY IInvIs
<1>2. c \in Closures /\ color[c] = "black" /\ Live(c)
  BY DEF Done, Live
<1>3. touched[u] /\ u \in UpVal /\ ValueOf(u) \in Obj
  <2>1. u \in UpVal /\ ValueOf(u) \in Slot
    BY <1>1, <1>2, UsedValue
  <2>2. touched[u]
    BY <1>1, <1>2 DEF Blacks, Traversed
  <2>3. QED
    BY <2>1, <2>2, Kinds DEF Slot
<1>4. PICK th \in Threads, l \in Nat : /\ th = ThreadOf(u) /\ l = LevelOf(u) /\ l \in 1 .. Len(stack[th])
                                       /\ \E i \in 1 .. Len(openupval[th]) : openupval[th][i] = u
  BY <1>1, <1>3, OpenUpvalue, StackIs
<1>5. ValueOf(u) = stack[th][l]
  BY <1>4 DEF ValueOf
<1>6. u \in ToSet(openupval[th]) /\ openupval[th] # <<>>
  <2>1. openupval[th] \in Seq(UpVal)
    BY <1>1 DEF Types
  <2>2. DOMAIN openupval[th] = 1 .. Len(openupval[th])
    BY <2>1
  <2>3. QED
    BY <1>4, <2>1, <2>2 DEF ToSet
<1>7. Seeds \subseteq Obj /\ Marks \subseteq Seeds
  BY <1>1, SeedsIs
<1>8. CASE th \in Keeps
  <2>1. th \notin Done
    BY Kinds DEF Done
  <2>2. stack[th][l] \in ToSet(stack[th])
    BY <1>1, <1>4, StackIs DEF ToSet
  <2>3. ValueOf(u) \in AtomicRefs(th) \ {Nil}
    BY <1>5, <2>2, RefsOf
  <2>4. QED
    BY <1>3, <1>7, <1>8, <2>1, <2>3, ReachIs DEF Keeps
<1>9. CASE th \notin Keeps
  <2>1. th \notin Marks
    BY <1>7, <1>9, ReachIs DEF Keeps
  <2>2. th \in twups
    <3>1. color[th] # "free"
      BY <1>1, <1>6 DEF Gone
    <3>2. color[th] # "dead"
      BY <1>1, Kinds DEF Hues
    <3>3. QED
      BY <1>1, <1>6, <3>1, <3>2 DEF Twups, Live
  <2>3. th \in LeavingTwups(Marks)
    BY <2>1, <2>2 DEF LeavingTwups
  <2>4. u \in OpenIn(LeavingTwups(Marks))
    BY <1>6, <2>3 DEF OpenIn
  <2>5. ValueOf(u) \in Seeds
    BY <1>3, <2>4 DEF Remarked, Seeds
  <2>6. QED
    BY <1>7, <2>5, ReachIs DEF Keeps
<1>10. QED
  BY <1>8, <1>9

LEMMA AtomicIInv ==
  ASSUME IInv, atomic
  PROVE  IInv'
<1>1. SInv /\ Types /\ Counts /\ Lists /\ Gone /\ Hues /\ Blacks /\ Alive /\ LiveValues /\ LiveCache
      /\ Twups /\ Live(L) /\ \A o \in Roots : Live(o)
  BY IInvIs
<1>2. /\ gcstate = "propagate" /\ gray = {} /\ gcstate' = "sweep"
      /\ twups' = (twups \ LeavingTwups(Marks)) \cup {th \in Keeps \cap Threads : openupval[th] # <<>>}
      /\ \A o \in Obj : color'[o] = IF color[o] = "free" THEN "free"
                                    ELSE IF o \notin Keeps THEN "dead"
                                    ELSE IF o \in Threads THEN "gray" ELSE "black"
      /\ unswept' = {o \in Obj : Exists(o)} \ {MainThread}
      /\ UNCHANGED <<stack, L, proto, upvals, cache, at, value, refcount, openupval, gray>>
  BY AtomicIs
<1>3. /\ \A o \in Obj : color[o] # "dead"
      /\ \A o \in Obj \ Threads : color[o] # "gray"
      /\ \A o \in Roots : color[o] \in {"gray", "black"}
  BY <1>1, <1>2 DEF Hues
<1>4. Seeds \subseteq Obj /\ marked \subseteq Seeds /\ L \in Seeds /\ Marks \subseteq Seeds
  BY <1>1, SeedsIs
<1>5. Seeds \subseteq Keeps
      /\ \A o \in Keeps \ Done : \A x \in AtomicRefs(o) \ {Nil} : x \in Obj => x \in Keeps
  BY <1>4, ReachIs DEF Keeps
<1>6. \A o \in Obj : (LiveAfter(o) <=> color[o] # "free" /\ o \in Keeps) /\ (Live(o) <=> color[o] # "free")
  BY <1>2, <1>3 DEF LiveAfter, Live
<1>7. SInv'
  BY <1>1, AtomicSInv
<1>8. Hues' /\ Blacks'
  <2>1. \A o \in Obj : color'[o] = "free" <=> color[o] = "free"
    BY <1>2
  <2>2. \A o \in Obj \ unswept' : color'[o] \in {"free", "white"} \/ o = MainThread
    BY <1>2, <2>1 DEF Exists
  <2>3. \A o \in unswept' : Exists(o)'
    BY <1>2, <2>1 DEF Exists
  <2>4. QED
    BY <1>2, <2>2, <2>3 DEF Hues, Blacks
<1>9. ASSUME NEW th \in Threads, LiveAfter(th) PROVE \A x \in ToSet(stack'[th]) \ {Nil} : LiveAfter(x)
  <2>1. th \in Obj /\ th \in Values /\ th \notin Done
    BY Kinds DEF Done
  <2>2. AtomicRefs(th) = ToSet(stack'[th]) /\ ToSet(stack[th]) \subseteq Slot
    BY <1>1, <1>2, RefsOf, StackIs
  <2>3. ASSUME NEW x \in AtomicRefs(th) \ {Nil} PROVE LiveAfter(x)
    <3>1. x \in Obj
      BY <1>2, <2>2, Kinds DEF Slot
    <3>2. Live(x)
      BY <1>1, <1>6, <1>9, <2>1 DEF LiveValues
    <3>3. x \in Keeps
      BY <1>5, <1>6, <1>9, <2>1, <3>1
    <3>4. QED
      BY <1>6, <3>1, <3>2, <3>3
  <2>4. QED
    BY <2>2, <2>3
<1>10. ASSUME NEW c \in Closures, LiveAfter(c), NEW u \in ToSet(upvals'[c])
       PROVE  ValueOf(u)' = Nil \/ LiveAfter(ValueOf(u)')
  <2>1. ValueOf(u)' = ValueOf(u)
    BY <1>2 DEF ValueOf, upisopen, ThreadOf, LevelOf
  <2>2. c \in Obj /\ c \in Values /\ Live(c) /\ c \in Keeps /\ u \in ToSet(upvals[c])
    BY <1>2, <1>6, <1>10, Kinds
  <2>3. ValueOf(u) \in Slot /\ (ValueOf(u) = Nil \/ Live(ValueOf(u)))
    BY <1>1, <2>2, UsedValue
  <2>4. SUFFICES ASSUME ValueOf(u) # Nil PROVE ValueOf(u) \in Keeps
    BY <1>6, <2>1, <2>3, Kinds DEF Slot
  <2>5. ValueOf(u) \in Obj
    BY <2>3, <2>4, Kinds DEF Slot
  <2>6. CASE c \notin Done
    <3>1. ValueOf(u) \in AtomicRefs(c)
      BY <2>2, RefsOf
    <3>2. QED
      BY <1>5, <2>2, <2>4, <2>5, <2>6, <3>1
  <2>7. CASE c \in Done /\ upisopen(u)
    BY <1>2, <2>2, <2>4, <2>7, OpenKept
  <2>8. CASE c \in Done /\ ~ upisopen(u)
    <3>1. ValueOf(u) = value[u] /\ Marked(value[u])
      BY <1>1, <1>2, <2>2, <2>8 DEF Blacks, Traversed, Done, ValueOf
    <3>2. ValueOf(u) \in marked
      BY <2>4, <2>5, <3>1 DEF Marked, marked
    <3>3. QED
      BY <1>4, <1>5, <3>2
  <2>9. QED
    BY <2>6, <2>7, <2>8
<1>11. LiveValues'
  BY <1>9, <1>10, LiveAll
<1>12. LiveCache'
  <2>1. ASSUME NEW p \in Protos, cache'[p] # Nil PROVE LiveAfter(cache'[p])
    <3>1. color[p] = "black" /\ cache'[p] = cache[p] /\ cache[p] \in Obj
      BY <1>1, <1>2, <1>3, <2>1, Kinds DEF Types
    <3>2. Marked(cache[p])
      BY <1>1, <1>2, <3>1 DEF Blacks
    <3>3. cache[p] \in marked /\ color[cache[p]] # "free"
      BY <2>1, <3>1, <3>2 DEF Marked, marked
    <3>4. QED
      BY <1>4, <1>5, <1>6, <3>1, <3>3
  <2>2. QED
    BY <2>1 DEF LiveCache, Live, LiveAfter
<1>13. Twups'
  <2>1. ASSUME NEW t \in Threads, LiveAfter(t), openupval'[t] # <<>> PROVE t \in twups'
    BY <1>2, <1>6, <2>1, Kinds
  <2>2. ASSUME NEW t \in Threads, t \in twups' PROVE LiveAfter(t)
    <3>1. CASE t \in twups \ LeavingTwups(Marks)
      <4>1. t \in Marks /\ Live(t)
        BY <1>1, <3>1 DEF LeavingTwups, Twups
      <4>2. QED
        BY <1>4, <1>5, <1>6, <4>1
    <3>2. CASE t \in Keeps /\ openupval[t] # <<>>
      <4>1. color[t] # "free"
        BY <1>1, <3>2 DEF Gone
      <4>2. QED
        BY <1>6, <3>2, <4>1, Kinds
    <3>3. QED
      BY <1>2, <2>2, <3>1, <3>2
  <2>3. QED
    BY <2>1, <2>2 DEF Twups, Live, LiveAfter
<1>14. Live(L)' /\ \A o \in Roots : Live(o)'
  <2>1. \A o \in Roots : o \in marked /\ o \in Obj
    BY <1>3, Kinds DEF marked
  <2>2. \A o \in Roots : LiveAfter(o)
    BY <1>1, <1>4, <1>5, <1>6, <2>1 DEF Live
  <2>3. LiveAfter(L)
    BY <1>1, <1>4, <1>5, <1>6 DEF Live
  <2>4. QED
    BY <1>2, <2>2, <2>3 DEF Live, LiveAfter
<1>15. QED
  BY <1>7, <1>8, <1>11, <1>12, <1>13, <1>14 DEF IInv, Colors, Alive

-----------------------------------------------------------------------------
(* The invariant                                                             *)

LEMMA InitIInv ==
  ASSUME Init
  PROVE  IInv
<1>1. Types
  <2>1. <<>> \in Seq(Values \cup {Nil}) /\ <<>> \in Seq(UpVal) /\ Len(<<>>) = 0 /\ StackSize \in Nat
    BY Kinds
  <2>2. stack \in [Threads -> Seq(Values \cup {Nil})] /\ \A th \in Threads : Len(stack[th]) <= StackSize
    BY <2>1 DEF Init
  <2>3. upvals \in [Closures -> Seq(UpVal)] /\ openupval \in [Threads -> Seq(UpVal)]
    BY <2>1 DEF Init
  <2>4. QED
    BY <2>2, <2>3, Kinds DEF Init, Types
<1>2. Counts
  <2>1. ASSUME NEW u \in UpVal PROVE IsFiniteSet(Refs(upvals, u)) /\ refcount[u] = Cardinality(Refs(upvals, u))
    <3>1. Refs(upvals, u) = {}
      BY DEF Init, Refs
    <3>2. QED
      BY <3>1, FS_EmptySet DEF Init
  <2>2. QED
    BY <2>1, Places DEF Init, Counts, Exact
<1>3. Lists
  <2>1. Len(<<>>) = 0
    OBVIOUS
  <2>2. \A th \in Threads : openupval[th] = <<>>
    BY DEF Init
  <2>3. \A u \in UpVal : at[u] \notin Slots
    BY Places DEF Init
  <2>4. QED
    BY <2>1, <2>2, <2>3 DEF Lists, Ordered, Complete
<1>4. Gone
  BY DEF Init, Gone
<1>5. Roots \subseteq Obj /\ MainThread \in Roots
  BY Kinds
<1>6. Hues /\ Blacks
  BY <1>5 DEF Init, Hues, Blacks
<1>7. ASSUME NEW o \in Values, Live(o) PROVE AtomicRefs(o) = {}
  <2>1. o \notin Closures
    BY <1>7, Kinds DEF Init, Live
  <2>2. o \in Threads
    BY <2>1, Kinds
  <2>3. QED
    BY <2>2, RefsOf DEF Init, ToSet
<1>8. Alive
  BY <1>5, <1>7 DEF Init, Alive, LiveValues, LiveCache, Twups, Live
<1>9. QED
  BY <1>1, <1>2, <1>3, <1>4, <1>6, <1>8 DEF IInv, SInv, Colors

LEMMA StutterIInv ==
  ASSUME IInv, UNCHANGED vars
  PROVE  IInv'
<1>1. Live(L) /\ SInv
  BY IInvIs
<1>2. StackStep({})
  BY <1>1, SameStacks, StackIs DEF StackStep, SInv, vars, Live, gc, Grown
<1>3. QED
  BY <1>2, StackStepIInv

LEMMA MutatorIInv ==
  ASSUME IInv, JoinSelf = FALSE, mutator
  PROVE  IInv'
<1>1. SInv /\ Types /\ Counts /\ Lists /\ Live(L) /\ LiveValues /\ LiveCache
  BY IInvIs
<1>2. \A x \in AtHand \cup {Nil} : Good(x)
  BY <1>1, GoodStack
<1>3. ASSUME NEW x \in AtHand \cup {Nil}, pushlocal(x) PROVE IInv'
  BY <1>1, <1>2, <1>3, Pushed, StackStepIInv DEF pushlocal
<1>4. ASSUME NEW i \in 1 .. top, NEW x \in AtHand \cup {Nil}, setlocal(i, x) PROVE IInv'
  <2>1. L \in Threads /\ i \in 1 .. Len(stack[L])
    BY <1>1, StackIs
  <2>2. StackStep({x})
    BY <1>1, <1>2, <1>4, <2>1, Put DEF setlocal
  <2>3. QED
    BY <2>2, StackStepIInv
<1>5. ASSUME NEW th \in NewObj \cap Coroutines, newthread(th) PROVE IInv'
  BY <1>5, NewthreadIInv
<1>6. ASSUME NEW c \in Running, NEW i \in DOMAIN upvals[c], getupval(c, i) PROVE IInv'
  <2>1. Good(ValueOf(upvals[c][i]))
    BY GoodUpvalue
  <2>2. PICK x : x = ValueOf(upvals[c][i])
    OBVIOUS
  <2>3. Good(x) /\ Room /\ push(x) /\ UNCHANGED <<L, code, uvs, gc>>
    BY <1>6, <2>1, <2>2 DEF getupval
  <2>4. QED
    BY <1>1, <2>3, Pushed, StackStepIInv
<1>7. ASSUME NEW c \in Running, NEW i \in DOMAIN upvals[c], NEW x \in AtHand \cup {Nil}, setupval(c, i, x)
      PROVE  IInv'
  BY <1>7, SetupvalIInv
<1>8. ASSUME NEW c \in Running, NEW i \in DOMAIN upvals[c], NEW d \in Running, NEW j \in DOMAIN upvals[d],
             lua_upvaluejoin(c, i, d, j)
      PROVE  IInv'
  <2>1. PICK u, v \in UpVal : JoinSays(c, i, u, v)
    BY <1>8, JoinIs
  <2>2. c \in Closures
    BY DEF Running
  <2>3. QED
    BY <2>1, <2>2, JoinIInv
<1>9. ASSUME NEW p \in Protos, NEW enc \in Enclosing, NEW base \in 0 .. StackSize, NEW c \in Closures,
             closure(p, enc, base, c)
      PROVE  IInv'
  <2>1. CASE /\ cache[p] = c /\ Room /\ push(c) /\ UNCHANGED <<L, code, uvs, gc>>
    <3>1. Good(c)
      BY <1>1, <2>1, Kinds DEF Good, Slot, LiveCache
    <3>2. QED
      BY <1>1, <2>1, <3>1, Pushed, StackStepIInv
  <2>2. ASSUME NEW us, NEW open, ClosureSays(p, enc, base, c, us, open) PROVE IInv'
    BY <2>2, ClosureIInv
  <2>3. QED
    BY <1>1, <1>9, <2>1, <2>2, ClosureIs
<1>10. ASSUME NEW p \in Protos, NEW c \in NewObj \cap Closures, load(p, c) PROVE IInv'
  BY <1>10, LoadIs, LoadIInv
<1>11. ASSUME NEW level \in 1 .. top, NEW r \in One, leave(level, r) PROVE IInv'
  BY <1>11, LeaveIInv
<1>12. ASSUME NEW X \in One, yield(X) \/ \E co \in Coroutines : resume(co, X) PROVE IInv'
  BY <1>12, Resumed, StackStepIInv
<1>13. QED
  BY <1>3, <1>4, <1>5, <1>6, <1>7, <1>8, <1>9, <1>10, <1>11, <1>12 DEF mutator

LEMMA CollectorIInv ==
  ASSUME IInv, collector
  PROVE  IInv'
BY RestartIInv, AtomicIInv, EndcycleIInv, PropagateIInv, SweepIInv DEF collector

\* The invariant holds always, if no upvalue is joined with itself.
THEOREM Invariance == ASSUME JoinSelf = FALSE PROVE Spec => []IInv
<1>1. Init => IInv
  BY InitIInv
<1>2. IInv /\ [Next]_vars => IInv'
  BY StutterIInv, MutatorIInv, CollectorIInv DEF Next
<1>3. QED
  BY <1>1, <1>2, PTL DEF Spec

-----------------------------------------------------------------------------
(* What follows                                                              *)

LEMMA ReferencesAre ==
  ASSUME Types, Gone, NEW u
  PROVE  References(u) = Refs(upvals, u)
<1>1. ASSUME NEW c \in Closures PROVE \A i \in DOMAIN upvals[c] : i \in Nat
  BY UpvalsOf
<1>2. \A c \in Closures : ~ Exists(c) => DOMAIN upvals[c] = {}
  BY DEF Gone, Exists
<1>3. ASSUME NEW x \in References(u) PROVE x \in Refs(upvals, u)
  <2>1. PICK c \in Closures : x \in {c} \X {i \in DOMAIN upvals[c] : upvals[c][i] = u}
    BY <1>3 DEF References
  <2>2. QED
    BY <1>1, <2>1 DEF Refs
<1>4. ASSUME NEW x \in Refs(upvals, u) PROVE x \in References(u)
  <2>1. x \in Closures \X Nat /\ x[2] \in DOMAIN upvals[x[1]] /\ upvals[x[1]][x[2]] = u
    BY <1>4 DEF Refs
  <2>2. PICK c \in Closures, i \in Nat : x = <<c, i>> /\ i \in DOMAIN upvals[c] /\ upvals[c][i] = u
    BY <2>1
  <2>3. Exists(c)
    BY <1>2, <2>2
  <2>4. x \in {c} \X {k \in DOMAIN upvals[c] : upvals[c][k] = u}
    BY <2>2
  <2>5. QED
    BY <2>3, <2>4 DEF References
<1>5. QED
  BY <1>3, <1>4

LEMMA CountedIs ==
  ASSUME SInv
  PROVE  Counted
<1>1. Types /\ Counts /\ Gone
  BY DEF SInv
<1>2. ASSUME NEW u \in UpVal
      PROVE  LET n == Cardinality(References(u))
             IN /\ at[u] # Freed => refcount[u] = n
                /\ at[u] = Freed => n = 0
                /\ at[u] = Own => n > 0
  <2>1. refcount[u] = Cardinality(References(u))
    BY <1>1, ReferencesAre DEF Counts, Exact
  <2>2. QED
    BY <1>1, <2>1 DEF Counts
<1>3. QED
  BY <1>2 DEF Counted

LEMMA OpenListIs ==
  ASSUME SInv
  PROVE  OpenList
<1>1. Types /\ Lists /\ at \in [UpVal -> {Freed, Own} \cup Slots]
  BY DEF SInv, Types
<1>2. ASSUME NEW th \in Threads
      PROVE  /\ \A i \in DOMAIN openupval[th] :
                  LET u == openupval[th][i]
                  IN /\ upisopen(u) /\ ThreadOf(u) = th /\ LevelOf(u) \in DOMAIN stack[th]
                     /\ i > 1 => LevelOf(openupval[th][i - 1]) > LevelOf(u)
             /\ \A u \in UpVal : (upisopen(u) /\ ThreadOf(u) = th) => u \in ToSet(openupval[th])
  <2>1. PICK open \in Seq(UpVal) : open = openupval[th] /\ DOMAIN open = 1 .. Len(open) /\ Len(open) \in Nat
    BY <1>1 DEF Types
  <2>2. Ordered(open, at, th, Len(stack[th])) /\ Complete(open, at, th)
    BY <1>1, <2>1 DEF Lists
  <2>3. ASSUME NEW i \in 1 .. Len(open)
        PROVE  /\ upisopen(open[i]) /\ ThreadOf(open[i]) = th /\ LevelOf(open[i]) \in DOMAIN stack[th]
               /\ i > 1 => LevelOf(open[i - 1]) > LevelOf(open[i])
    <3>1. open[i] \in UpVal
      BY <2>1, ElementOfSeq
    <3>2. at[open[i]] \in Slots /\ at[open[i]][1] = th
      BY <2>2 DEF Ordered
    <3>3. upisopen(open[i])
      BY <1>1, <3>1, <3>2, Upvalues
    <3>4. ThreadOf(open[i]) = th /\ LevelOf(open[i]) \in 1 .. Len(stack[th])
      <4>1. ThreadOf(open[i]) = th
        BY <3>2 DEF ThreadOf
      <4>2. QED
        BY <1>1, <3>1, <3>3, <4>1, OpenUpvalue
    <3>5. DOMAIN stack[th] = 1 .. Len(stack[th])
      BY <1>1, StackIs
    <3>6. ASSUME i > 1 PROVE LevelOf(open[i - 1]) > LevelOf(open[i])
      <4>1. i - 1 \in 1 .. Len(open) /\ i - 1 < i
        BY <2>1, <3>6
      <4>2. at[open[i]][2] < at[open[i - 1]][2]
        BY <2>2, <4>1 DEF Ordered
      <4>3. QED
        BY <4>2 DEF LevelOf
    <3>7. QED
      BY <3>3, <3>4, <3>5, <3>6
  <2>4. ASSUME NEW u \in UpVal, upisopen(u), ThreadOf(u) = th PROVE u \in ToSet(open)
    <3>1. at[u] \in Slots /\ at[u][1] = th
      BY <1>1, <2>4, Upvalues DEF ThreadOf
    <3>2. QED
      BY <2>1, <2>2, <3>1 DEF Complete, ToSet
  <2>5. QED
    BY <2>1, <2>3, <2>4
<1>3. QED
  BY <1>2 DEF OpenList

LEMMA TypesOK ==
  ASSUME Types
  PROVE  TypeOK
<1>1. \A th \in Threads : Len(stack[th]) <= StackSize /\ ToSet(stack[th]) \subseteq Values \cup {Nil}
  BY StackIs DEF Types, Slot
<1>2. \A c \in Closures : proto[c] \in Protos \cup {Nil} /\ ToSet(upvals[c]) \subseteq UpVal
  BY UpvalsOf DEF Types
<1>3. ASSUME NEW th \in Threads, NEW u \in ToSet(openupval[th]) PROVE u \in UpVal
  <2>1. PICK us \in Seq(UpVal) : us = openupval[th] /\ DOMAIN us = 1 .. Len(us) /\ Len(us) \in Nat
    BY DEF Types
  <2>2. PICK i \in 1 .. Len(us) : u = us[i]
    BY <1>3, <2>1 DEF ToSet
  <2>3. QED
    BY <2>2, ElementOfSeq
<1>4. QED
  BY <1>1, <1>2, <1>3 DEF Types, TypeOK, Slots

\* Reference counts are exact, and the lists of open upvalues in order and complete,
\* whatever is captured, closed, joined and collected (lfunc.c).
THEOREM UpvaluesConsistent == ASSUME JoinSelf = FALSE PROVE Spec => []Consistent
<1>1. IInv => Consistent
  BY TypesOK, CountedIs, OpenListIs DEF IInv, SInv, Consistent
<1>2. QED
  BY <1>1, Invariance, PTL

\* What a stack, an upvalue or the cache of a prototype leads to is never collected, and
\* no thread is missing from 'twups': the collector's part of the bargain (lgc.c:306-331).
THEOREM NothingLost == ASSUME JoinSelf = FALSE PROVE Spec => []NoneLost
<1>1. IInv => NoneLost
  BY DEF IInv, Alive, NoneLost
<1>2. QED
  BY <1>1, Invariance, PTL

\* The closure a function makes has the variables its prototype names, whether it is a
\* new one or one in the cache (lvm.c:605-650).
THEOREM VariablesRight == ASSUME JoinSelf = FALSE PROVE Spec => RightVariables
<1> DEFINE Right == \A p \in Protos, enc \in Enclosing, base \in 0 .. StackSize, c \in Closures :
                      (stack'[L] = Append(stack[L], c) /\ closure(p, enc, base, c)) =>
                        \A i \in DOMAIN Desc[p] :
                          LET d == Desc[p][i]
                              u == upvals'[c][i]
                          IN IF d.instack THEN at'[u] = <<L, base + d.idx>> ELSE SameVar(u, enc[d.idx])
<1>1. ASSUME IInv PROVE Right
  <2>1. SUFFICES ASSUME NEW p \in Protos, NEW enc \in Enclosing, NEW base \in 0 .. StackSize, NEW c \in Closures,
                        closure(p, enc, base, c), NEW i \in DOMAIN Desc[p]
                 PROVE  IF Desc[p][i].instack THEN at'[upvals'[c][i]] = <<L, base + Desc[p][i].idx>>
                        ELSE SameVar(upvals'[c][i], enc[Desc[p][i].idx])
    OBVIOUS
  <2>2. SInv /\ Types /\ Counts /\ Lists /\ Gone
    BY <1>1, IInvIs
  <2>3. CASE c \in getcached(p, enc, base) /\ UNCHANGED <<L, code, uvs, gc>>
    BY <2>3 DEF getcached, code, uvs
  <2>4. ASSUME NEW us, NEW open, ClosureSays(p, enc, base, c, us, open)
        PROVE  IF Desc[p][i].instack THEN at'[upvals'[c][i]] = <<L, base + Desc[p][i].idx>>
               ELSE SameVar(upvals'[c][i], enc[Desc[p][i].idx])
    <3>1. upvals'[c] = us
      BY <2>2, <2>4, UpvalsNew DEF ClosureSays
    <3>2. i \in 1 .. Len(us)
      BY <2>4, DescIs DEF ClosureSays
    <3>3. Names(at', us[i], Desc[p][i], enc, base)
      BY <2>4, <3>2 DEF ClosureSays
    <3>4. QED
      BY <3>1, <3>3 DEF Names, SameVar
  <2>5. QED
    BY <2>1, <2>2, <2>3, <2>4, ClosureIs
<1>2. IInv => [Right]_vars
  BY <1>1
<1>3. QED
  BY <1>2, Invariance, PTL DEF RightVariables

-----------------------------------------------------------------------------
(* What a closure reads                                                      *)

\* A closure has the upvalues it had, with the values they had.
SameReadings(c) ==
  upvals'[c] = upvals[c] /\ \A u \in ToSet(upvals[c]) : ValueOf(u)' = ValueOf(u)

LEMMA ReadingsAre ==
  ASSUME Types, NEW c \in Closures, SameReadings(c)
  PROVE  Readings(c)' = Readings(c)
<1>1. \A i \in DOMAIN upvals[c] : upvals[c][i] \in ToSet(upvals[c])
  BY DEF ToSet
<1>2. \A i \in DOMAIN upvals[c] : ValueOf(upvals[c][i])' = ValueOf(upvals[c][i])
  <2>1. ASSUME NEW i \in DOMAIN upvals[c] PROVE ValueOf(upvals[c][i])' = ValueOf(upvals[c][i])
    <3>1. PICK u : u = upvals[c][i]
      OBVIOUS
    <3>2. upvals'[c][i] = u /\ ValueOf(u)' = ValueOf(u)
      BY <1>1, <3>1 DEF SameReadings
    <3>3. QED
      BY <3>1, <3>2 DEF ValueOf, upisopen, ThreadOf, LevelOf
  <2>2. QED
    BY <2>1
<1>3. QED
  BY <1>2 DEF Readings, SameReadings

\* The slots of th up to the old top keep what they hold.
Holds(th) == \A l \in 1 .. Len(stack[th]) : stack'[th][l] = stack[th][l]

LEMMA HeldValue ==
  ASSUME Types, Lists, NEW u \in UpVal, at'[u] = at[u], value'[u] = value[u],
         upisopen(u) => Holds(ThreadOf(u))
  PROVE  ValueOf(u)' = ValueOf(u)
<1>1. CASE upisopen(u)
  <2>1. PICK th \in Threads, l \in Nat : th = ThreadOf(u) /\ l = LevelOf(u) /\ l \in 1 .. Len(stack[th])
    BY <1>1, OpenUpvalue, StackIs
  <2>2. ThreadOf(u)' = th /\ LevelOf(u)' = l /\ upisopen(u)'
    BY <1>1, <2>1 DEF ThreadOf, LevelOf, upisopen
  <2>3. stack'[th][l] = stack[th][l]
    BY <1>1, <2>1 DEF Holds
  <2>4. QED
    BY <1>1, <2>1, <2>2, <2>3 DEF ValueOf
<1>2. CASE ~ upisopen(u)
  BY <1>2 DEF ValueOf, upisopen
<1>3. QED
  BY <1>1, <1>2

\* Steps that keep the closures that were there, their upvalues and all slots.
LEMMA AllHeld ==
  ASSUME IInv, NEW c \in Closures, Live(c), upvals'[c] = upvals[c],
         \A u \in ToSet(upvals[c]) : at'[u] = at[u] /\ value'[u] = value[u],
         \A th \in Threads : Holds(th)
  PROVE  SameReadings(c)
<1>1. Types /\ Counts /\ Lists /\ LiveValues
  BY IInvIs
<1>2. ASSUME NEW u \in ToSet(upvals[c]) PROVE ValueOf(u)' = ValueOf(u)
  <2>1. u \in UpVal
    BY <1>1, UpvalsOf
  <2>2. upisopen(u) => ThreadOf(u) \in Threads
    BY <1>1, <2>1, OpenUpvalue
  <2>3. QED
    BY <1>1, <2>1, <2>2, HeldValue
<1>3. QED
  BY <1>2 DEF SameReadings

LEMMA PushHolds ==
  ASSUME Types, NEW x \in Slot, Room, push(x)
  PROVE  \A th \in Threads : Holds(th)
<1>1. (\A th \in Threads \ {L} : stack'[th] = stack[th]) /\ stack'[L] = Append(stack[L], x)
  BY PushIs
<1>2. stack[L] \in Seq(Slot)
  BY StackIs
<1>3. \A l \in 1 .. Len(stack[L]) : Append(stack[L], x)[l] = stack[L][l]
  BY <1>2
<1>4. QED
  BY <1>1, <1>3 DEF Holds

LEMMA SwitchHolds ==
  ASSUME Types, NEW to \in Threads, NEW X \in One, switch(to, X)
  PROVE  \A th \in Threads : Holds(th)
<1>1. stack' = [stack EXCEPT ![to] = stack[to] \o X] /\ stack \in [Threads -> Seq(Slot)]
  BY StackIs DEF switch, StackOK
<1>2. PICK s \in Seq(Slot), r \in Seq(Slot) : s = stack[to] /\ r = X
  BY OneIs, StackIs
<1>3. \A l \in 1 .. Len(s) : (s \o r)[l] = s[l]
  OBVIOUS
<1>4. stack'[to] = s \o r /\ \A th \in Threads \ {to} : stack'[th] = stack[th]
  BY <1>1, <1>2
<1>5. QED
  BY <1>2, <1>3, <1>4 DEF Holds

LEMMA StackKept ==
  ASSUME stack' = stack
  PROVE  \A th \in Threads : Holds(th)
BY DEF Holds

\* A step that pushes a value.
LEMMA PushedSame ==
  ASSUME IInv, NEW x, x \in Slot, Room, push(x), UNCHANGED <<L, code, uvs, gc>>, NEW c \in Closures, Live(c)
  PROVE  SameReadings(c)
<1>1. Types
  BY IInvIs
<1>2. upvals' = upvals /\ at' = at /\ value' = value
  BY DEF code, uvs
<1>3. \A th \in Threads : Holds(th)
  BY <1>1, PushHolds
<1>4. QED
  BY <1>2, <1>3, AllHeld

LEMMA NewthreadSame ==
  ASSUME IInv, NEW th \in NewObj \cap Coroutines, newthread(th), NEW c \in Closures, Live(c)
  PROVE  SameReadings(c)
<1>1. SInv /\ Types /\ Counts /\ Lists /\ Gone /\ Live(L)
  BY IInvIs
<1>2. /\ th \in Threads /\ color[th] = "free" /\ th # L
      /\ (\A t \in Threads \ {L, th} : stack'[t] = stack[t]) /\ stack'[L] = Append(stack[L], th)
  BY <1>1, NewthreadIs
<1>3. upvals' = upvals /\ at' = at /\ value' = value
  BY DEF newthread, code, uvs
<1>4. \A t \in Threads \ {th} : Holds(t)
  <2>1. stack[L] \in Seq(Slot)
    BY <1>1, StackIs
  <2>2. \A l \in 1 .. Len(stack[L]) : Append(stack[L], th)[l] = stack[L][l]
    BY <2>1
  <2>3. QED
    BY <1>2, <2>2 DEF Holds
<1>5. ASSUME NEW u \in ToSet(upvals[c]) PROVE ValueOf(u)' = ValueOf(u)
  <2>1. u \in UpVal
    BY <1>1, UpvalsOf
  <2>2. ASSUME upisopen(u) PROVE ThreadOf(u) \in Threads \ {th}
    <3>1. PICK t \in Threads : t = ThreadOf(u) /\ \E i \in 1 .. Len(openupval[t]) : openupval[t][i] = u
      BY <1>1, <2>1, <2>2, OpenUpvalue
    <3>2. openupval[th] = <<>>
      BY <1>1, <1>2 DEF Gone
    <3>3. QED
      BY <3>1, <3>2
  <2>3. QED
    BY <1>1, <1>3, <1>4, <2>1, <2>2, HeldValue
<1>6. QED
  BY <1>3, <1>5 DEF SameReadings

LEMMA ClosureSame ==
  ASSUME IInv, NEW p, NEW enc, NEW base, NEW d, NEW us, NEW open, ClosureSays(p, enc, base, d, us, open),
         NEW c \in Closures, Live(c)
  PROVE  SameReadings(c)
<1>1. SInv /\ Types /\ Counts /\ Lists /\ Gone /\ LiveValues
  BY IInvIs
<1>2. /\ d \in Closures /\ color[d] = "free" /\ us \in Seq(UpVal) /\ upvals' = [upvals EXCEPT ![d] = us]
      /\ Kept(at') /\ value' = value /\ Room /\ push(d)
  BY DEF ClosureSays
<1>3. d # c /\ upvals'[c] = upvals[c]
  BY <1>1, <1>2, UpvalsNew DEF Live
<1>4. \A th \in Threads : Holds(th)
  BY <1>1, <1>2, PushHolds, Kinds DEF Slot
<1>5. \A u \in ToSet(upvals[c]) : at'[u] = at[u] /\ value'[u] = value[u]
  BY <1>1, <1>2, UsedValue DEF Kept
<1>6. QED
  BY <1>3, <1>4, <1>5, AllHeld

LEMMA LoadSame ==
  ASSUME IInv, NEW p, NEW d, NEW us, LoadSays(p, d, us), NEW c \in Closures, Live(c)
  PROVE  SameReadings(c)
<1>1. SInv /\ Types /\ Counts /\ Lists /\ Gone /\ LiveValues
  BY IInvIs
<1>2. /\ d \in Closures /\ color[d] = "free" /\ us \in Seq(UpVal) /\ upvals' = [upvals EXCEPT ![d] = us]
      /\ \A i \in DOMAIN us : at[us[i]] = Freed
      /\ at' = [u \in UpVal |-> IF u \in ToSet(us) THEN Own ELSE at[u]]
      /\ value' = [u \in UpVal |-> IF u \in ToSet(us) THEN Nil ELSE value[u]]
      /\ Room /\ push(d)
  BY DEF LoadSays
<1>3. d # c /\ upvals'[c] = upvals[c]
  BY <1>1, <1>2, UpvalsNew DEF Live
<1>4. \A th \in Threads : Holds(th)
  BY <1>1, <1>2, PushHolds, Kinds DEF Slot
<1>5. ASSUME NEW u \in ToSet(upvals[c]) PROVE at'[u] = at[u] /\ value'[u] = value[u]
  <2>1. u \in UpVal /\ at[u] # Freed
    BY <1>1, UsedValue
  <2>2. u \notin ToSet(us)
    BY <1>2, <2>1 DEF ToSet
  <2>3. QED
    BY <1>2, <2>1, <2>2
<1>6. QED
  BY <1>3, <1>4, <1>5, AllHeld

\* A variable that is closed keeps its value.
LEMMA ClosedValue ==
  ASSUME NEW u, at'[u] = Own, value'[u] = ValueOf(u)
  PROVE  ValueOf(u)' = ValueOf(u)
<1>1. ~ upisopen(u)'
  BY Places DEF upisopen
<1>2. QED
  BY <1>1 DEF ValueOf

LEMMA LeaveSame ==
  ASSUME IInv, NEW level \in 1 .. top, NEW r \in One, leave(level, r), NEW c \in Closures, Live(c)
  PROVE  SameReadings(c)
<1>1. SInv /\ Types /\ Counts /\ Lists /\ LiveValues
  BY IInvIs
<1>2. /\ Closed(L, level) /\ level \in Nat
      /\ \A t \in Threads \ {L} : stack'[t] = stack[t]
      /\ upvals' = upvals
  BY <1>1, LeaveIs DEF code
<1>3. L \in Threads /\ stack[L] \in Seq(Slot) /\ Len(stack[L]) \in Nat /\ level \in 1 .. Len(stack[L])
  BY <1>1, StackIs
<1>4. \A l \in 1 .. level - 1 : stack'[L][l] = stack[L][l]
  <2>1. PICK s \in Seq(Slot), q \in Seq(Slot) : s = stack[L] /\ q = r
    BY <1>1, <1>3, OneIs
  <2>2. PICK m \in Nat : m = level - 1 /\ m <= Len(s)
    BY <1>2, <1>3, <2>1
  <2>3. stack'[L] = SubSeq(s, 1, m) \o q
    BY <1>1, <1>3, <2>1, <2>2 DEF leave, Types
  <2>4. SubSeq(s, 1, m) \in Seq(Slot) /\ Len(SubSeq(s, 1, m)) = m /\ \A l \in 1 .. m : SubSeq(s, 1, m)[l] = s[l]
    BY <2>2
  <2>5. PICK a \in Seq(Slot) : a = SubSeq(s, 1, m)
    BY <2>4
  <2>6. \A l \in 1 .. m : (a \o q)[l] = a[l]
    BY <2>4, <2>5
  <2>7. QED
    BY <2>1, <2>2, <2>3, <2>4, <2>5, <2>6
<1>5. \A u \in UpVal : u \in Closing(L, level) <=> OpenAt(u, L, level)
  BY <1>1, <1>2, <1>3, ClosingIs
<1>6. ASSUME NEW u \in ToSet(upvals[c]) PROVE ValueOf(u)' = ValueOf(u)
  <2>1. u \in UpVal /\ refcount[u] > 0
    BY <1>1, UsedValue
  <2>2. CASE u \in Closing(L, level)
    <3>1. at'[u] = Own /\ value'[u] = ValueOf(u)
      BY <1>2, <2>1, <2>2 DEF Closed
    <3>2. QED
      BY <3>1, ClosedValue
  <2>3. CASE u \notin Closing(L, level)
    <3>1. at'[u] = at[u] /\ value'[u] = value[u]
      BY <1>2, <2>1, <2>3 DEF Closed
    <3>2. CASE upisopen(u)
      <4>1. PICK t \in Threads, l \in Nat : t = ThreadOf(u) /\ l = LevelOf(u) /\ l \in 1 .. Len(stack[t])
                                            /\ at[u] \in Slots
        BY <1>1, <2>1, <3>2, OpenUpvalue, StackIs
      <4>2. at[u][1] = t /\ at[u][2] = l
        BY <4>1 DEF ThreadOf, LevelOf
      <4>3. CASE t = L
        <5>1. ~ OpenAt(u, L, level)
          BY <1>5, <2>1, <2>3
        <5>2. ~ (l >= level)
          BY <4>1, <4>2, <4>3, <5>1 DEF OpenAt
        <5>3. l \in 1 .. level - 1
          BY <1>2, <4>1, <5>2, <1>3, <4>3
        <5>4. QED
          BY <1>4, <3>1, <3>2, <4>1, <4>3, <5>3 DEF ValueOf, upisopen, ThreadOf, LevelOf
      <4>4. CASE t # L
        BY <1>2, <3>1, <3>2, <4>1, <4>4 DEF ValueOf, upisopen, ThreadOf, LevelOf
      <4>5. QED
        BY <4>3, <4>4
    <3>3. CASE ~ upisopen(u)
      BY <3>1, <3>3 DEF ValueOf, upisopen
    <3>4. QED
      BY <3>2, <3>3
  <2>4. QED
    BY <2>2, <2>3
<1>7. QED
  BY <1>2, <1>6 DEF SameReadings

LEMMA ClosureFreedSame ==
  ASSUME IInv, NEW d, ClosureFreed(d), SInv', NEW c \in Closures, Live(c)
  PROVE  SameReadings(c)
<1>1. SInv /\ Types /\ Counts /\ Lists /\ LiveValues
  BY IInvIs
<1>2. /\ d \in Closures /\ color[d] = "dead" /\ upvals' = [upvals EXCEPT ![d] = <<>>]
      /\ \A u \in UpVal : \/ at'[u] = Freed /\ refcount'[u] = 0
                          \/ at'[u] = at[u] /\ value'[u] = value[u]
      /\ stack' = stack
  BY DEF ClosureFreed
<1>3. c # d /\ upvals'[c] = upvals[c]
  BY <1>1, <1>2 DEF Live, Types
<1>4. ASSUME NEW u \in ToSet(upvals[c]) PROVE at'[u] = at[u] /\ value'[u] = value[u]
  <2>1. PICK H, R : H = upvals' /\ R = refcount'
    OBVIOUS
  <2>2. Exact(H, R) /\ H \in [Closures -> Seq(UpVal)] /\ u \in ToSet(H[c])
    BY <1>3, <2>1 DEF SInv, Counts, Types, Exact, Refs
  <2>3. u \in UpVal /\ R[u] # 0
    BY <2>2, UsedIn
  <2>4. QED
    BY <1>2, <2>1, <2>3
<1>5. \A th \in Threads : Holds(th)
  BY <1>2, StackKept
<1>6. QED
  BY <1>3, <1>4, <1>5, AllHeld

LEMMA ThreadFreedSame ==
  ASSUME IInv, NEW th, ThreadFreed(th), NEW c \in Closures, Live(c)
  PROVE  SameReadings(c)
<1>1. SInv /\ Types /\ Counts /\ Lists /\ LiveValues
  BY IInvIs
<1>2. th \in Threads /\ Closed(th, 1) /\ OneOther(stack, th, <<>>, stack') /\ upvals' = upvals
  BY DEF ThreadFreed, code
<1>3. \A t \in Threads \ {th} : Holds(t)
  BY <1>1, <1>2, StackIs DEF OneOther, StackOK, Holds
<1>4. \A u \in UpVal : u \in Closing(th, 1) <=> OpenAt(u, th, 1)
  BY <1>1, <1>2, ClosingIs
<1>5. ASSUME NEW u \in ToSet(upvals[c]) PROVE ValueOf(u)' = ValueOf(u)
  <2>1. u \in UpVal /\ refcount[u] > 0
    BY <1>1, UsedValue
  <2>2. CASE u \in Closing(th, 1)
    <3>1. at'[u] = Own /\ value'[u] = ValueOf(u)
      BY <1>2, <2>1, <2>2 DEF Closed
    <3>2. QED
      BY <3>1, ClosedValue
  <2>3. CASE u \notin Closing(th, 1)
    <3>1. at'[u] = at[u] /\ value'[u] = value[u]
      BY <1>2, <2>1, <2>3 DEF Closed
    <3>2. ASSUME upisopen(u) PROVE ThreadOf(u) \in Threads \ {th}
      <4>1. PICK t \in Threads, l \in Nat : t = ThreadOf(u) /\ l = LevelOf(u) /\ l \in 1 .. Len(stack[t])
                                            /\ at[u] \in Slots
        BY <1>1, <2>1, <3>2, OpenUpvalue, StackIs
      <4>2. at[u][1] = t /\ at[u][2] = l /\ l >= 1
        BY <1>1, <4>1, StackIs DEF ThreadOf, LevelOf
      <4>3. ~ OpenAt(u, th, 1)
        BY <1>4, <2>1, <2>3
      <4>4. QED
        BY <4>1, <4>2, <4>3 DEF OpenAt
    <3>3. QED
      BY <1>1, <1>3, <2>1, <3>1, <3>2, HeldValue
  <2>4. QED
    BY <2>2, <2>3
<1>6. QED
  BY <1>2, <1>5 DEF SameReadings

LEMMA CollectorSame ==
  ASSUME IInv, collector, NEW c \in Closures, Live(c)
  PROVE  SameReadings(c)
<1>1. SInv /\ Types /\ Lists
  BY IInvIs
<1>2. ASSUME UNCHANGED <<stack, upvals, at, value>> PROVE SameReadings(c)
  BY <1>2, StackKept, AllHeld
<1>3. CASE restartcollection
  BY <1>2, <1>3 DEF restartcollection, code, uvs
<1>4. CASE atomic
  BY <1>2, <1>4 DEF atomic, code
<1>5. CASE endcycle
  BY <1>2, <1>5 DEF endcycle, code, uvs
<1>6. ASSUME NEW o \in Obj, propagatemark(o) PROVE SameReadings(c)
  BY <1>2, <1>6 DEF propagatemark
<1>7. ASSUME NEW o \in Obj, sweepstep(o) PROVE SameReadings(c)
  <2>1. SInv' /\ (ClosureFreed(o) \/ ThreadFreed(o) \/ Spared(o))
    BY <1>1, <1>7, SweepIs, SweepSInv
  <2>2. CASE ClosureFreed(o)
    BY <2>1, <2>2, ClosureFreedSame
  <2>3. CASE ThreadFreed(o)
    BY <2>3, ThreadFreedSame
  <2>4. CASE Spared(o)
    BY <1>2, <2>4 DEF Spared, code, uvs
  <2>5. QED
    BY <2>1, <2>2, <2>3, <2>4
<1>8. QED
  BY <1>3, <1>4, <1>5, <1>6, <1>7 DEF collector

LEMMA MutatorSame ==
  ASSUME IInv, mutator, ~ Assigns, NEW c \in Closures, Live(c)
  PROVE  SameReadings(c)
<1>1. SInv /\ Types /\ Counts /\ Lists /\ Live(L) /\ LiveValues
  BY IInvIs
<1>2. \A x \in AtHand \cup {Nil} : x \in Slot
  BY <1>1, GoodStack DEF Good
<1>3. ASSUME NEW x \in AtHand \cup {Nil}, pushlocal(x) PROVE SameReadings(c)
  BY <1>2, <1>3, PushedSame DEF pushlocal
<1>4. ASSUME NEW th \in NewObj \cap Coroutines, newthread(th) PROVE SameReadings(c)
  BY <1>4, NewthreadSame
<1>5. ASSUME NEW d \in Running, NEW i \in DOMAIN upvals[d], getupval(d, i) PROVE SameReadings(c)
  <2>1. PICK x : x = ValueOf(upvals[d][i])
    OBVIOUS
  <2>2. x \in Slot
    BY <2>1, GoodUpvalue DEF Good
  <2>3. Room /\ push(x) /\ UNCHANGED <<L, code, uvs, gc>>
    BY <1>5, <2>1 DEF getupval
  <2>4. QED
    BY <2>2, <2>3, PushedSame
<1>6. ASSUME NEW p \in Protos, NEW enc \in Enclosing, NEW base \in 0 .. StackSize, NEW d \in Closures,
             closure(p, enc, base, d)
      PROVE  SameReadings(c)
  <2>1. CASE Room /\ push(d) /\ UNCHANGED <<L, code, uvs, gc>>
    BY <2>1, PushedSame, Kinds DEF Slot
  <2>2. ASSUME NEW us, NEW open, ClosureSays(p, enc, base, d, us, open) PROVE SameReadings(c)
    BY <2>2, ClosureSame
  <2>3. QED
    BY <1>1, <1>6, <2>1, <2>2, ClosureIs
<1>7. ASSUME NEW p \in Protos, NEW d \in NewObj \cap Closures, load(p, d) PROVE SameReadings(c)
  BY <1>7, LoadIs, LoadSame
<1>8. ASSUME NEW level \in 1 .. top, NEW r \in One, leave(level, r) PROVE SameReadings(c)
  BY <1>8, LeaveSame
<1>9. ASSUME NEW X \in One, yield(X) \/ \E co \in Coroutines : resume(co, X) PROVE SameReadings(c)
  <2>1. PICK to \in Threads : switch(to, X)
    BY <1>9, Kinds DEF yield, resume
  <2>2. \A th \in Threads : Holds(th)
    BY <1>1, <2>1, SwitchHolds
  <2>3. upvals' = upvals /\ at' = at /\ value' = value
    BY <2>1 DEF switch, code, uvs
  <2>4. QED
    BY <2>2, <2>3, AllHeld
<1>10. QED
  BY <1>3, <1>4, <1>5, <1>6, <1>7, <1>8, <1>9 DEF mutator, Assigns

\* What a closure reads changes only when somebody assigns to the variable: not when the
\* variable is closed, its block is left, its thread ends or is freed, or the slot gets
\* another variable (lfunc.c:83-97, lgc.c:678-722).
THEOREM ReadingsKept == ASSUME JoinSelf = FALSE PROVE Spec => VariablesKept
<1> DEFINE Same == Assigns \/ \A c \in Closures :
                     (Live(c) /\ color'[c] # "free" /\ color'[c] # "dead") => Readings(c)' = Readings(c)
<1>1. ASSUME IInv, Next PROVE Same
  <2>1. SUFFICES ASSUME ~ Assigns, NEW c \in Closures, Live(c) PROVE Readings(c)' = Readings(c)
    OBVIOUS
  <2>2. SameReadings(c)
    BY <1>1, <2>1, MutatorSame, CollectorSame DEF Next
  <2>3. QED
    BY <1>1, <2>2, ReadingsAre, IInvIs
<1>2. IInv /\ [Next]_vars => [Same]_vars
  BY <1>1
<1>3. QED
  BY <1>2, Invariance, PTL DEF VariablesKept, Spec
=============================================================================
