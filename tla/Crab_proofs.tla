---------------------------- MODULE Crab_proofs ----------------------------
(* The dictionary of lua-crab.c: its hash tables lose no key however nodes   *)
(* collide, move and are put in bigger tables, its tables form trees, it has *)
(* the words it was given and stars out the longest of them at each place of *)
(* a message, for any characters, words, lists, messages and number of       *)
(* tables.                                                                   *)
EXTENDS Crab, FiniteSetTheorems, SequenceTheorems, TLAPS

-----------------------------------------------------------------------------
(* Numbers                                                                   *)

\* Induction.
LEMMA AllNumbers ==
  ASSUME NEW S, 0 \in S, \A n \in Nat : n \in S => n + 1 \in S
  PROVE  Nat \subseteq S
<1> DEFINE R == Nat \ S
<1> SUFFICES ASSUME R # {} PROVE FALSE
  OBVIOUS
<1>1. PICK x \in R : \A y \in R : ~ (<<y, x>> \in OpToRel(<, Nat))
  BY NatLessThanWellFounded, WFMin
<1>2. \A y \in R : ~ (y < x)
  BY <1>1 DEF OpToRel
<1>3. x \in Nat \ {0} /\ x \notin S
  OBVIOUS
<1>4. x - 1 \in Nat /\ x - 1 < x /\ (x - 1) + 1 = x
  BY <1>3
<1>5. x - 1 \in S
  BY <1>2, <1>4
<1>6. QED
  BY <1>3, <1>4, <1>5

\* A set of numbers has a least one, and one of bounded numbers a greatest one.
LEMMA Least ==
  ASSUME NEW R \in SUBSET Nat, R # {}
  PROVE  Min(R) \in R /\ \A i \in R : Min(R) <= i
<1>1. PICK x \in R : \A y \in R : ~ (<<y, x>> \in OpToRel(<, Nat))
  BY NatLessThanWellFounded, WFMin
<1>2. \A y \in R : ~ (y < x)
  BY <1>1 DEF OpToRel
<1>3. \A y \in R : x <= y
  <2>1. \A y \in R : y \in Int
    OBVIOUS
  <2>2. QED
    BY <1>2, <2>1
<1>4. QED
  BY <1>3 DEF Min

LEMMA Greatest ==
  ASSUME NEW n \in Int, NEW R \in SUBSET (-1 .. n), R # {}
  PROVE  Max(R) \in R /\ \A i \in R : Max(R) >= i
<1> DEFINE D == {n - i : i \in R}
<1>1. D \in SUBSET Nat /\ D # {}
  <2>1. \A i \in R : n - i \in Nat
    OBVIOUS
  <2>2. QED
    BY <2>1
<1>2. PICK x \in D : \A y \in D : x <= y
  BY <1>1, Least
<1>3. PICK m \in R : x = n - m
  BY <1>2
<1>4. ASSUME NEW i \in R PROVE m >= i
  <2>1. n - m <= n - i
    BY <1>2, <1>3
  <2>2. QED
    BY <2>1
<1>5. QED
  BY <1>3, <1>4 DEF Max

LEMMA Remainder ==
  ASSUME NEW a \in Nat, NEW c \in Nat \ {0}
  PROVE  a % c \in 0 .. c - 1
OBVIOUS

-----------------------------------------------------------------------------
(* Chains                                                                    *)

NodeType == [key : Nat, next : Int, flag : {"empty", "n", "o"}, value : Nat]

\* 'nd' are the nodes of a table of capacity c.
Nodes(nd, c) ==
  /\ c \in Nat \ {0}
  /\ nd \in [0 .. c - 1 -> NodeType]
  /\ \A i \in 0 .. c - 1 : nd[i].next \in -1 .. c - 1
  /\ \A i \in 0 .. c - 1 : nd[i].flag = "empty" => nd[i].next = -1 /\ nd[i].value = 0

Used(nd, c) == {i \in 0 .. c - 1 : nd[i].flag # "empty"}

\* The main position of the node at i.
Home(nd, c, i) == nd[i].key % c

\* Each node is on the chain that starts at its main position, d[i] nodes behind it;
\* chains have no more than m + 1 nodes.
Heads(nd, c) == \A i \in Used(nd, c) : /\ Home(nd, c, i) \in Used(nd, c)
                                       /\ Home(nd, c, Home(nd, c, i)) = Home(nd, c, i)
First(nd, c, d) == \A i \in Used(nd, c) : d[i] = 0 <=> i = Home(nd, c, i)
Linked(nd, c, d, j, i) == nd[j].next = i /\ Home(nd, c, j) = Home(nd, c, i) /\ d[i] = d[j] + 1
Preceded(nd, c, d) == \A i \in Used(nd, c) :
                        i # Home(nd, c, i) => \E j \in Used(nd, c) : Linked(nd, c, d, j, i)
Followed(nd, c, d) == \A j \in Used(nd, c) :
                        nd[j].next # -1 => nd[j].next \in Used(nd, c) /\ Linked(nd, c, d, j, nd[j].next)
Keys(nd, c) == \A i, j \in Used(nd, c) : nd[i].key = nd[j].key => i = j
Chains(nd, c, d, m) ==
  /\ m \in Nat /\ d \in [0 .. c - 1 -> 0 .. m]
  /\ Heads(nd, c) /\ First(nd, c, d) /\ Preceded(nd, c, d) /\ Followed(nd, c, d) /\ Keys(nd, c)

LEMMA HomeIs ==
  ASSUME NEW nd, NEW c, Nodes(nd, c), NEW i \in 0 .. c - 1
  PROVE  Home(nd, c, i) \in 0 .. c - 1
<1>1. nd[i].key \in Nat /\ c \in Nat \ {0}
  BY DEF Nodes, NodeType
<1>2. QED
  BY <1>1, Remainder DEF Home

\* A chain has one node at each distance.
LEMMA OneAtEach ==
  ASSUME NEW nd, NEW c, NEW d, NEW m, Nodes(nd, c), Chains(nd, c, d, m),
         NEW i \in Used(nd, c), NEW j \in Used(nd, c),
         Home(nd, c, i) = Home(nd, c, j), d[i] = d[j]
  PROVE  i = j
<1> DEFINE S == {n \in Nat : \A x, y \in Used(nd, c) :
                   Home(nd, c, x) = Home(nd, c, y) /\ d[x] = n /\ d[y] = n => x = y}
<1>1. 0 \in S
  BY DEF Chains, First
<1>2. ASSUME NEW n \in Nat, n \in S PROVE n + 1 \in S
  <2>1. SUFFICES ASSUME NEW x \in Used(nd, c), NEW y \in Used(nd, c),
                        Home(nd, c, x) = Home(nd, c, y), d[x] = n + 1, d[y] = n + 1
                 PROVE  x = y
    OBVIOUS
  <2>2. x # Home(nd, c, x) /\ y # Home(nd, c, y)
    <3>1. d[x] # 0 /\ d[y] # 0
      BY <2>1
    <3>2. QED
      BY <3>1 DEF Chains, First
  <2>3. PICK p \in Used(nd, c) : Linked(nd, c, d, p, x)
    BY <2>2 DEF Chains, Preceded
  <2>4. PICK q \in Used(nd, c) : Linked(nd, c, d, q, y)
    BY <2>2 DEF Chains, Preceded
  <2>5. d[p] \in Nat /\ d[q] \in Nat
    <3>1. p \in 0 .. c - 1 /\ q \in 0 .. c - 1
      BY DEF Used
    <3>2. d \in [0 .. c - 1 -> 0 .. m] /\ m \in Nat
      BY DEF Chains
    <3>3. QED
      BY <3>1, <3>2
  <2>6. d[p] = n /\ d[q] = n /\ Home(nd, c, p) = Home(nd, c, q)
    BY <2>1, <2>3, <2>4, <2>5 DEF Linked
  <2>7. p = q
    BY <1>2, <2>6
  <2>8. QED
    BY <2>3, <2>4, <2>7 DEF Linked
<1>3. d[i] \in Nat
  <2>1. i \in 0 .. c - 1 /\ d \in [0 .. c - 1 -> 0 .. m] /\ m \in Nat
    BY DEF Chains, Used
  <2>2. QED
    BY <2>1
<1>4. d[i] \in S
  <2> HIDE DEF S
  <2>1. Nat \subseteq S
    BY <1>1, <1>2, AllNumbers
  <2>2. QED
    BY <1>3, <2>1
<1>5. QED
  BY <1>4

\* Where nodes are and how far behind.
LEMMA Distances ==
  ASSUME NEW nd, NEW c, NEW d, NEW m, Nodes(nd, c), Chains(nd, c, d, m), NEW i \in Used(nd, c)
  PROVE  /\ i \in 0 .. c - 1 /\ d[i] \in Nat /\ d[i] <= m /\ Home(nd, c, i) \in 0 .. c - 1
         /\ nd[i] \in NodeType /\ nd[i].next \in -1 .. c - 1
<1>1. i \in 0 .. c - 1 /\ d \in [0 .. c - 1 -> 0 .. m] /\ m \in Nat
  BY DEF Chains, Used
<1>2. d[i] \in Nat /\ d[i] <= m
  BY <1>1
<1>3. Home(nd, c, i) \in 0 .. c - 1
  BY <1>1, HomeIs
<1>4. QED
  BY <1>1, <1>2, <1>3 DEF Nodes

-----------------------------------------------------------------------------
(* Walks along chains                                                        *)

\* What walk w returns from each node of a table: that of R where the walk stops, in X,
\* and before that what it returns from the next node.
Walk(nd, c, X, R, w) == w = [j \in 0 .. c - 1 |-> IF j \in X THEN R[j] ELSE w[nd[j].next]]

\* A walk that stops at the ends of chains returns.
LEMMA WalkReturns ==
  ASSUME NEW nd, NEW c, NEW d, NEW m, Nodes(nd, c), Chains(nd, c, d, m),
         NEW X, NEW R, \A j \in 0 .. c - 1 : nd[j].next = -1 => j \in X
  PROVE  \E w : Walk(nd, c, X, R, w)
<1> DEFINE Covered(n, j) == j \in Used(nd, c) => d[j] + n > m
           Good(n, w) == /\ w = [j \in 0 .. c - 1 |-> w[j]]
                         /\ \A j \in 0 .. c - 1 : Covered(n, j) =>
                              w[j] = IF j \in X THEN R[j] ELSE w[nd[j].next]
           S == {n \in Nat : \E w : Good(n, w)}
<1>1. m \in Nat /\ \A j \in 0 .. c - 1 : d[j] \in 0 .. m
  BY DEF Chains
<1>2. ASSUME NEW j \in 0 .. c - 1, j \notin X
      PROVE  /\ j \in Used(nd, c) /\ nd[j].next \in Used(nd, c) /\ nd[j].next \in 0 .. c - 1
             /\ d[nd[j].next] = d[j] + 1
  <2>1. nd[j].next # -1
    BY <1>2
  <2>2. j \in Used(nd, c)
    BY <2>1 DEF Nodes, Used
  <2>3. nd[j].next \in Used(nd, c) /\ d[nd[j].next] = d[j] + 1
    BY <2>1, <2>2 DEF Chains, Followed, Linked
  <2>4. QED
    BY <2>2, <2>3 DEF Used
<1>3. 0 \in S
  <2>1. PICK w : w = [j \in 0 .. c - 1 |-> R[j]]
    OBVIOUS
  <2>2. ASSUME NEW j \in 0 .. c - 1, Covered(0, j) PROVE w[j] = IF j \in X THEN R[j] ELSE w[nd[j].next]
    <3>1. j \notin Used(nd, c)
      BY <1>1, <2>2
    <3>2. j \in X
      BY <1>2, <3>1
    <3>3. QED
      BY <2>1, <3>2
  <2>3. Good(0, w)
    BY <2>1, <2>2
  <2>4. QED
    BY <2>3
<1>4. ASSUME NEW n \in Nat, n \in S PROVE n + 1 \in S
  <2>1. PICK w : Good(n, w)
    BY <1>4
  <2>2. PICK v : v = [j \in 0 .. c - 1 |-> IF Covered(n, j) THEN w[j]
                                           ELSE IF j \in X THEN R[j] ELSE w[nd[j].next]]
    OBVIOUS
  <2>3. ASSUME NEW j \in 0 .. c - 1, Covered(n + 1, j)
        PROVE  v[j] = IF j \in X THEN R[j] ELSE v[nd[j].next]
    <3>1. CASE j \in X
      <4>1. v[j] = IF Covered(n, j) THEN w[j] ELSE R[j]
        BY <2>2, <3>1
      <4>2. Covered(n, j) => w[j] = R[j]
        BY <2>1, <3>1
      <4>3. QED
        BY <3>1, <4>1, <4>2
    <3>2. CASE j \notin X
      <4> DEFINE k == nd[j].next
      <4>1. j \in Used(nd, c) /\ k \in Used(nd, c) /\ k \in 0 .. c - 1 /\ d[k] = d[j] + 1
        BY <1>2, <3>2
      <4>2. d[j] + (n + 1) > m /\ d[j] \in Nat
        BY <1>1, <2>3, <4>1
      <4>3. d[k] + n > m
        BY <1>1, <4>1, <4>2
      <4>4. Covered(n, k)
        BY <4>3
      <4>5. v[k] = w[k]
        BY <2>2, <4>1, <4>4
      <4>6. v[j] = w[k]
        <5>1. CASE Covered(n, j)
          <6>1. v[j] = w[j]
            BY <2>2, <5>1
          <6>2. w[j] = w[k]
            BY <2>1, <3>2, <5>1
          <6>3. QED
            BY <6>1, <6>2
        <5>2. CASE ~ Covered(n, j)
          BY <2>2, <3>2, <5>2
        <5>3. QED
          BY <5>1, <5>2
      <4>7. QED
        BY <3>2, <4>5, <4>6
    <3>3. QED
      BY <3>1, <3>2
  <2>4. v = [j \in 0 .. c - 1 |-> v[j]]
    BY <2>2
  <2>5. \A j \in 0 .. c - 1 : Covered(n + 1, j) => v[j] = IF j \in X THEN R[j] ELSE v[nd[j].next]
    BY <2>3
  <2> HIDE DEF Covered
  <2>6. Good(n + 1, v)
    BY <2>4, <2>5
  <2>7. n + 1 \in Nat
    OBVIOUS
  <2> HIDE DEF Good
  <2>8. QED
    BY <2>6, <2>7
<1>5. m + 1 \in S
  <2> HIDE DEF S
  <2>1. Nat \subseteq S
    BY <1>3, <1>4, AllNumbers
  <2>2. QED
    BY <1>1, <2>1
<1>6. PICK w : Good(m + 1, w)
  BY <1>5
<1>7. \A j \in 0 .. c - 1 : Covered(m + 1, j)
  <2>1. ASSUME NEW j \in 0 .. c - 1 PROVE d[j] + (m + 1) > m
    <3>1. d[j] \in Nat /\ m \in Nat
      BY <1>1
    <3>2. QED
      BY <3>1
  <2>2. QED
    BY <2>1
<1>8. \A j \in 0 .. c - 1 : w[j] = IF j \in X THEN R[j] ELSE w[nd[j].next]
  BY <1>6, <1>7
<1>9. Walk(nd, c, X, R, w)
  BY <1>6, <1>8 DEF Walk
<1>10. QED
  BY <1>9

\* A walk that does not stop before node i of a chain gets there from its head.
LEMMA WalkReaches ==
  ASSUME NEW nd, NEW c, NEW d, NEW m, Nodes(nd, c), Chains(nd, c, d, m), NEW w,
         NEW i \in Used(nd, c),
         \A j \in Used(nd, c) : Home(nd, c, j) = Home(nd, c, i) /\ d[j] < d[i] /\ nd[j].next # -1
                                  => w[j] = w[nd[j].next]
  PROVE  w[Home(nd, c, i)] = w[i]
<1> DEFINE Z == {k \in Used(nd, c) : Home(nd, c, k) = Home(nd, c, i) /\ w[k] = w[i]}
           S == {n \in Nat : n <= d[i] => \E k \in Z : d[k] = d[i] - n}
<1>1. d[i] \in Nat
  BY Distances
<1>2. 0 \in S
  BY <1>1
<1>3. ASSUME NEW n \in Nat, n \in S PROVE n + 1 \in S
  <2>1. SUFFICES ASSUME n + 1 <= d[i] PROVE \E k \in Z : d[k] = d[i] - (n + 1)
    OBVIOUS
  <2>2. PICK k \in Z : d[k] = d[i] - n
    BY <1>1, <1>3, <2>1
  <2>3. d[k] # 0
    BY <1>1, <2>1, <2>2
  <2>4. PICK j \in Used(nd, c) : Linked(nd, c, d, j, k)
    BY <2>3 DEF Chains, First, Preceded
  <2>5. nd[j].next = k /\ Home(nd, c, j) = Home(nd, c, i) /\ d[k] = d[j] + 1 /\ d[j] \in Nat
    BY <2>4, Distances DEF Linked
  <2>6. d[j] = d[i] - (n + 1) /\ d[j] < d[i]
    BY <1>1, <2>2, <2>5
  <2>7. nd[j].next # -1
    <3>1. k \in 0 .. c - 1 /\ c \in Nat
      BY DEF Used, Nodes
    <3>2. QED
      BY <2>5, <3>1
  <2>8. w[j] = w[k]
    BY <2>5, <2>6, <2>7
  <2>9. j \in Z
    BY <2>5, <2>8
  <2>10. QED
    BY <2>6, <2>9
<1>4. d[i] \in S
  <2> HIDE DEF S
  <2>1. Nat \subseteq S
    BY <1>2, <1>3, AllNumbers
  <2>2. QED
    BY <1>1, <2>1
<1>5. PICK k \in Z : d[k] = d[i] - d[i]
  BY <1>1, <1>4
<1>6. d[k] = 0
  BY <1>1, <1>5
<1>7. k = Home(nd, c, k)
  BY <1>6 DEF Chains, First
<1>8. QED
  BY <1>7

\* A walk that returns y wherever it stops on a chain returns it from its head.
LEMMA WalkMisses ==
  ASSUME NEW nd, NEW c, NEW d, NEW m, Nodes(nd, c), Chains(nd, c, d, m), NEW w, NEW y, NEW h,
         \A j \in Used(nd, c) : Home(nd, c, j) = h =>
            w[j] = y \/ (nd[j].next # -1 /\ w[j] = w[nd[j].next])
  PROVE  \A j \in Used(nd, c) : Home(nd, c, j) = h => w[j] = y
<1> DEFINE S == {n \in Nat : \A j \in Used(nd, c) : Home(nd, c, j) = h /\ d[j] + n >= m + 1 => w[j] = y}
<1>1. m \in Nat
  BY DEF Chains
<1>2. 0 \in S
  <2>1. \A j \in Used(nd, c) : d[j] \in Nat /\ d[j] <= m
    BY Distances
  <2>2. QED
    BY <1>1, <2>1
<1>3. ASSUME NEW n \in Nat, n \in S PROVE n + 1 \in S
  <2>1. SUFFICES ASSUME NEW j \in Used(nd, c), Home(nd, c, j) = h, d[j] + (n + 1) >= m + 1
                 PROVE  w[j] = y
    OBVIOUS
  <2>2. CASE nd[j].next # -1 /\ w[j] = w[nd[j].next]
    <3> DEFINE k == nd[j].next
    <3>1. k \in Used(nd, c) /\ Home(nd, c, k) = h /\ d[k] = d[j] + 1
      BY <2>1, <2>2 DEF Chains, Followed, Linked
    <3>2. d[j] \in Nat
      BY Distances
    <3>3. d[k] + n >= m + 1
      BY <1>1, <2>1, <3>1, <3>2
    <3>4. w[k] = y
      BY <1>3, <3>1, <3>3
    <3>5. QED
      BY <2>2, <3>4
  <2>3. QED
    BY <2>1, <2>2
<1>4. m + 1 \in S
  <2> HIDE DEF S
  <2>1. Nat \subseteq S
    BY <1>2, <1>3, AllNumbers
  <2>2. QED
    BY <1>1, <2>1
<1>5. ASSUME NEW j \in Used(nd, c), Home(nd, c, j) = h PROVE w[j] = y
  <2>1. d[j] \in Nat
    BY Distances
  <2>2. d[j] + (m + 1) >= m + 1
    BY <1>1, <2>1
  <2>3. QED
    BY <1>4, <1>5, <2>2
<1>6. QED
  BY <1>5

-----------------------------------------------------------------------------
(* Looking up a key                                                          *)

Record(t) == t = [capacity |-> t.capacity, node |-> t.node, lastfree |-> t.lastfree]

\* A table in which every key can be found.
Table(t) ==
  /\ Record(t) /\ Nodes(t.node, t.capacity)
  /\ t.lastfree \in -1 .. t.capacity - 1
  /\ \A i \in t.lastfree + 1 .. t.capacity - 1 : t.node[i].flag # "empty"
  /\ \E d, m : Chains(t.node, t.capacity, d, m)

UsedIn(t) == Used(t.node, t.capacity)

LEMMA TableDomain ==
  ASSUME NEW t, Table(t)
  PROVE  /\ DOMAIN t.node = 0 .. t.capacity - 1 /\ t.capacity \in Nat \ {0}
         /\ UsedIn(t) = {i \in 0 .. t.capacity - 1 : ~ tisnil(t.node[i])}
BY DEF Table, Nodes, UsedIn, Used, tisnil

\* Where table_get stops, and what it returns there.
GetStops(t, key) == {i \in 0 .. t.capacity - 1 : \/ tisnil(t.node[i]) \/ t.node[i].key = key
                                                 \/ t.node[i].next < 0}
GetReturns(t, key) == [i \in 0 .. t.capacity - 1 |->
                         IF tisnil(t.node[i]) THEN -1 ELSE IF t.node[i].key = key THEN i ELSE -1]

LEMMA GetWalks ==
  ASSUME NEW t, Table(t), NEW key \in Nat
  PROVE  \E w : /\ Walk(t.node, t.capacity, GetStops(t, key), GetReturns(t, key), w)
                /\ table_get(t, key) = w[key % t.capacity]
<1> DEFINE nd == t.node
           c == t.capacity
           X == GetStops(t, key)
           R == GetReturns(t, key)
           Eq(w) == w = [i \in DOMAIN t.node |->
                           IF tisnil(t.node[i]) THEN -1
                           ELSE IF t.node[i].key = key THEN i
                           ELSE IF t.node[i].next < 0 THEN -1
                           ELSE w[t.node[i].next]]
<1>1. DOMAIN nd = 0 .. c - 1
  BY TableDomain
<1>2. ASSUME NEW w PROVE Walk(nd, c, X, R, w) <=> Eq(w)
  <2>1. [i \in 0 .. c - 1 |-> IF i \in X THEN R[i] ELSE w[nd[i].next]]
        = [i \in DOMAIN t.node |->
             IF tisnil(t.node[i]) THEN -1
             ELSE IF t.node[i].key = key THEN i
             ELSE IF t.node[i].next < 0 THEN -1
             ELSE w[t.node[i].next]]
    <3>1. ASSUME NEW i \in 0 .. c - 1
          PROVE  (IF i \in X THEN R[i] ELSE w[nd[i].next])
                 = IF tisnil(t.node[i]) THEN -1
                   ELSE IF t.node[i].key = key THEN i
                   ELSE IF t.node[i].next < 0 THEN -1
                   ELSE w[t.node[i].next]
      BY DEF GetStops, GetReturns
    <3>2. QED
      BY <1>1, <3>1
  <2>2. QED
    BY <2>1 DEF Walk
<1>3. \E w : Walk(nd, c, X, R, w)
  <2>1. PICK d, m : Chains(nd, c, d, m)
    BY DEF Table
  <2>2. Nodes(nd, c)
    BY DEF Table
  <2>3. \A j \in 0 .. c - 1 : nd[j].next = -1 => j \in X
    BY DEF GetStops
  <2> HIDE DEF nd, c, X, R
  <2>4. QED
    BY <2>1, <2>2, <2>3, WalkReturns
<1>4. PICK w : w = CHOOSE v : Eq(v)
  OBVIOUS
<1>5. Eq(w)
  <2> HIDE DEF Eq
  <2>1. \E v : Eq(v)
    BY <1>2, <1>3
  <2>2. QED
    BY <1>4, <2>1
<1>6. table_get(t, key) = w[key % c]
  BY <1>4 DEF table_get, mainposition
<1>7. QED
  <2> HIDE DEF Eq
  <2>1. Walk(nd, c, X, R, w)
    BY <1>2, <1>5
  <2>2. QED
    BY <1>6, <2>1

\* A key is found at its node.
LEMMA GetFinds ==
  ASSUME NEW t, Table(t), NEW i \in UsedIn(t)
  PROVE  table_get(t, t.node[i].key) = i
<1>1. PICK nd, c, key : nd = t.node /\ c = t.capacity /\ key = t.node[i].key
  OBVIOUS
<1>2. Nodes(nd, c) /\ i \in Used(nd, c) /\ nd[i].key = key
  BY <1>1 DEF Table, UsedIn
<1>3. PICK d, m : Chains(nd, c, d, m)
  BY <1>1 DEF Table
<1>4. key \in Nat /\ i \in 0 .. c - 1
  BY <1>2, <1>3, Distances DEF NodeType
<1>5. PICK w : /\ Walk(nd, c, GetStops(t, key), GetReturns(t, key), w)
               /\ table_get(t, key) = w[key % c]
  BY <1>1, <1>4, GetWalks
<1>6. w[i] = i
  <2>1. i \in GetStops(t, key) /\ GetReturns(t, key)[i] = i
    BY <1>1, <1>2, <1>4 DEF GetStops, GetReturns, Used, tisnil
  <2>2. QED
    BY <1>4, <1>5, <2>1 DEF Walk
<1>7. ASSUME NEW j \in Used(nd, c), d[j] < d[i], nd[j].next # -1 PROVE w[j] = w[nd[j].next]
  <2>1. j \in 0 .. c - 1 /\ nd[j].next \in -1 .. c - 1 /\ d[j] \in Nat
    BY <1>2, <1>3, Distances
  <2>2. nd[j].key # key
    <3>1. j # i
      BY <1>7, <2>1
    <3>2. QED
      BY <1>2, <1>3, <3>1 DEF Chains, Keys
  <2>3. c \in Nat
    BY <1>2 DEF Nodes
  <2>4. ~ (nd[j].next < 0)
    BY <1>7, <2>1, <2>3
  <2>5. j \notin GetStops(t, key)
    BY <1>1, <2>2, <2>4 DEF GetStops, Used, tisnil
  <2>6. QED
    BY <1>5, <2>1, <2>5 DEF Walk
<1>8. w[Home(nd, c, i)] = w[i]
  BY <1>2, <1>3, <1>7, WalkReaches
<1>9. Home(nd, c, i) = key % c
  BY <1>2 DEF Home
<1>10. QED
  BY <1>1, <1>5, <1>6, <1>8, <1>9

\* A key that is in no node is not found.
LEMMA GetMisses ==
  ASSUME NEW t, Table(t), NEW key \in Nat, \A i \in UsedIn(t) : t.node[i].key # key
  PROVE  table_get(t, key) = -1
<1>1. PICK nd, c : nd = t.node /\ c = t.capacity
  OBVIOUS
<1>2. Nodes(nd, c) /\ \A i \in Used(nd, c) : nd[i].key # key
  BY <1>1 DEF Table, UsedIn
<1>3. PICK d, m : Chains(nd, c, d, m)
  BY <1>1 DEF Table
<1>4. PICK w : /\ Walk(nd, c, GetStops(t, key), GetReturns(t, key), w)
               /\ table_get(t, key) = w[key % c]
  BY <1>1, GetWalks
<1>5. PICK h : h = key % c
  OBVIOUS
<1>6. h \in 0 .. c - 1
  <2>1. c \in Nat \ {0}
    BY <1>2 DEF Nodes
  <2>2. QED
    BY <1>5, <2>1, Remainder
<1>7. CASE h \notin Used(nd, c)
  <2>1. tisnil(nd[h])
    BY <1>6, <1>7 DEF Used, tisnil
  <2>2. h \in GetStops(t, key) /\ GetReturns(t, key)[h] = -1
    BY <1>1, <1>6, <2>1 DEF GetStops, GetReturns
  <2>3. QED
    BY <1>4, <1>5, <1>6, <2>2 DEF Walk
<1>8. CASE h \in Used(nd, c)
  <2>1. ASSUME NEW j \in Used(nd, c)
        PROVE  w[j] = -1 \/ (nd[j].next # -1 /\ w[j] = w[nd[j].next])
    <3>1. j \in 0 .. c - 1 /\ nd[j].next \in -1 .. c - 1
      BY <1>2, <1>3, Distances
    <3>2. CASE nd[j].next < 0
      <4>1. j \in GetStops(t, key) /\ GetReturns(t, key)[j] = -1
        BY <1>1, <1>2, <3>1, <3>2 DEF GetStops, GetReturns
      <4>2. QED
        BY <1>4, <3>1, <4>1 DEF Walk
    <3>3. CASE ~ (nd[j].next < 0)
      <4>1. j \notin GetStops(t, key)
        BY <1>1, <1>2, <3>3 DEF GetStops, Used, tisnil
      <4>2. nd[j].next # -1
        BY <3>3
      <4>3. QED
        BY <1>4, <3>1, <4>1, <4>2 DEF Walk
    <3>4. QED
      BY <3>2, <3>3
  <2>2. \A j \in Used(nd, c) : Home(nd, c, j) = Home(nd, c, h) => w[j] = -1
    BY <1>2, <1>3, <2>1, WalkMisses
  <2>3. w[h] = -1
    BY <1>8, <2>2
  <2>4. QED
    BY <1>4, <1>5, <2>3
<1>9. QED
  BY <1>7, <1>8

\* What table_get returns: no key is in two nodes.
LEMMA GetIs ==
  ASSUME NEW t, Table(t), NEW key \in Nat
  PROVE  \/ table_get(t, key) \in UsedIn(t) /\ t.node[table_get(t, key)].key = key
         \/ table_get(t, key) = -1 /\ \A i \in UsedIn(t) : t.node[i].key # key
<1>1. CASE \E i \in UsedIn(t) : t.node[i].key = key
  <2>1. PICK i \in UsedIn(t) : t.node[i].key = key
    BY <1>1
  <2>2. table_get(t, key) = i
    BY <2>1, GetFinds
  <2>3. QED
    BY <2>1, <2>2
<1>2. CASE ~ \E i \in UsedIn(t) : t.node[i].key = key
  BY <1>2, GetMisses
<1>3. QED
  BY <1>1, <1>2

-----------------------------------------------------------------------------
(* What table_newkey looks for                                               *)

\* The node before one that is not in its main position.
LEMMA BeforeIs ==
  ASSUME NEW t, Table(t), NEW h \in UsedIn(t), NEW p, p = Home(t.node, t.capacity, h), p # h
  PROVE  /\ Before(t, p, h) \in UsedIn(t) /\ t.node[Before(t, p, h)].next = h
         /\ \A j \in UsedIn(t) : t.node[j].next = h => j = Before(t, p, h)
<1>1. PICK nd, c : nd = t.node /\ c = t.capacity
  OBVIOUS
<1>2. Nodes(nd, c) /\ h \in Used(nd, c) /\ p = Home(nd, c, h) /\ DOMAIN nd = 0 .. c - 1
  BY <1>1, TableDomain DEF Table, UsedIn
<1>3. PICK d, m : Chains(nd, c, d, m)
  BY <1>1 DEF Table
<1>4. PICK b \in Used(nd, c) : Linked(nd, c, d, b, h)
  BY <1>2, <1>3 DEF Chains, Preceded
<1>5. nd[b].next = h /\ Home(nd, c, b) = p /\ d[h] = d[b] + 1 /\ d[b] \in Nat /\ b \in 0 .. c - 1
      /\ h \in 0 .. c - 1 /\ c \in Nat
  BY <1>2, <1>3, <1>4, Distances DEF Linked, Nodes
<1>6. ASSUME NEW j \in Used(nd, c), nd[j].next = h PROVE j = b
  <2>1. nd[j].next # -1
    BY <1>5, <1>6
  <2>2. Linked(nd, c, d, j, h)
    BY <1>3, <1>6, <2>1 DEF Chains, Followed
  <2>3. Home(nd, c, j) = Home(nd, c, b) /\ d[j] = d[b]
    <3>1. d[h] = d[j] + 1 /\ d[j] \in Nat /\ Home(nd, c, j) = Home(nd, c, h)
      BY <1>2, <1>3, <2>2, Distances DEF Linked
    <3>2. QED
      BY <1>2, <1>5, <3>1
  <2>4. QED
    BY <1>2, <1>3, <2>3, OneAtEach
<1> DEFINE X == {j \in 0 .. c - 1 : nd[j].next \in {h, -1}}
           R == [j \in 0 .. c - 1 |-> j]
           Eq(w) == w = [j \in DOMAIN t.node |->
                           IF t.node[j].next \in {h, -1} THEN j ELSE w[t.node[j].next]]
<1>7. ASSUME NEW w PROVE Walk(nd, c, X, R, w) <=> Eq(w)
  <2>1. [j \in 0 .. c - 1 |-> IF j \in X THEN R[j] ELSE w[nd[j].next]]
        = [j \in DOMAIN t.node |-> IF t.node[j].next \in {h, -1} THEN j ELSE w[t.node[j].next]]
    BY <1>1, <1>2
  <2>2. QED
    BY <2>1 DEF Walk
<1>8. PICK w : w = CHOOSE v : Eq(v)
  OBVIOUS
<1>9. Walk(nd, c, X, R, w)
  <2>1. \A j \in 0 .. c - 1 : nd[j].next = -1 => j \in X
    OBVIOUS
  <2> HIDE DEF Eq, X, R
  <2>2. \E v : Walk(nd, c, X, R, v)
    BY <1>2, <1>3, <2>1, WalkReturns
  <2>3. \E v : Eq(v)
    BY <1>7, <2>2
  <2>4. Eq(w)
    BY <1>8, <2>3
  <2>5. QED
    BY <1>7, <2>4
<1>10. Before(t, p, h) = w[p]
  BY <1>8 DEF Before
<1>11. w[b] = b
  <2>1. b \in X /\ R[b] = b
    BY <1>5
  <2>2. QED
    BY <1>5, <1>9, <2>1 DEF Walk
<1>12. ASSUME NEW j \in Used(nd, c), d[j] < d[b], nd[j].next # -1 PROVE w[j] = w[nd[j].next]
  <2>1. nd[j].next # h
    <3>1. j # b
      BY <1>5, <1>12
    <3>2. QED
      BY <1>6, <3>1
  <2>2. j \in 0 .. c - 1 /\ j \notin X
    BY <1>12, <2>1 DEF Used
  <2> HIDE DEF X, R
  <2>3. QED
    BY <1>9, <2>2 DEF Walk
<1>13. w[Home(nd, c, b)] = w[b]
  <2> HIDE DEF X, R, Eq
  <2>1. \A j \in Used(nd, c) : Home(nd, c, j) = Home(nd, c, b) /\ d[j] < d[b] /\ nd[j].next # -1
                                 => w[j] = w[nd[j].next]
    BY <1>12
  <2>2. Nodes(nd, c) /\ Chains(nd, c, d, m)
    BY <1>2, <1>3
  <2>3. QED
    BY <2>1, <2>2, WalkReaches
<1>14. Before(t, p, h) = b
  BY <1>5, <1>10, <1>11, <1>13
<1>15. QED
  BY <1>1, <1>4, <1>5, <1>6, <1>14 DEF UsedIn

\* The free node: all behind it are in use.
LEMMA FreeIs ==
  ASSUME NEW t, Table(t), NEW n, n = getfreenode(t)
  PROVE  /\ \/ n \in 0 .. t.capacity - 1 /\ n <= t.lastfree /\ tisnil(t.node[n])
            \/ n = -1
         /\ \A i \in n + 1 .. t.capacity - 1 : ~ tisnil(t.node[i])
<1>1. PICK nd, c, l : nd = t.node /\ c = t.capacity /\ l = t.lastfree
  OBVIOUS
<1>2. c \in Nat \ {0} /\ l \in -1 .. c - 1 /\ \A i \in l + 1 .. c - 1 : ~ tisnil(nd[i])
  BY <1>1 DEF Table, Nodes, tisnil
<1> DEFINE F == {-1} \cup {i \in 0 .. l : tisnil(nd[i])}
<1>3. n = Max(F)
  BY <1>1 DEF getfreenode
<1>4. l \in Int /\ F \in SUBSET (-1 .. l) /\ F # {}
  <2>1. l \in Int /\ -1 \in -1 .. l
    BY <1>2
  <2>2. 0 .. l \subseteq -1 .. l
    BY <2>1
  <2>3. QED
    BY <2>1, <2>2
<1>5. Max(F) \in F /\ \A i \in F : Max(F) >= i
  <2> HIDE DEF F
  <2>1. QED
    BY <1>4, Greatest
<1>6. \/ n \in 0 .. c - 1 /\ n <= l /\ tisnil(nd[n])
      \/ n = -1
  BY <1>2, <1>3, <1>5
<1>7. ASSUME NEW i \in n + 1 .. c - 1 PROVE ~ tisnil(nd[i])
  <2>1. n \in Int /\ n >= -1
    BY <1>2, <1>6
  <2>2. i \notin F
    <3>1. ~ (n >= i)
      BY <1>2, <2>1
    <3>2. QED
      BY <1>3, <1>5, <3>1
  <2>3. i \in 0 .. c - 1
    BY <1>2, <2>1
  <2>4. i \notin 0 .. l => i \in l + 1 .. c - 1
    BY <1>2, <2>3
  <2>5. QED
    BY <1>2, <2>2, <2>4
<1>8. QED
  BY <1>1, <1>6, <1>7

\* A node gets a key.
Marked(nd, at, key) == [nd EXCEPT ![at].key = key, ![at].flag = "n"]

NodeFcn(nd, c) == nd \in [0 .. c - 1 -> NodeType]
IsMarked(md, nd, c, at, key) ==
  /\ md \in [0 .. c - 1 -> NodeType]
  /\ md[at] = [key |-> key, next |-> nd[at].next, flag |-> "n", value |-> nd[at].value]
  /\ \A i \in 0 .. c - 1 : i # at => md[i] = nd[i]

LEMMA MarkedIs ==
  ASSUME NEW nd, NEW c, NodeFcn(nd, c), NEW at \in 0 .. c - 1, NEW key \in Nat
  PROVE  IsMarked(Marked(nd, at, key), nd, c, at, key)
<1> USE DEF NodeFcn
<1>1. nd[at] \in NodeType
  OBVIOUS
<1>2. Marked(nd, at, key)[at] = [key |-> key, next |-> nd[at].next, flag |-> "n", value |-> nd[at].value]
  BY <1>1 DEF Marked, NodeType
<1>3. [key |-> key, next |-> nd[at].next, flag |-> "n", value |-> nd[at].value] \in NodeType
  BY <1>1 DEF NodeType
<1>4. \A i \in 0 .. c - 1 : i # at => Marked(nd, at, key)[i] = nd[i]
  BY DEF Marked
<1>5. DOMAIN Marked(nd, at, key) = 0 .. c - 1 /\ Marked(nd, at, key) = [i \in 0 .. c - 1 |-> Marked(nd, at, key)[i]]
  BY DEF Marked
<1>6. \A i \in 0 .. c - 1 : Marked(nd, at, key)[i] \in NodeType
  BY <1>2, <1>3, <1>4
<1>7. QED
  BY <1>2, <1>4, <1>5, <1>6 DEF IsMarked

-----------------------------------------------------------------------------
(* A key in a free node                                                      *)

\* Two nodes with the same contents.
Same(a, b) == a.key = b.key /\ a.flag = b.flag /\ a.value = b.value

\* The nodes md are those of nd, some of which may have moved, and a new one at 'at'
\* with the key; x is in use and was not.
Added(nd, c, md, at, key, x) ==
  /\ Nodes(md, c) /\ \E d, m : Chains(md, c, d, m)
  /\ x \in 0 .. c - 1 /\ x \notin Used(nd, c) /\ Used(md, c) = Used(nd, c) \cup {x}
  /\ at \in Used(md, c) /\ md[at].key = key /\ md[at].flag = "n" /\ md[at].value = 0
  /\ \A i \in Used(nd, c) : \E j \in Used(md, c) : j # at /\ Same(nd[i], md[j])
  /\ \A j \in Used(md, c) : j # at => \E i \in Used(nd, c) : Same(nd[i], md[j])

\* Its main position is free: the key starts a chain.
LEMMA InHome ==
  ASSUME NEW nd, NEW c, NEW d, NEW m, Nodes(nd, c), Chains(nd, c, d, m), NEW key \in Nat, NEW h,
         h = key % c, h \notin Used(nd, c), \A i \in Used(nd, c) : nd[i].key # key
  PROVE  Added(nd, c, Marked(nd, h, key), h, key, h)
<1>1. PICK md : md = Marked(nd, h, key)
  OBVIOUS
<1>2. c \in Nat \ {0} /\ nd \in [0 .. c - 1 -> NodeType]
  BY DEF Nodes
<1>3. h \in 0 .. c - 1
  BY <1>2, Remainder
<1>4. nd[h].next = -1 /\ nd[h].value = 0
  BY <1>3 DEF Nodes, Used
<1>5. /\ md \in [0 .. c - 1 -> NodeType]
      /\ md[h].key = key /\ md[h].next = -1 /\ md[h].flag = "n" /\ md[h].value = 0
      /\ \A i \in 0 .. c - 1 : i # h => md[i] = nd[i]
  <2>1. IsMarked(md, nd, c, h, key)
    BY <1>1, <1>2, <1>3, MarkedIs DEF NodeFcn
  <2>2. /\ md \in [0 .. c - 1 -> NodeType]
        /\ md[h] = [key |-> key, next |-> -1, flag |-> "n", value |-> 0]
        /\ \A i \in 0 .. c - 1 : i # h => md[i] = nd[i]
    BY <1>4, <2>1 DEF IsMarked
  <2>3. QED
    BY <2>2
<1>6. Nodes(md, c)
  <2>1. \A i \in 0 .. c - 1 : md[i].next \in -1 .. c - 1
    <3>1. -1 \in -1 .. c - 1
      BY <1>2
    <3>2. \A i \in 0 .. c - 1 : nd[i].next \in -1 .. c - 1
      BY DEF Nodes
    <3>3. QED
      BY <1>5, <3>1, <3>2
  <2>2. \A i \in 0 .. c - 1 : nd[i].flag = "empty" => nd[i].next = -1 /\ nd[i].value = 0
    BY DEF Nodes
  <2>3. \A i \in 0 .. c - 1 : md[i].flag = "empty" => md[i].next = -1 /\ md[i].value = 0
    BY <1>5, <2>2
  <2>4. QED
    BY <1>2, <1>5, <2>1, <2>3 DEF Nodes
<1>7. Used(md, c) = Used(nd, c) \cup {h}
  BY <1>3, <1>5 DEF Used
<1>8. \A i \in Used(nd, c) : i \in 0 .. c - 1 /\ i # h /\ md[i] = nd[i] /\ Home(md, c, i) = Home(nd, c, i)
  BY <1>5 DEF Used, Home
<1>9. Home(md, c, h) = h
  BY <1>5 DEF Home
<1>10. PICK e : e = [d EXCEPT ![h] = 0]
  OBVIOUS
<1>11. /\ m \in Nat /\ e \in [0 .. c - 1 -> 0 .. m] /\ e[h] = 0 /\ \A i \in Used(nd, c) : e[i] = d[i]
  <2>1. m \in Nat /\ d \in [0 .. c - 1 -> 0 .. m]
    BY DEF Chains
  <2>2. 0 \in 0 .. m
    BY <2>1
  <2>3. QED
    BY <1>3, <1>8, <1>10, <2>1, <2>2
<1>12. \A i \in Used(nd, c) : Home(nd, c, i) \in Used(nd, c) /\ Home(nd, c, i) # h
  BY DEF Chains, Heads
<1>13. Heads(md, c)
  BY <1>7, <1>8, <1>9, <1>12 DEF Heads, Chains
<1>14. First(md, c, e)
  BY <1>7, <1>8, <1>9, <1>11 DEF First, Chains
<1>15. \A i, j \in Used(nd, c) : Linked(nd, c, d, j, i) => Linked(md, c, e, j, i)
  BY <1>8, <1>11 DEF Linked
<1>16. Preceded(md, c, e)
  BY <1>7, <1>8, <1>9, <1>15 DEF Preceded, Chains
<1>17. Followed(md, c, e)
  BY <1>5, <1>7, <1>8, <1>15 DEF Followed, Chains
<1>18. Keys(md, c)
  BY <1>5, <1>7, <1>8 DEF Keys, Chains
<1>19. Chains(md, c, e, m)
  BY <1>11, <1>13, <1>14, <1>16, <1>17, <1>18 DEF Chains
<1>20. Added(nd, c, md, h, key, h)
  <2>1. Nodes(md, c) /\ \E a, l : Chains(md, c, a, l)
    BY <1>6, <1>19, Zenon
  <2>2. \A i \in Used(nd, c) : Same(nd[i], md[i]) /\ i # h
    BY <1>8 DEF Same
  <2>3. h \in 0 .. c - 1 /\ h \notin Used(nd, c) /\ h \in Used(md, c)
    BY <1>3, <1>7
  <2>4. md[h].key = key /\ md[h].flag = "n" /\ md[h].value = 0
    BY <1>5
  <2>5. \A i \in Used(nd, c) : \E j \in Used(md, c) : j # h /\ Same(nd[i], md[j])
    BY <1>7, <2>2, Zenon
  <2>6. \A j \in Used(md, c) : j # h => \E i \in Used(nd, c) : Same(nd[i], md[j])
    BY <1>7, <2>2, Zenon
  <2>7. QED
    BY <1>7, <2>1, <2>3, <2>4, <2>5, <2>6, Zenon DEF Added
<1>21. QED
  BY <1>1, <1>20, Zenon

\* Its main position holds a key that belongs there: the new node comes behind it.
LEMMA BehindHome ==
  ASSUME NEW nd, NEW c, NEW d, NEW m, Nodes(nd, c), Chains(nd, c, d, m), NEW key \in Nat, NEW h,
         h = key % c, h \in Used(nd, c), Home(nd, c, h) = h, NEW n \in 0 .. c - 1, n \notin Used(nd, c),
         \A i \in Used(nd, c) : nd[i].key # key
  PROVE  Added(nd, c, Marked([nd EXCEPT ![n].next = nd[h].next, ![h].next = n], n, key), n, key, n)
<1>1. PICK ld : ld = [nd EXCEPT ![n].next = nd[h].next, ![h].next = n]
  OBVIOUS
<1>2. PICK md : md = Marked(ld, n, key)
  OBVIOUS
<1>3. c \in Nat \ {0} /\ nd \in [0 .. c - 1 -> NodeType] /\ h \in 0 .. c - 1 /\ h # n
  BY DEF Nodes, Used
<1>4. nd[n].next = -1 /\ nd[n].value = 0
  BY DEF Nodes, Used
<1>5. nd[h].next \in -1 .. c - 1 /\ nd[h] \in NodeType /\ nd[n] \in NodeType
  BY <1>3 DEF Nodes
<1>6. /\ ld \in [0 .. c - 1 -> NodeType]
      /\ ld[n].next = nd[h].next /\ ld[n].value = 0
      /\ ld[h].next = n /\ Same(nd[h], ld[h])
      /\ \A i \in 0 .. c - 1 : i # n /\ i # h => ld[i] = nd[i]
  <2>1. ld[n] = [nd[n] EXCEPT !.next = nd[h].next]
    BY <1>1, <1>3
  <2>2. ld[h] = [nd[h] EXCEPT !.next = n]
    BY <1>1, <1>3
  <2>3. \A i \in 0 .. c - 1 : i # n /\ i # h => ld[i] = nd[i]
    BY <1>1, <1>3
  <2>4. nd[h].next \in Int /\ n \in Int
    BY <1>3, <1>5
  <2>5. ld[n] \in NodeType /\ ld[n].next = nd[h].next /\ ld[n].value = 0
    BY <1>4, <1>5, <2>1, <2>4 DEF NodeType
  <2>6. ld[h] \in NodeType /\ ld[h].next = n /\ Same(nd[h], ld[h])
    BY <1>5, <2>2, <2>4 DEF NodeType, Same
  <2>7. ld = [i \in 0 .. c - 1 |-> ld[i]]
    BY <1>1, <1>3
  <2>8. \A i \in 0 .. c - 1 : ld[i] \in NodeType
    BY <1>3, <2>3, <2>5, <2>6
  <2>9. QED
    BY <2>3, <2>5, <2>6, <2>7, <2>8
<1>7. /\ md \in [0 .. c - 1 -> NodeType]
      /\ md[n].key = key /\ md[n].next = nd[h].next /\ md[n].flag = "n" /\ md[n].value = 0
      /\ md[h].next = n /\ Same(nd[h], md[h])
      /\ \A i \in 0 .. c - 1 : i # n /\ i # h => md[i] = nd[i]
  <2>1. IsMarked(md, ld, c, n, key)
    BY <1>2, <1>6, MarkedIs DEF NodeFcn
  <2>2. /\ md \in [0 .. c - 1 -> NodeType]
        /\ md[n] = [key |-> key, next |-> nd[h].next, flag |-> "n", value |-> 0]
        /\ \A i \in 0 .. c - 1 : i # n => md[i] = ld[i]
    BY <1>6, <2>1 DEF IsMarked
  <2>3. md[h] = ld[h]
    BY <1>3, <2>2
  <2>4. QED
    BY <1>6, <2>2, <2>3
<1>8. \A i \in 0 .. c - 1 : i # n => Same(nd[i], md[i]) /\ Home(md, c, i) = Home(nd, c, i)
  <2>1. ASSUME NEW i \in 0 .. c - 1, i # n PROVE Same(nd[i], md[i])
    BY <1>7, <2>1 DEF Same
  <2>2. QED
    BY <2>1 DEF Same, Home
<1>9. Nodes(md, c)
  <2>1. \A i \in 0 .. c - 1 : nd[i].next \in -1 .. c - 1
    BY DEF Nodes
  <2>2. n \in -1 .. c - 1
    BY <1>3
  <2>3. \A i \in 0 .. c - 1 : md[i].next \in -1 .. c - 1
    BY <1>5, <1>7, <2>1, <2>2
  <2>4. \A i \in 0 .. c - 1 : nd[i].flag = "empty" => nd[i].next = -1 /\ nd[i].value = 0
    BY DEF Nodes
  <2>5. md[h].flag # "empty"
    BY <1>7 DEF Same, Used
  <2>6. \A i \in 0 .. c - 1 : md[i].flag = "empty" => md[i].next = -1 /\ md[i].value = 0
    BY <1>7, <2>4, <2>5
  <2>7. QED
    BY <1>3, <1>7, <2>3, <2>6 DEF Nodes
<1>10. Used(md, c) = Used(nd, c) \cup {n}
  <2>1. md[n].flag # "empty"
    BY <1>7
  <2>2. \A i \in 0 .. c - 1 : i # n => md[i].flag = nd[i].flag
    BY <1>8 DEF Same
  <2>3. QED
    BY <2>1, <2>2 DEF Used
<1>11. \A i \in Used(nd, c) : i \in 0 .. c - 1 /\ i # n /\ Home(md, c, i) = Home(nd, c, i)
  BY <1>8 DEF Used
<1>12. Home(md, c, n) = h
  BY <1>7 DEF Home
<1>13. m \in Nat /\ d \in [0 .. c - 1 -> 0 .. m] /\ \A i \in 0 .. c - 1 : d[i] \in Nat /\ d[i] <= m
  BY DEF Chains
<1>14. PICK e : e = [i \in 0 .. c - 1 |->
                       IF i = n THEN 1
                       ELSE IF i \in Used(nd, c) /\ Home(nd, c, i) = h /\ i # h THEN d[i] + 1 ELSE d[i]]
  OBVIOUS
<1>15. m + 1 \in Nat /\ e \in [0 .. c - 1 -> 0 .. m + 1]
  <2>1. \A i \in 0 .. c - 1 : e[i] \in 0 .. m + 1
    BY <1>13, <1>14
  <2>2. QED
    BY <1>13, <1>14, <2>1
<1>16. /\ e[n] = 1 /\ e[h] = 0 /\ d[h] = 0
       /\ \A i \in Used(nd, c) : /\ Home(nd, c, i) # h => e[i] = d[i]
                                 /\ Home(nd, c, i) = h /\ i # h => e[i] = d[i] + 1
  <2>1. d[h] = 0
    BY DEF Chains, First
  <2>2. QED
    BY <1>3, <1>11, <1>14, <2>1
<1>17. Heads(md, c)
  BY <1>10, <1>11, <1>12 DEF Heads, Chains
<1>18. First(md, c, e)
  <2>1. ASSUME NEW i \in Used(nd, c) PROVE e[i] = 0 <=> i = Home(md, c, i)
    <3>1. d[i] = 0 <=> i = Home(nd, c, i)
      BY DEF Chains, First
    <3>2. d[i] \in Nat
      BY <1>11, <1>13
    <3>3. QED
      BY <1>11, <1>16, <3>1, <3>2
  <2>2. e[n] # 0 /\ n # Home(md, c, n)
    BY <1>3, <1>12, <1>16
  <2>3. QED
    BY <1>10, <2>1, <2>2 DEF First
\* Links of nodes other than the head.
<1>19. ASSUME NEW j \in Used(nd, c), j # h, NEW i \in Used(nd, c), Linked(nd, c, d, j, i)
       PROVE  Linked(md, c, e, j, i)
  <2>1. md[j].next = nd[j].next
    BY <1>7, <1>11, <1>19
  <2>2. d[i] \in Nat /\ d[j] \in Nat /\ d[i] = d[j] + 1 /\ Home(nd, c, j) = Home(nd, c, i)
    BY <1>11, <1>13, <1>19 DEF Linked
  <2>3. i # h
    <3>1. d[i] # 0
      BY <2>2
    <3>2. QED
      BY <1>16, <3>1
  <2>4. e[i] = e[j] + 1
    BY <1>16, <1>19, <2>2, <2>3
  <2>5. QED
    BY <1>11, <1>19, <2>1, <2>2, <2>4 DEF Linked
\* What came behind the head comes behind the new node.
<1>20. ASSUME NEW i \in Used(nd, c), Linked(nd, c, d, h, i) PROVE Linked(md, c, e, n, i)
  <2>1. d[i] = 1 /\ Home(nd, c, i) = h /\ nd[h].next = i
    BY <1>16, <1>20 DEF Linked
  <2>2. i # h
    BY <1>16, <2>1
  <2>3. e[i] = 2
    BY <1>16, <2>1, <2>2
  <2>4. QED
    BY <1>7, <1>11, <1>12, <1>16, <2>1, <2>3 DEF Linked
<1>21. Linked(md, c, e, h, n)
  BY <1>7, <1>11, <1>12, <1>16 DEF Linked
<1>22. Preceded(md, c, e)
  <2>1. ASSUME NEW i \in Used(nd, c), i # Home(md, c, i) PROVE \E j \in Used(md, c) : Linked(md, c, e, j, i)
    <3>1. PICK j \in Used(nd, c) : Linked(nd, c, d, j, i)
      BY <1>11, <2>1 DEF Chains, Preceded
    <3>2. CASE j = h
      BY <1>10, <1>20, <3>1, <3>2
    <3>3. CASE j # h
      BY <1>10, <1>19, <3>1, <3>3
    <3>4. QED
      BY <3>2, <3>3
  <2>2. \E j \in Used(md, c) : Linked(md, c, e, j, n)
    BY <1>10, <1>21
  <2>3. ASSUME NEW i \in Used(md, c), i # Home(md, c, i) PROVE \E j \in Used(md, c) : Linked(md, c, e, j, i)
    BY <1>10, <2>1, <2>2, <2>3
  <2>4. QED
    BY <2>3 DEF Preceded
<1>23. Followed(md, c, e)
  <2>1. ASSUME NEW j \in Used(nd, c), nd[j].next # -1
        PROVE  nd[j].next \in Used(nd, c) /\ Linked(nd, c, d, j, nd[j].next)
    BY <2>1 DEF Chains, Followed
  <2>2. ASSUME NEW j \in Used(nd, c), md[j].next # -1
        PROVE  md[j].next \in Used(md, c) /\ Linked(md, c, e, j, md[j].next)
    <3>1. CASE j = h
      BY <1>7, <1>10, <1>21, <3>1
    <3>2. CASE j # h
      <4>1. md[j].next = nd[j].next
        BY <1>7, <1>11, <3>2
      <4>2. QED
        BY <1>10, <1>19, <2>1, <2>2, <3>2, <4>1
    <3>3. QED
      BY <3>1, <3>2
  <2>3. ASSUME md[n].next # -1 PROVE md[n].next \in Used(md, c) /\ Linked(md, c, e, n, md[n].next)
    <3>1. md[n].next = nd[h].next
      BY <1>7
    <3>2. QED
      BY <1>10, <1>20, <2>1, <2>3, <3>1
  <2>4. QED
    BY <1>10, <2>2, <2>3 DEF Followed
<1>24. Keys(md, c)
  <2>1. \A i \in Used(nd, c) : md[i].key = nd[i].key
    BY <1>8, <1>11 DEF Same
  <2>2. md[n].key = key /\ Keys(nd, c)
    BY <1>7 DEF Chains
  <2>3. QED
    BY <1>10, <2>1, <2>2 DEF Keys
<1>25. Chains(md, c, e, m + 1)
  BY <1>15, <1>17, <1>18, <1>22, <1>23, <1>24 DEF Chains
<1>26. \A i \in Used(nd, c) : i # n /\ Same(nd[i], md[i])
  BY <1>8, <1>11
<1>27. Added(nd, c, md, n, key, n)
  <2>1. Nodes(md, c) /\ \E a, l : Chains(md, c, a, l)
    BY <1>9, <1>25, Zenon
  <2>2. n \in 0 .. c - 1 /\ n \notin Used(nd, c) /\ Used(md, c) = Used(nd, c) \cup {n}
    BY <1>10
  <2>3. n \in Used(md, c) /\ md[n].key = key /\ md[n].flag = "n" /\ md[n].value = 0
    BY <1>7, <2>2
  <2>4. \A i \in Used(nd, c) : \E j \in Used(md, c) : j # n /\ Same(nd[i], md[j])
    BY <1>26, <2>2, Zenon
  <2>5. \A j \in Used(md, c) : j # n => \E i \in Used(nd, c) : Same(nd[i], md[j])
    BY <1>26, <2>2, Zenon
  <2>6. QED
    BY <2>1, <2>2, <2>3, <2>4, <2>5, Zenon DEF Added
<1>28. QED
  BY <1>1, <1>2, <1>27, Zenon

\* Its main position holds a key that belongs elsewhere, behind node b: that one moves to
\* the free node.
LEMMA InPlaceOf ==
  ASSUME NEW nd, NEW c, NEW d, NEW m, Nodes(nd, c), Chains(nd, c, d, m), NEW key \in Nat, NEW h,
         h = key % c, h \in Used(nd, c), Home(nd, c, h) # h, NEW n \in 0 .. c - 1, n \notin Used(nd, c),
         NEW b \in Used(nd, c), nd[b].next = h, \A j \in Used(nd, c) : nd[j].next = h => j = b,
         \A i \in Used(nd, c) : nd[i].key # key
  PROVE  Added(nd, c, Marked([nd EXCEPT ![b].next = n, ![n] = nd[h], ![h] = initnode], h, key), h, key, n)
<1>1. PICK ld : ld = [nd EXCEPT ![b].next = n, ![n] = nd[h], ![h] = initnode]
  OBVIOUS
<1>2. PICK md : md = Marked(ld, h, key)
  OBVIOUS
<1>3. PICK p : p = Home(nd, c, h)
  OBVIOUS
<1>4. c \in Nat \ {0} /\ nd \in [0 .. c - 1 -> NodeType] /\ h \in 0 .. c - 1 /\ b \in 0 .. c - 1
      /\ h # n /\ b # n
  BY DEF Nodes, Used
<1>5. m \in Nat /\ d \in [0 .. c - 1 -> 0 .. m] /\ \A i \in 0 .. c - 1 : d[i] \in Nat /\ d[i] <= m
  BY DEF Chains
<1>6. Home(nd, c, b) = p /\ d[h] = d[b] + 1 /\ b # h
  <2>1. nd[b].next # -1
    BY <1>4
  <2>2. Linked(nd, c, d, b, h)
    BY <2>1 DEF Chains, Followed
  <2>3. Home(nd, c, b) = p /\ d[h] = d[b] + 1
    BY <1>3, <2>2 DEF Linked
  <2>4. d[b] \in Nat /\ d[h] # d[b]
    BY <1>4, <1>5, <2>3
  <2>5. QED
    BY <2>3, <2>4
<1>7. nd[b] \in NodeType /\ nd[h] \in NodeType /\ n \in Int
  BY <1>4
<1>8. NodeFcn(ld, c) /\ ld[h] = initnode /\ ld[n] = nd[h] /\ ld[b].next = n /\ Same(nd[b], ld[b])
      /\ \A i \in 0 .. c - 1 : i # n /\ i # h /\ i # b => ld[i] = nd[i]
  <2>1. ld[b] = [nd[b] EXCEPT !.next = n]
    BY <1>1, <1>4, <1>6
  <2>2. ld[h] = initnode /\ ld[n] = nd[h]
    BY <1>1, <1>4
  <2>3. \A i \in 0 .. c - 1 : i # n /\ i # h /\ i # b => ld[i] = nd[i]
    BY <1>1, <1>4
  <2>4. ld[b] \in NodeType /\ ld[b].next = n /\ Same(nd[b], ld[b])
    BY <1>7, <2>1 DEF NodeType, Same
  <2>5. initnode \in NodeType
    BY DEF initnode, NodeType
  <2>6. ld = [i \in 0 .. c - 1 |-> ld[i]]
    BY <1>1, <1>4
  <2>7. \A i \in 0 .. c - 1 : ld[i] \in NodeType
    BY <1>4, <1>7, <2>2, <2>3, <2>4, <2>5
  <2>8. QED
    BY <2>2, <2>3, <2>4, <2>6, <2>7 DEF NodeFcn
<1>9. /\ md \in [0 .. c - 1 -> NodeType]
      /\ md[h].key = key /\ md[h].next = -1 /\ md[h].flag = "n" /\ md[h].value = 0
      /\ md[n] = nd[h] /\ md[b].next = n /\ Same(nd[b], md[b])
      /\ \A i \in 0 .. c - 1 : i # n /\ i # h /\ i # b => md[i] = nd[i]
  <2>1. IsMarked(md, ld, c, h, key)
    BY <1>2, <1>4, <1>8, MarkedIs
  <2>2. /\ md \in [0 .. c - 1 -> NodeType]
        /\ md[h] = [key |-> key, next |-> ld[h].next, flag |-> "n", value |-> ld[h].value]
        /\ \A i \in 0 .. c - 1 : i # h => md[i] = ld[i]
    BY <2>1 DEF IsMarked
  <2>3. ld[h].next = -1 /\ ld[h].value = 0
    BY <1>8 DEF initnode
  <2>4. md[h] = [key |-> key, next |-> -1, flag |-> "n", value |-> 0]
    BY <2>2, <2>3
  <2>5. md[n] = ld[n] /\ md[b] = ld[b] /\ \A i \in 0 .. c - 1 : i # n /\ i # h /\ i # b => md[i] = nd[i]
    BY <1>4, <1>6, <1>8, <2>2
  <2>6. QED
    BY <1>8, <2>2, <2>4, <2>5
<1>10. \A i \in 0 .. c - 1 : i # n /\ i # h => Same(nd[i], md[i]) /\ Home(md, c, i) = Home(nd, c, i)
  <2>1. ASSUME NEW i \in 0 .. c - 1, i # n, i # h PROVE Same(nd[i], md[i])
    BY <1>9, <2>1 DEF Same
  <2>2. QED
    BY <2>1 DEF Same, Home
<1>11. nd[h].flag # "empty" /\ nd[b].flag # "empty" /\ nd[n].flag = "empty"
  BY <1>4 DEF Used
<1>12. Nodes(md, c)
  <2>1. \A i \in 0 .. c - 1 : nd[i].next \in -1 .. c - 1
    BY DEF Nodes
  <2>2. n \in -1 .. c - 1 /\ -1 \in -1 .. c - 1
    BY <1>4
  <2>3. \A i \in 0 .. c - 1 : md[i].next \in -1 .. c - 1
    BY <1>4, <1>9, <2>1, <2>2
  <2>4. \A i \in 0 .. c - 1 : nd[i].flag = "empty" => nd[i].next = -1 /\ nd[i].value = 0
    BY DEF Nodes
  <2>5. md[b].flag # "empty"
    BY <1>9, <1>11 DEF Same
  <2>6. \A i \in 0 .. c - 1 : md[i].flag = "empty" => md[i].next = -1 /\ md[i].value = 0
    BY <1>9, <1>11, <2>4, <2>5
  <2>7. QED
    BY <1>4, <1>9, <2>3, <2>6 DEF Nodes
<1>13. Used(md, c) = Used(nd, c) \cup {n}
  <2>1. md[n].flag # "empty" /\ md[h].flag # "empty"
    BY <1>9, <1>11
  <2>2. \A i \in 0 .. c - 1 : i # n /\ i # h => md[i].flag = nd[i].flag
    BY <1>10 DEF Same
  <2>3. ASSUME NEW i \in 0 .. c - 1 PROVE i \in Used(md, c) <=> i \in Used(nd, c) \cup {n}
    BY <1>4, <1>11, <2>1, <2>2 DEF Used
  <2>4. Used(md, c) \subseteq 0 .. c - 1 /\ Used(nd, c) \cup {n} \subseteq 0 .. c - 1
    BY DEF Used
  <2>5. QED
    BY <2>3, <2>4
<1>14. \A i \in Used(nd, c) : /\ i \in 0 .. c - 1 /\ i # n
                              /\ i # h => Home(md, c, i) = Home(nd, c, i)
  BY <1>10 DEF Used
<1>15. Home(md, c, n) = p /\ Home(md, c, h) = h
  BY <1>3, <1>9 DEF Home
<1>16. PICK e : e = [d EXCEPT ![n] = d[h], ![h] = 0]
  OBVIOUS
<1>17. /\ e \in [0 .. c - 1 -> 0 .. m] /\ e[n] = d[h] /\ e[h] = 0
       /\ \A i \in Used(nd, c) : i # h => e[i] = d[i]
  <2>1. 0 \in 0 .. m
    BY <1>5
  <2>2. QED
    BY <1>4, <1>5, <1>14, <1>16, <2>1
<1>18. p \in Used(nd, c) /\ Home(nd, c, p) = p /\ p # h
  BY <1>3 DEF Chains, Heads
<1>19. \A i \in Used(nd, c) : Home(nd, c, i) \in Used(nd, c) /\ Home(nd, c, i) # h
                              /\ Home(nd, c, Home(nd, c, i)) = Home(nd, c, i)
  BY DEF Chains, Heads
<1>20. Heads(md, c)
  <2>1. ASSUME NEW i \in Used(nd, c), i # h
        PROVE  Home(md, c, i) \in Used(md, c) /\ Home(md, c, Home(md, c, i)) = Home(md, c, i)
    BY <1>13, <1>14, <1>19, <2>1
  <2>2. Home(md, c, n) \in Used(md, c) /\ Home(md, c, Home(md, c, n)) = Home(md, c, n)
    BY <1>13, <1>14, <1>15, <1>18
  <2>3. Home(md, c, h) \in Used(md, c) /\ Home(md, c, Home(md, c, h)) = Home(md, c, h)
    BY <1>13, <1>15
  <2>4. QED
    BY <1>13, <2>1, <2>2, <2>3 DEF Heads
<1>21. First(md, c, e)
  <2>1. ASSUME NEW i \in Used(nd, c), i # h PROVE e[i] = 0 <=> i = Home(md, c, i)
    <3>1. d[i] = 0 <=> i = Home(nd, c, i)
      BY DEF Chains, First
    <3>2. QED
      BY <1>14, <1>17, <2>1, <3>1
  <2>2. e[n] # 0 /\ n # Home(md, c, n)
    <3>1. d[h] # 0
      BY DEF Chains, First
    <3>2. QED
      BY <1>15, <1>17, <1>18, <3>1
  <2>3. e[h] = 0 /\ h = Home(md, c, h)
    BY <1>15, <1>17
  <2>4. QED
    BY <1>13, <2>1, <2>2, <2>3 DEF First
\* Links of the nodes that stay.
<1>22. ASSUME NEW j \in Used(nd, c), j # h, NEW i \in Used(nd, c), i # h, Linked(nd, c, d, j, i)
       PROVE  Linked(md, c, e, j, i)
  <2>1. nd[j].next = i /\ Home(nd, c, j) = Home(nd, c, i) /\ d[i] = d[j] + 1
    BY <1>22 DEF Linked
  <2>2. j # b
    BY <1>22, <2>1
  <2>3. md[j].next = i
    BY <1>9, <1>14, <1>22, <2>1, <2>2
  <2>4. QED
    BY <1>14, <1>17, <1>22, <2>1, <2>3 DEF Linked
\* What came behind the node that moves comes behind it.
<1>23. ASSUME NEW i \in Used(nd, c), Linked(nd, c, d, h, i) PROVE i # h /\ Linked(md, c, e, n, i)
  <2>1. nd[h].next = i /\ Home(nd, c, i) = p /\ d[i] = d[h] + 1
    BY <1>3, <1>23 DEF Linked
  <2>2. i # h
    <3>1. d[h] \in Nat
      BY <1>4, <1>5
    <3>2. d[i] # d[h]
      BY <2>1, <3>1
    <3>3. QED
      BY <3>2
  <2>3. QED
    BY <1>9, <1>14, <1>15, <1>17, <2>1, <2>2 DEF Linked
<1>24. Linked(md, c, e, b, n)
  BY <1>6, <1>9, <1>14, <1>15, <1>17 DEF Linked
<1>25. Preceded(md, c, e)
  <2>1. ASSUME NEW i \in Used(nd, c), i # h, i # Home(md, c, i)
        PROVE  \E j \in Used(md, c) : Linked(md, c, e, j, i)
    <3>1. PICK j \in Used(nd, c) : Linked(nd, c, d, j, i)
      BY <1>14, <2>1 DEF Chains, Preceded
    <3>2. CASE j = h
      BY <1>13, <1>23, <3>1, <3>2
    <3>3. CASE j # h
      BY <1>13, <1>22, <2>1, <3>1, <3>3
    <3>4. QED
      BY <3>2, <3>3
  <2>2. \E j \in Used(md, c) : Linked(md, c, e, j, n)
    BY <1>13, <1>24
  <2>3. ASSUME NEW i \in Used(md, c), i # Home(md, c, i) PROVE \E j \in Used(md, c) : Linked(md, c, e, j, i)
    BY <1>13, <1>15, <2>1, <2>2, <2>3
  <2>4. QED
    BY <2>3 DEF Preceded
<1>26. Followed(md, c, e)
  <2>1. ASSUME NEW j \in Used(nd, c), nd[j].next # -1
        PROVE  nd[j].next \in Used(nd, c) /\ Linked(nd, c, d, j, nd[j].next)
    BY <2>1 DEF Chains, Followed
  <2>2. ASSUME NEW j \in Used(nd, c), j # h, md[j].next # -1
        PROVE  md[j].next \in Used(md, c) /\ Linked(md, c, e, j, md[j].next)
    <3>1. CASE j = b
      BY <1>9, <1>13, <1>24, <3>1
    <3>2. CASE j # b
      <4>1. md[j].next = nd[j].next
        BY <1>9, <1>14, <2>2, <3>2
      <4>2. nd[j].next \in Used(nd, c) /\ Linked(nd, c, d, j, nd[j].next)
        BY <2>1, <2>2, <4>1
      <4>3. nd[j].next # h
        BY <3>2
      <4>4. Linked(md, c, e, j, nd[j].next)
        BY <1>22, <2>2, <4>2, <4>3
      <4>5. QED
        BY <1>13, <4>1, <4>2, <4>4
    <3>3. QED
      BY <3>1, <3>2
  <2>3. ASSUME md[n].next # -1 PROVE md[n].next \in Used(md, c) /\ Linked(md, c, e, n, md[n].next)
    <3>1. md[n].next = nd[h].next
      BY <1>9
    <3>2. nd[h].next \in Used(nd, c) /\ Linked(nd, c, d, h, nd[h].next)
      BY <2>1, <2>3, <3>1
    <3>3. QED
      BY <1>13, <1>23, <3>1, <3>2
  <2>4. md[h].next = -1
    BY <1>9
  <2>5. QED
    BY <1>13, <2>2, <2>3, <2>4 DEF Followed
<1>27. Keys(md, c)
  <2>1. \A i \in Used(nd, c) : i # h => md[i].key = nd[i].key
    BY <1>10, <1>14 DEF Same
  <2>2. md[n].key = nd[h].key /\ md[h].key = key
    BY <1>9
  <2>3. \A i, j \in Used(nd, c) : nd[i].key = nd[j].key => i = j
    BY DEF Chains, Keys
  <2>4. ASSUME NEW i \in Used(md, c), NEW j \in Used(md, c), md[i].key = md[j].key PROVE i = j
    <3>1. CASE i = h \/ j = h
      BY <1>13, <2>1, <2>2, <2>4, <3>1
    <3>2. CASE i # h /\ j # h
      BY <1>13, <2>1, <2>2, <2>3, <2>4, <3>2
    <3>3. QED
      BY <3>1, <3>2
  <2>5. QED
    BY <2>4 DEF Keys
<1>28. Chains(md, c, e, m)
  BY <1>5, <1>17, <1>20, <1>21, <1>25, <1>26, <1>27 DEF Chains
<1>29. \A i \in Used(nd, c) : i # h => Same(nd[i], md[i])
  BY <1>10, <1>14
<1>30. Same(nd[h], md[n])
  BY <1>9 DEF Same
<1>31. /\ \A i \in Used(nd, c) : \E j \in Used(md, c) : j # h /\ Same(nd[i], md[j])
       /\ \A j \in Used(md, c) : j # h => \E i \in Used(nd, c) : Same(nd[i], md[j])
  BY <1>4, <1>13, <1>29, <1>30
<1>32. h \in Used(md, c)
  BY <1>13
<1>33. Added(nd, c, md, h, key, n)
  <2>1. Nodes(md, c) /\ \E a, l : Chains(md, c, a, l)
    BY <1>12, <1>28, Zenon
  <2>2. n \in 0 .. c - 1 /\ n \notin Used(nd, c) /\ Used(md, c) = Used(nd, c) \cup {n}
    BY <1>13
  <2>3. md[h].key = key /\ md[h].flag = "n" /\ md[h].value = 0
    BY <1>9
  <2>4. QED
    BY <1>31, <1>32, <2>1, <2>2, <2>3, Zenon DEF Added
<1>34. QED
  BY <1>1, <1>2, <1>33, Zenon

-----------------------------------------------------------------------------
(* A key in a table with room                                                *)

TableWith(c, nd, l) == [capacity |-> c, node |-> nd, lastfree |-> l]

LEMMA PlacedIs ==
  ASSUME NEW t, Record(t), NEW nd, NEW n, NEW key, NEW at
  PROVE  Placed(t, nd, n, key, at) = [t |-> TableWith(t.capacity, Marked(nd, at, key), n), at |-> at]
<1>1. PICK c, old_nd, l : t = [capacity |-> c, node |-> old_nd, lastfree |-> l] /\ c = t.capacity
  BY DEF Record
<1>2. [t EXCEPT !.node = Marked(nd, at, key), !.lastfree = n] = TableWith(c, Marked(nd, at, key), n)
  <2>1. PICK md : md = Marked(nd, at, key)
    OBVIOUS
  <2>2. PICK u : u = [t EXCEPT !.node = md]
    OBVIOUS
  <2>3. u = [capacity |-> c, node |-> md, lastfree |-> l]
    BY <1>1, <2>2
  <2>4. [u EXCEPT !.lastfree = n] = [capacity |-> c, node |-> md, lastfree |-> n]
    BY <2>3
  <2>5. QED
    BY <2>1, <2>2, <2>4, Zenon DEF TableWith
<1>3. QED
  BY <1>1, <1>2 DEF Placed, Marked

LEMMA TableGrows ==
  ASSUME NEW t, Table(t), NEW md, NEW at, NEW key, NEW x, Added(t.node, t.capacity, md, at, key, x),
         NEW l \in -1 .. t.capacity - 1, \A i \in l + 1 .. t.capacity - 1 : ~ tisnil(t.node[i])
  PROVE  Table(TableWith(t.capacity, md, l))
<1>1. PICK c, nd : c = t.capacity /\ nd = t.node
  OBVIOUS
<1>2. PICK u : u = TableWith(c, md, l)
  OBVIOUS
<1>3. u.capacity = c /\ u.node = md /\ u.lastfree = l /\ Record(u)
  BY <1>2 DEF TableWith, Record
<1>4. c \in Nat \ {0}
  BY <1>1, TableDomain
<1>5. \A i \in l + 1 .. c - 1 : md[i].flag # "empty"
  <2>1. ASSUME NEW i \in l + 1 .. c - 1 PROVE md[i].flag # "empty"
    <3>1. i \in 0 .. c - 1
      BY <1>1, <1>4
    <3>2. i \in Used(nd, c)
      BY <1>1, <3>1 DEF Used, tisnil
    <3>3. i \in Used(md, c)
      BY <1>1, <3>2 DEF Added
    <3>4. QED
      BY <3>3 DEF Used
  <2>2. QED
    BY <2>1
<1>6. Nodes(md, c) /\ \E d, m : Chains(md, c, d, m)
  BY <1>1 DEF Added
<1>7. Table(u)
  BY <1>1, <1>3, <1>5, <1>6 DEF Table
<1>8. QED
  BY <1>1, <1>2, <1>7

\* The result of newkey for key in table t.
NewIn(t, key, r) ==
  /\ Table(r.t) /\ r.t.capacity = t.capacity
  /\ \E x : Added(t.node, t.capacity, r.t.node, r.at, key, x)

LEMMA NewkeyIs ==
  ASSUME NEW t, Table(t), NEW key \in Nat, \A i \in UsedIn(t) : t.node[i].key # key, ~ Full(t, key)
  PROVE  NewIn(t, key, newkey(t, key))
<1>1. PICK c, nd, h, n : c = t.capacity /\ nd = t.node /\ h = key % c /\ n = getfreenode(t)
  OBVIOUS
<1>2. Record(t) /\ Nodes(nd, c) /\ c \in Nat \ {0} /\ t.lastfree \in -1 .. c - 1
  BY <1>1 DEF Table, Nodes
<1>3. PICK d, m : Chains(nd, c, d, m)
  BY <1>1 DEF Table
<1>4. h \in 0 .. c - 1 /\ mainposition(t, key) = h
  BY <1>1, <1>2, Remainder DEF mainposition
<1>5. \A i \in Used(nd, c) : nd[i].key # key
  BY <1>1 DEF UsedIn
<1>6. ASSUME NEW md, NEW at, NEW x, Added(nd, c, md, at, key, x),
             NEW l \in -1 .. c - 1, \A i \in l + 1 .. c - 1 : ~ tisnil(nd[i])
      PROVE  NewIn(t, key, [t |-> TableWith(c, md, l), at |-> at])
  <2>1. Table(TableWith(c, md, l))
    BY <1>1, <1>6, TableGrows
  <2>2. TableWith(c, md, l).node = md /\ TableWith(c, md, l).capacity = c
    BY DEF TableWith
  <2>3. QED
    BY <1>1, <1>6, <2>1, <2>2 DEF NewIn
<1>7. CASE tisnil(nd[h])
  <2>1. newkey(t, key) = Placed(t, nd, t.lastfree, key, h)
    BY <1>1, <1>4, <1>7 DEF newkey
  <2>2. h \notin Used(nd, c)
    BY <1>7 DEF Used, tisnil
  <2>3. Added(nd, c, Marked(nd, h, key), h, key, h)
    BY <1>1, <1>2, <1>3, <1>5, <2>2, InHome
  <2>4. \A i \in t.lastfree + 1 .. c - 1 : ~ tisnil(nd[i])
    BY <1>1 DEF Table, tisnil
  <2>5. NewIn(t, key, [t |-> TableWith(c, Marked(nd, h, key), t.lastfree), at |-> h])
    BY <1>2, <1>6, <2>3, <2>4
  <2>6. QED
    BY <1>1, <1>2, <2>1, <2>5, PlacedIs
<1>8. CASE ~ tisnil(nd[h])
  <2>1. n # -1
    BY <1>1, <1>4, <1>8 DEF Full
  <2>2. n \in 0 .. c - 1 /\ tisnil(nd[n]) /\ \A i \in n + 1 .. c - 1 : ~ tisnil(nd[i])
    BY <1>1, <2>1, FreeIs
  <2>3. n \notin Used(nd, c) /\ n \in -1 .. c - 1
    BY <1>2, <2>2 DEF Used, tisnil
  <2>4. h \in Used(nd, c)
    BY <1>4, <1>8 DEF Used, tisnil
  <2>5. PICK p : p = Home(nd, c, h)
    OBVIOUS
  <2>6. mainposition(t, nd[h].key) = p
    BY <1>1, <2>5 DEF mainposition, Home
  <2>7. CASE p # h
    <3>1. PICK b : b = Before(t, p, h)
      OBVIOUS
    <3>2. b \in Used(nd, c) /\ nd[b].next = h /\ \A j \in Used(nd, c) : nd[j].next = h => j = b
      <4>1. h \in UsedIn(t) /\ p = Home(t.node, t.capacity, h)
        BY <1>1, <2>4, <2>5 DEF UsedIn
      <4>2. /\ b \in UsedIn(t) /\ t.node[b].next = h
            /\ \A j \in UsedIn(t) : t.node[j].next = h => j = b
        BY <2>7, <3>1, <4>1, BeforeIs
      <4>3. QED
        BY <1>1, <4>2 DEF UsedIn
    <3>3. PICK ld : ld = [nd EXCEPT ![b].next = n, ![n] = nd[h], ![h] = initnode]
      OBVIOUS
    <3>4. newkey(t, key) = Placed(t, ld, n, key, h)
      BY <1>1, <1>4, <1>8, <2>6, <2>7, <3>1, <3>3 DEF newkey
    <3>5. Added(nd, c, Marked(ld, h, key), h, key, n)
      BY <1>1, <1>2, <1>3, <1>5, <2>2, <2>3, <2>4, <2>5, <2>7, <3>2, <3>3, InPlaceOf
    <3>6. NewIn(t, key, [t |-> TableWith(c, Marked(ld, h, key), n), at |-> h])
      BY <1>6, <2>2, <2>3, <3>5
    <3>7. QED
      BY <1>1, <1>2, <3>4, <3>6, PlacedIs
  <2>8. CASE p = h
    <3>1. PICK ld : ld = [nd EXCEPT ![n].next = nd[h].next, ![h].next = n]
      OBVIOUS
    <3>2. newkey(t, key) = Placed(t, ld, n, key, n)
      BY <1>1, <1>4, <1>8, <2>6, <2>8, <3>1 DEF newkey
    <3>3. Added(nd, c, Marked(ld, n, key), n, key, n)
      <4>1. h = key % c /\ Home(nd, c, h) = h /\ n \in 0 .. c - 1
        BY <1>1, <2>2, <2>5, <2>8
      <4>2. QED
        BY <1>2, <1>3, <1>5, <2>3, <2>4, <3>1, <4>1, BehindHome
    <3>4. NewIn(t, key, [t |-> TableWith(c, Marked(ld, n, key), n), at |-> n])
      BY <1>6, <2>2, <2>3, <3>3
    <3>5. QED
      BY <1>1, <1>2, <3>2, <3>4, PlacedIs
  <2>9. QED
    BY <2>7, <2>8
<1>9. QED
  BY <1>7, <1>8

-----------------------------------------------------------------------------
(* What a table holds                                                        *)

Label(n) == <<n.key, n.flag, n.value>>

\* The contents of a table, wherever its nodes are.
Held(t) == {Label(t.node[i]) : i \in UsedIn(t)}

\* A new key is held besides what was.
LEMMA NewHeld ==
  ASSUME NEW t, Table(t), NEW key, NEW r, NewIn(t, key, r)
  PROVE  /\ Table(r.t) /\ r.t.capacity = t.capacity /\ Held(r.t) = Held(t) \cup {<<key, "n", 0>>}
         /\ r.at \in UsedIn(r.t) /\ Label(r.t.node[r.at]) = <<key, "n", 0>>
         /\ \E x : x \in 0 .. t.capacity - 1 /\ x \notin UsedIn(t) /\ UsedIn(r.t) = UsedIn(t) \cup {x}
<1>1. PICK u, at, nd, md, c : u = r.t /\ at = r.at /\ nd = t.node /\ md = u.node /\ c = t.capacity
  OBVIOUS
<1>2. PICK x : Added(nd, c, md, at, key, x)
  BY <1>1 DEF NewIn
<1>3. Table(u) /\ u.capacity = c
  BY <1>1 DEF NewIn
<1>4. UsedIn(t) = Used(nd, c) /\ UsedIn(u) = Used(md, c)
  BY <1>1, <1>3 DEF UsedIn
<1>5. at \in Used(md, c) /\ Label(md[at]) = <<key, "n", 0>>
  BY <1>2 DEF Added, Label
<1>6. \A i \in Used(nd, c) : \E j \in Used(md, c) : Label(nd[i]) = Label(md[j])
  BY <1>2 DEF Added, Same, Label
<1>7. \A j \in Used(md, c) : j # at => \E i \in Used(nd, c) : Label(nd[i]) = Label(md[j])
  BY <1>2 DEF Added, Same, Label
<1>8. Held(t) = {Label(nd[i]) : i \in Used(nd, c)} /\ Held(u) = {Label(md[j]) : j \in Used(md, c)}
  BY <1>1, <1>4 DEF Held
<1>9. Held(u) = Held(t) \cup {<<key, "n", 0>>}
  BY <1>5, <1>6, <1>7, <1>8
<1>10. x \in 0 .. c - 1 /\ x \notin Used(nd, c) /\ Used(md, c) = Used(nd, c) \cup {x}
  BY <1>2 DEF Added
<1>11. QED
  BY <1>1, <1>3, <1>4, <1>5, <1>9, <1>10

\* The key of a node tells the node.
LEMMA OneNode ==
  ASSUME NEW t, Table(t), NEW i \in UsedIn(t), NEW j \in UsedIn(t), t.node[i].key = t.node[j].key
  PROVE  i = j
<1>1. PICK nd, c : nd = t.node /\ c = t.capacity
  OBVIOUS
<1>2. Keys(nd, c)
  BY <1>1 DEF Table, Chains
<1>3. i \in Used(nd, c) /\ j \in Used(nd, c) /\ nd[i].key = nd[j].key
  BY <1>1 DEF UsedIn
<1>4. QED
  BY <1>2, <1>3 DEF Keys

\* The types of what a node in use holds.
LEMMA UsedNode ==
  ASSUME NEW t, Table(t), NEW i \in UsedIn(t)
  PROVE  /\ i \in 0 .. t.capacity - 1 /\ t.node[i] \in NodeType /\ t.node[i].flag \in {"n", "o"}
         /\ t.node[i].key \in Nat /\ t.node[i].value \in Nat /\ ~ tisnil(t.node[i])
<1>1. i \in 0 .. t.capacity - 1 /\ t.node[i].flag # "empty"
  BY DEF UsedIn, Used
<1>2. t.node[i] \in NodeType
  BY <1>1 DEF Table, Nodes
<1>3. QED
  BY <1>1, <1>2 DEF NodeType, tisnil

\* The nodes md are those of nd, but for the flag and the value of the one at 'at'.
Relabels(nd, c, md, at) ==
  /\ NodeFcn(md, c)
  /\ md[at].key = nd[at].key /\ md[at].next = nd[at].next /\ md[at].flag # "empty"
  /\ \A i \in 0 .. c - 1 : i # at => md[i] = nd[i]

\* The set H with b in place of a.
Swapped(H, a, b) == (H \ {a}) \cup {b}

LEMMA Relabel ==
  ASSUME NEW t, Table(t), NEW at \in UsedIn(t), NEW md, Relabels(t.node, t.capacity, md, at),
         NEW u, u = TableWith(t.capacity, md, t.lastfree)
  PROVE  /\ Table(u) /\ u.capacity = t.capacity /\ u.node = md /\ UsedIn(u) = UsedIn(t)
         /\ Held(u) = Swapped(Held(t), Label(t.node[at]), Label(md[at]))
<1>1. PICK c, nd, l : c = t.capacity /\ nd = t.node /\ l = t.lastfree
  OBVIOUS
<1>2. u.capacity = c /\ u.node = md /\ u.lastfree = l /\ Record(u)
  BY <1>1 DEF TableWith, Record
<1>3. /\ NodeFcn(md, c)
      /\ md[at].key = nd[at].key /\ md[at].next = nd[at].next /\ md[at].flag # "empty"
      /\ \A i \in 0 .. c - 1 : i # at => md[i] = nd[i]
  BY <1>1 DEF Relabels
<1>4. Nodes(nd, c) /\ at \in Used(nd, c) /\ at \in 0 .. c - 1 /\ c \in Nat \ {0}
  BY <1>1 DEF Table, UsedIn, Used, Nodes
<1>5. Used(md, c) = Used(nd, c)
  BY <1>3, <1>4 DEF Used
<1>6. \A i \in 0 .. c - 1 : md[i].key = nd[i].key /\ md[i].next = nd[i].next
  BY <1>3
<1>7. Nodes(md, c)
  <2>1. \A i \in 0 .. c - 1 : nd[i].next \in -1 .. c - 1
    BY <1>4 DEF Nodes
  <2>2. \A i \in 0 .. c - 1 : nd[i].flag = "empty" => nd[i].next = -1 /\ nd[i].value = 0
    BY <1>4 DEF Nodes
  <2>3. \A i \in 0 .. c - 1 : md[i].next \in -1 .. c - 1
    BY <1>6, <2>1
  <2>4. \A i \in 0 .. c - 1 : md[i].flag = "empty" => md[i].next = -1 /\ md[i].value = 0
    BY <1>3, <2>2
  <2>5. QED
    BY <1>3, <1>4, <2>3, <2>4 DEF Nodes, NodeFcn
<1>8. \A i \in Used(nd, c) : i \in 0 .. c - 1 /\ Home(md, c, i) = Home(nd, c, i)
  BY <1>6 DEF Home, Used
<1>9. \E d, m : Chains(md, c, d, m)
  <2>1. PICK d, m : Chains(nd, c, d, m)
    BY <1>1 DEF Table
  <2>2. Heads(md, c)
    BY <1>5, <1>8, <2>1 DEF Chains, Heads
  <2>3. First(md, c, d)
    BY <1>5, <1>8, <2>1 DEF Chains, First
  <2>4. \A i, j \in Used(nd, c) : Linked(nd, c, d, j, i) => Linked(md, c, d, j, i)
    BY <1>6, <1>8 DEF Linked
  <2>5. Preceded(md, c, d)
    BY <1>5, <1>8, <2>1, <2>4 DEF Chains, Preceded
  <2>6. Followed(md, c, d)
    BY <1>5, <1>6, <1>8, <2>1, <2>4 DEF Chains, Followed
  <2>7. Keys(md, c)
    BY <1>5, <1>6, <1>8, <2>1 DEF Chains, Keys
  <2>8. Chains(md, c, d, m)
    BY <2>1, <2>2, <2>3, <2>5, <2>6, <2>7 DEF Chains
  <2>9. QED
    BY <2>8
<1>10. \A i \in l + 1 .. c - 1 : md[i].flag # "empty"
  <2>1. l \in -1 .. c - 1 /\ \A i \in l + 1 .. c - 1 : nd[i].flag # "empty"
    BY <1>1 DEF Table
  <2>2. QED
    BY <1>3, <1>4, <2>1
<1>11. Table(u)
  <2>1. l \in -1 .. c - 1
    BY <1>1 DEF Table
  <2>2. QED
    BY <1>2, <1>7, <1>9, <1>10, <2>1 DEF Table
<1>12. UsedIn(u) = Used(nd, c) /\ UsedIn(t) = Used(nd, c)
  BY <1>1, <1>2, <1>5 DEF UsedIn
<1>13. Held(u) = {Label(md[i]) : i \in Used(nd, c)} /\ Held(t) = {Label(nd[i]) : i \in Used(nd, c)}
  BY <1>1, <1>2, <1>12 DEF Held
<1>14. \A i \in Used(nd, c) : i # at => md[i] = nd[i] /\ Label(nd[i]) # Label(nd[at])
  <2>1. \A i \in Used(nd, c) : nd[i].key = nd[at].key => i = at
    BY <1>1, <1>4, <1>12, OneNode
  <2>2. QED
    BY <1>3, <1>8, <2>1 DEF Label
<1>15. Held(u) = Swapped(Held(t), Label(nd[at]), Label(md[at]))
  BY <1>4, <1>13, <1>14 DEF Swapped
<1>16. QED
  BY <1>1, <1>2, <1>11, <1>12, <1>15

\* A node gets another flag.
Flagged(t, at, f) == [t EXCEPT !.node[at].flag = f]

LEMMA FlaggedIs ==
  ASSUME NEW t, Table(t), NEW at \in UsedIn(t), NEW f \in {"n", "o"}, NEW u, u = Flagged(t, at, f)
  PROVE  /\ Table(u) /\ u.capacity = t.capacity /\ UsedIn(u) = UsedIn(t)
         /\ Label(u.node[at]) = <<t.node[at].key, f, t.node[at].value>>
         /\ Held(u) = Swapped(Held(t), Label(t.node[at]), <<t.node[at].key, f, t.node[at].value>>)
<1>1. PICK c, nd, l : t = [capacity |-> c, node |-> nd, lastfree |-> l]
                      /\ c = t.capacity /\ nd = t.node /\ l = t.lastfree
  BY DEF Table, Record
<1>2. PICK nx : nx = [nd[at] EXCEPT !.flag = f]
  OBVIOUS
<1>3. PICK md : md = [nd EXCEPT ![at] = nx]
  OBVIOUS
<1>4. at \in 0 .. c - 1 /\ nd[at] \in NodeType /\ nd[at].flag # "empty"
  BY <1>1, UsedNode
<1>5. nd \in [0 .. c - 1 -> NodeType]
  BY <1>1 DEF Table, Nodes
<1>6. /\ nx \in NodeType /\ nx.key = nd[at].key /\ nx.next = nd[at].next /\ nx.flag # "empty"
      /\ nx.flag = f /\ nx.value = nd[at].value
  BY <1>2, <1>4 DEF NodeType
<1>7. md[at] = nx /\ md \in [0 .. c - 1 -> NodeType] /\ \A i \in 0 .. c - 1 : i # at => md[i] = nd[i]
  BY <1>3, <1>4, <1>5, <1>6
<1>8. Relabels(nd, c, md, at)
  BY <1>6, <1>7 DEF Relabels, NodeFcn
<1>9. u = TableWith(c, md, l)
  <2>1. u = [t EXCEPT !.node = md]
    BY <1>1, <1>2, <1>3 DEF Flagged
  <2>2. QED
    BY <1>1, <2>1 DEF TableWith
<1>10. c = t.capacity /\ nd = t.node /\ l = t.lastfree
  BY <1>1
<1>11. Relabels(t.node, t.capacity, md, at) /\ u = TableWith(t.capacity, md, t.lastfree)
  BY <1>8, <1>9, <1>10, Zenon
<1>12. /\ Table(u) /\ u.capacity = t.capacity /\ u.node = md /\ UsedIn(u) = UsedIn(t)
       /\ Held(u) = Swapped(Held(t), Label(t.node[at]), Label(md[at]))
  BY <1>11, Relabel
<1>13. Label(md[at]) = <<t.node[at].key, f, t.node[at].value>>
  BY <1>6, <1>7, <1>10 DEF Label
<1>14. QED
  BY <1>12, <1>13, Zenon

\* A node gets another value.
Valued(t, at, v) == [t EXCEPT !.node[at].value = v]

LEMMA ValuedIs ==
  ASSUME NEW t, Table(t), NEW at \in UsedIn(t), NEW v \in Nat, NEW u, u = Valued(t, at, v)
  PROVE  /\ Table(u) /\ u.capacity = t.capacity /\ UsedIn(u) = UsedIn(t)
         /\ Label(u.node[at]) = <<t.node[at].key, t.node[at].flag, v>>
         /\ Held(u) = Swapped(Held(t), Label(t.node[at]), <<t.node[at].key, t.node[at].flag, v>>)
<1>1. PICK c, nd, l : t = [capacity |-> c, node |-> nd, lastfree |-> l]
                      /\ c = t.capacity /\ nd = t.node /\ l = t.lastfree
  BY DEF Table, Record
<1>2. PICK nx : nx = [nd[at] EXCEPT !.value = v]
  OBVIOUS
<1>3. PICK md : md = [nd EXCEPT ![at] = nx]
  OBVIOUS
<1>4. at \in 0 .. c - 1 /\ nd[at] \in NodeType /\ nd[at].flag # "empty"
  BY <1>1, UsedNode
<1>5. nd \in [0 .. c - 1 -> NodeType]
  BY <1>1 DEF Table, Nodes
<1>6. /\ nx \in NodeType /\ nx.key = nd[at].key /\ nx.next = nd[at].next /\ nx.flag # "empty"
      /\ nx.value = v /\ nx.flag = nd[at].flag
  BY <1>2, <1>4 DEF NodeType
<1>7. md[at] = nx /\ md \in [0 .. c - 1 -> NodeType] /\ \A i \in 0 .. c - 1 : i # at => md[i] = nd[i]
  BY <1>3, <1>4, <1>5, <1>6
<1>8. Relabels(nd, c, md, at)
  BY <1>6, <1>7 DEF Relabels, NodeFcn
<1>9. u = TableWith(c, md, l)
  <2>1. u = [t EXCEPT !.node = md]
    BY <1>1, <1>2, <1>3 DEF Valued
  <2>2. QED
    BY <1>1, <2>1 DEF TableWith
<1>10. c = t.capacity /\ nd = t.node /\ l = t.lastfree
  BY <1>1
<1>11. Relabels(t.node, t.capacity, md, at) /\ u = TableWith(t.capacity, md, t.lastfree)
  BY <1>8, <1>9, <1>10, Zenon
<1>12. /\ Table(u) /\ u.capacity = t.capacity /\ u.node = md /\ UsedIn(u) = UsedIn(t)
       /\ Held(u) = Swapped(Held(t), Label(t.node[at]), Label(md[at]))
  BY <1>11, Relabel
<1>13. Label(md[at]) = <<t.node[at].key, t.node[at].flag, v>>
  BY <1>6, <1>7, <1>10 DEF Label
<1>14. QED
  BY <1>12, <1>13, Zenon

\* It gets both.
Labelled(t, at, f, v) == Valued(Flagged(t, at, f), at, v)

LEMMA LabelledIs ==
  ASSUME NEW t, Table(t), NEW at \in UsedIn(t), NEW f \in {"n", "o"}, NEW v \in Nat,
         NEW u, u = Labelled(t, at, f, v)
  PROVE  /\ Table(u) /\ u.capacity = t.capacity /\ UsedIn(u) = UsedIn(t)
         /\ Held(u) = Swapped(Held(t), Label(t.node[at]), <<t.node[at].key, f, v>>)
<1>1. PICK a, k, g, x : /\ a = Flagged(t, at, f) /\ k = t.node[at].key
                        /\ g = t.node[at].flag /\ x = t.node[at].value
  OBVIOUS
<1>2. /\ Table(a) /\ a.capacity = t.capacity /\ UsedIn(a) = UsedIn(t)
      /\ Label(a.node[at]) = <<k, f, x>> /\ Held(a) = Swapped(Held(t), <<k, g, x>>, <<k, f, x>>)
  <2>1. /\ Table(a) /\ a.capacity = t.capacity /\ UsedIn(a) = UsedIn(t)
        /\ Label(a.node[at]) = <<t.node[at].key, f, t.node[at].value>>
        /\ Held(a) = Swapped(Held(t), Label(t.node[at]), <<t.node[at].key, f, t.node[at].value>>)
    BY <1>1, FlaggedIs
  <2>2. Label(t.node[at]) = <<k, g, x>>
    BY <1>1 DEF Label
  <2>3. QED
    BY <1>1, <2>1, <2>2, Zenon
<1>3. u = Valued(a, at, v)
  BY <1>1 DEF Labelled
<1>4. a.node[at].key = k /\ a.node[at].flag = f /\ a.node[at].value = x
  BY <1>2 DEF Label
<1>5. /\ Table(u) /\ u.capacity = a.capacity /\ UsedIn(u) = UsedIn(a)
      /\ Held(u) = Swapped(Held(a), <<k, f, x>>, <<k, f, v>>)
  <2>1. at \in UsedIn(a)
    BY <1>2
  <2>2. /\ Table(u) /\ u.capacity = a.capacity /\ UsedIn(u) = UsedIn(a)
        /\ Held(u) = Swapped(Held(a), Label(a.node[at]), <<a.node[at].key, a.node[at].flag, v>>)
    BY <1>2, <1>3, <2>1, ValuedIs
  <2>3. QED
    BY <1>2, <1>4, <2>2, Zenon
<1>6. ASSUME NEW i \in UsedIn(t), Label(t.node[i]) = <<k, f, x>> PROVE <<k, f, x>> = <<k, g, x>>
  <2>1. t.node[i].key = t.node[at].key
    BY <1>1, <1>6 DEF Label
  <2>2. i = at
    BY <2>1, OneNode
  <2>3. QED
    BY <1>1, <1>6, <2>2 DEF Label
<1>7. <<k, f, x>> \in Held(t) => <<k, f, x>> = <<k, g, x>>
  BY <1>6 DEF Held
<1>8. Held(u) = Swapped(Held(t), <<k, g, x>>, <<k, f, v>>)
  BY <1>2, <1>5, <1>7 DEF Swapped
<1>9. QED
  BY <1>1, <1>2, <1>5, <1>8 DEF Label

-----------------------------------------------------------------------------
(* A bigger table                                                            *)

\* A table with a free node is not full.
LEMMA RoomLeft ==
  ASSUME NEW t, Table(t), NEW key, NEW x \in 0 .. t.capacity - 1, x \notin UsedIn(t)
  PROVE  ~ Full(t, key)
<1>1. PICK n : n = getfreenode(t)
  OBVIOUS
<1>2. \A i \in n + 1 .. t.capacity - 1 : ~ tisnil(t.node[i])
  BY <1>1, FreeIs
<1>3. tisnil(t.node[x])
  BY TableDomain
<1>4. n # -1
  <2>1. SUFFICES ASSUME n = -1 PROVE FALSE
    OBVIOUS
  <2>2. x \in n + 1 .. t.capacity - 1
    BY <2>1
  <2>3. QED
    BY <1>2, <1>3, <2>2
<1>5. QED
  BY <1>1, <1>4 DEF Full

\* A node is put in a table that has room.
LEMMA Reinserted ==
  ASSUME NEW t, Table(t), NEW from \in NodeType, from.flag # "empty",
         \A i \in UsedIn(t) : t.node[i].key # from.key, ~ Full(t, from.key),
         NEW u, u = reinsert(t, from)
  PROVE  /\ Table(u) /\ u.capacity = t.capacity /\ Held(u) = Held(t) \cup {Label(from)}
         /\ \E x : x \in 0 .. t.capacity - 1 /\ x \notin UsedIn(t) /\ UsedIn(u) = UsedIn(t) \cup {x}
<1>1. PICK key, r : key = from.key /\ r = newkey(t, key)
  OBVIOUS
<1>2. key \in Nat /\ from.flag \in {"n", "o"} /\ from.value \in Nat
  BY <1>1 DEF NodeType
<1>3. NewIn(t, key, r)
  BY <1>1, <1>2, NewkeyIs
<1>4. PICK v, at : v = r.t /\ at = r.at
  OBVIOUS
<1>5. /\ Table(v) /\ v.capacity = t.capacity /\ Held(v) = Held(t) \cup {<<key, "n", 0>>}
      /\ at \in UsedIn(v) /\ Label(v.node[at]) = <<key, "n", 0>>
      /\ \E x : x \in 0 .. t.capacity - 1 /\ x \notin UsedIn(t) /\ UsedIn(v) = UsedIn(t) \cup {x}
  BY <1>3, <1>4, NewHeld
<1>6. u = Labelled(v, at, from.flag, from.value)
  <2>1. v = newkey(t, from.key).t /\ at = newkey(t, from.key).at
    BY <1>1, <1>4
  <2>2. PICK f, x : f = from.flag /\ x = from.value
    OBVIOUS
  <2>3. u = [newkey(t, from.key).t EXCEPT !.node[newkey(t, from.key).at].flag = f,
                                          !.node[newkey(t, from.key).at].value = x]
    BY <2>2, Zenon DEF reinsert
  <2>4. u = [v EXCEPT !.node[at].flag = f, !.node[at].value = x]
    BY <2>1, <2>3, Zenon
  <2>5. QED
    BY <2>2, <2>4, Zenon DEF Labelled, Valued, Flagged
<1>7. /\ Table(u) /\ u.capacity = v.capacity /\ UsedIn(u) = UsedIn(v)
      /\ Held(u) = Swapped(Held(v), Label(v.node[at]), <<v.node[at].key, from.flag, from.value>>)
  <2>1. PICK f, x : f = from.flag /\ x = from.value
    OBVIOUS
  <2>2. f \in {"n", "o"} /\ x \in Nat /\ u = Labelled(v, at, f, x) /\ Table(v) /\ at \in UsedIn(v)
    BY <1>2, <1>5, <1>6, <2>1, Zenon
  <2>3. /\ Table(u) /\ u.capacity = v.capacity /\ UsedIn(u) = UsedIn(v)
        /\ Held(u) = Swapped(Held(v), Label(v.node[at]), <<v.node[at].key, f, x>>)
    BY <2>2, LabelledIs
  <2>4. QED
    BY <2>1, <2>3, Zenon
<1>8. v.node[at].key = key
  BY <1>5 DEF Label
<1>9. Held(u) = (Held(v) \ {<<key, "n", 0>>}) \cup {Label(from)}
  BY <1>1, <1>5, <1>7, <1>8 DEF Swapped, Label
<1>10. <<key, "n", 0>> \notin Held(t)
  BY <1>1 DEF Held, Label
<1>11. Held(u) = Held(t) \cup {Label(from)}
  BY <1>5, <1>9, <1>10
<1>12. QED
  BY <1>5, <1>7, <1>11

\* An empty table.
LEMMA EmptyTable ==
  ASSUME NEW c \in Nat \ {0}, NEW u, u = emptytable(c)
  PROVE  Table(u) /\ u.capacity = c /\ UsedIn(u) = {} /\ Held(u) = {}
<1>1. PICK nd : nd = [i \in 0 .. c - 1 |-> initnode]
  OBVIOUS
<1>2. u = [capacity |-> c, node |-> nd, lastfree |-> c - 1]
  BY <1>1 DEF emptytable
<1>3. u.capacity = c /\ u.node = nd /\ u.lastfree = c - 1 /\ Record(u)
  BY <1>2 DEF Record
<1>4. initnode \in NodeType /\ initnode.next = -1 /\ initnode.value = 0 /\ initnode.flag = "empty"
  BY DEF initnode, NodeType
<1>5. nd \in [0 .. c - 1 -> NodeType] /\ \A i \in 0 .. c - 1 : nd[i] = initnode
  BY <1>1, <1>4
<1>6. Nodes(nd, c)
  <2>1. -1 \in -1 .. c - 1
    OBVIOUS
  <2>2. \A i \in 0 .. c - 1 : nd[i].next \in -1 .. c - 1
    BY <1>4, <1>5, <2>1
  <2>3. \A i \in 0 .. c - 1 : nd[i].flag = "empty" => nd[i].next = -1 /\ nd[i].value = 0
    BY <1>4, <1>5
  <2>4. QED
    BY <1>5, <2>2, <2>3 DEF Nodes
<1>7. Used(nd, c) = {}
  BY <1>4, <1>5 DEF Used
<1>8. PICK d : d = [i \in 0 .. c - 1 |-> 0]
  OBVIOUS
<1>9. Chains(nd, c, d, 0)
  <2>1. d \in [0 .. c - 1 -> 0 .. 0]
    BY <1>8
  <2>2. QED
    BY <1>7, <2>1 DEF Chains, Heads, First, Preceded, Followed, Keys
<1>10. c - 1 \in -1 .. c - 1 /\ \A i \in (c - 1) + 1 .. c - 1 : nd[i].flag # "empty"
  OBVIOUS
<1>11. Table(u)
  BY <1>3, <1>6, <1>9, <1>10 DEF Table
<1>12. UsedIn(u) = {}
  BY <1>3, <1>7 DEF UsedIn
<1>13. QED
  BY <1>3, <1>11, <1>12 DEF Held

-----------------------------------------------------------------------------
(* The nodes of a table are put in one of twice its capacity                 *)

Moved(t, k, u) == IF tisnil(t.node[k - 1]) THEN u ELSE reinsert(u, t.node[k - 1])
Moves(t, n, f) == f = [k \in 0 .. n |-> IF k = 0 THEN emptytable(2 * t.capacity) ELSE Moved(t, k, f[k - 1])]

LEMMA MovesExist ==
  ASSUME NEW t, NEW n \in Nat
  PROVE  \E f : Moves(t, n, f)
<1> DEFINE start == emptytable(2 * t.capacity)
           S == {m \in Nat : \E f : Moves(t, m, f)}
<1>1. 0 \in S
  <2>1. PICK f : f = [k \in 0 .. 0 |-> start]
    OBVIOUS
  <2>2. f = [k \in 0 .. 0 |-> IF k = 0 THEN start ELSE Moved(t, k, f[k - 1])]
    BY <2>1
  <2>3. QED
    BY <2>2 DEF Moves
<1>2. ASSUME NEW m \in Nat, m \in S PROVE m + 1 \in S
  <2>1. PICK f : Moves(t, m, f)
    BY <1>2
  <2>2. PICK g : g = [k \in 0 .. m + 1 |-> IF k <= m THEN f[k] ELSE Moved(t, m + 1, f[m])]
    OBVIOUS
  <2>3. ASSUME NEW k \in 0 .. m + 1
        PROVE  g[k] = IF k = 0 THEN start ELSE Moved(t, k, g[k - 1])
    <3>1. CASE k = 0
      <4>1. 0 \in 0 .. m /\ 0 <= m
        OBVIOUS
      <4>2. f[0] = start
        BY <2>1, <4>1 DEF Moves
      <4>3. QED
        BY <2>2, <3>1, <4>1, <4>2
    <3>2. CASE k # 0 /\ k <= m
      <4>1. k \in 0 .. m /\ k - 1 \in 0 .. m + 1 /\ k - 1 <= m
        BY <3>2
      <4>2. f[k] = Moved(t, k, f[k - 1])
        BY <2>1, <3>2, <4>1 DEF Moves
      <4>3. g[k] = f[k] /\ g[k - 1] = f[k - 1]
        BY <2>2, <3>2, <4>1
      <4>4. QED
        BY <3>2, <4>2, <4>3
    <3>3. CASE k = m + 1
      <4>1. ~ (k <= m) /\ k # 0 /\ k - 1 = m /\ m \in 0 .. m + 1 /\ m <= m
        BY <3>3
      <4>2. g[k] = Moved(t, m + 1, f[m]) /\ g[m] = f[m]
        BY <2>2, <4>1
      <4>3. QED
        BY <3>3, <4>1, <4>2
    <3>4. QED
      BY <3>1, <3>2, <3>3
  <2>4. g = [k \in 0 .. m + 1 |-> g[k]]
    BY <2>2
  <2>5. g = [k \in 0 .. m + 1 |-> IF k = 0 THEN start ELSE Moved(t, k, g[k - 1])]
    BY <2>3, <2>4
  <2>6. QED
    BY <2>5 DEF Moves
<1> HIDE DEF S
<1>3. n \in S
  BY <1>1, <1>2, AllNumbers
<1>4. QED
  BY <1>3 DEF S

\* The table with the first k nodes of t.
Expanding(t, k, u) ==
  /\ Table(u) /\ u.capacity = 2 * t.capacity
  /\ Held(u) = {Label(t.node[i]) : i \in {j \in UsedIn(t) : j < k}}
  /\ IsFiniteSet(UsedIn(u)) /\ Cardinality(UsedIn(u)) \in 0 .. k

\* Some node is free in a table of which fewer nodes are in use than it has.
LEMMA SomeFree ==
  ASSUME NEW u, Table(u), IsFiniteSet(UsedIn(u)), Cardinality(UsedIn(u)) < u.capacity
  PROVE  \E x \in 0 .. u.capacity - 1 : x \notin UsedIn(u)
<1>1. PICK c : c = u.capacity
  OBVIOUS
<1>2. c \in Nat \ {0} /\ UsedIn(u) \subseteq 0 .. c - 1
  BY <1>1, TableDomain
<1>3. Cardinality(0 .. c - 1) = c
  BY <1>2, FS_Interval
<1>4. UsedIn(u) # 0 .. c - 1
  BY <1>1, <1>2, <1>3
<1>5. QED
  BY <1>1, <1>2, <1>4

LEMMA MoveOne ==
  ASSUME NEW t, Table(t), NEW k \in Nat, k < t.capacity, NEW u, Expanding(t, k, u)
  PROVE  Expanding(t, k + 1, Moved(t, k + 1, u))
<1>1. PICK c, from : c = t.capacity /\ from = t.node[k]
  OBVIOUS
<1>2. c \in Nat \ {0} /\ (k + 1) - 1 = k /\ k \in 0 .. c - 1
  BY <1>1, TableDomain
<1>3. /\ Table(u) /\ u.capacity = 2 * c
      /\ Held(u) = {Label(t.node[i]) : i \in {j \in UsedIn(t) : j < k}}
      /\ IsFiniteSet(UsedIn(u)) /\ Cardinality(UsedIn(u)) \in 0 .. k
  BY <1>1 DEF Expanding
<1>4. UsedIn(t) \subseteq 0 .. c - 1 /\ (k \in UsedIn(t) <=> ~ tisnil(from))
  BY <1>1, <1>2, TableDomain
<1>5. CASE tisnil(from)
  <2>1. Moved(t, k + 1, u) = u
    BY <1>1, <1>2, <1>5 DEF Moved
  <2>2. {j \in UsedIn(t) : j < k + 1} = {j \in UsedIn(t) : j < k}
    BY <1>2, <1>4, <1>5
  <2>3. Cardinality(UsedIn(u)) \in 0 .. k + 1
    BY <1>3
  <2>4. QED
    BY <1>1, <1>3, <2>1, <2>2, <2>3 DEF Expanding
<1>6. CASE ~ tisnil(from)
  <2>1. k \in UsedIn(t)
    BY <1>4, <1>6
  <2>2. from \in NodeType /\ from.flag # "empty"
    BY <1>1, <1>6, <2>1, UsedNode DEF tisnil
  <2>3. PICK v : v = reinsert(u, from)
    OBVIOUS
  <2>4. Moved(t, k + 1, u) = v
    BY <1>1, <1>2, <1>6, <2>3 DEF Moved
  <2>5. ASSUME NEW i \in UsedIn(u) PROVE u.node[i].key # from.key
    <3>1. Label(u.node[i]) \in Held(u)
      BY DEF Held
    <3>2. PICK j \in UsedIn(t) : j < k /\ Label(u.node[i]) = Label(t.node[j])
      BY <1>3, <3>1
    <3>3. j # k
      BY <1>2, <1>4, <3>2
    <3>4. t.node[j].key # t.node[k].key
      BY <2>1, <3>3, OneNode
    <3>5. u.node[i].key = t.node[j].key
      BY <3>2 DEF Label
    <3>6. QED
      BY <1>1, <3>4, <3>5
  <2>6. ~ Full(u, from.key)
    <3>1. Cardinality(UsedIn(u)) < u.capacity
      BY <1>2, <1>3
    <3>2. QED
      BY <1>3, <3>1, SomeFree, RoomLeft
  <2>7. /\ Table(v) /\ v.capacity = u.capacity /\ Held(v) = Held(u) \cup {Label(from)}
        /\ \E x : x \in 0 .. u.capacity - 1 /\ x \notin UsedIn(u) /\ UsedIn(v) = UsedIn(u) \cup {x}
    BY <1>3, <2>2, <2>3, <2>5, <2>6, Reinserted
  <2>8. {j \in UsedIn(t) : j < k + 1} = {j \in UsedIn(t) : j < k} \cup {k}
    BY <1>2, <1>4, <2>1
  <2>9. Held(v) = {Label(t.node[i]) : i \in {j \in UsedIn(t) : j < k + 1}}
    BY <1>1, <1>3, <2>7, <2>8
  <2>10. IsFiniteSet(UsedIn(v)) /\ Cardinality(UsedIn(v)) \in 0 .. k + 1
    <3>1. PICK x : x \notin UsedIn(u) /\ UsedIn(v) = UsedIn(u) \cup {x}
      BY <2>7
    <3>2. IsFiniteSet(UsedIn(v)) /\ Cardinality(UsedIn(v)) = Cardinality(UsedIn(u)) + 1
      BY <1>3, <3>1, FS_AddElement
    <3>3. QED
      BY <1>3, <3>2
  <2>11. QED
    BY <1>1, <1>3, <2>4, <2>7, <2>9, <2>10 DEF Expanding
<1>7. QED
  BY <1>5, <1>6

\* No node is lost, and there is room for more.
LEMMA Expanded ==
  ASSUME NEW t, Table(t), NEW u, u = table_expand(t)
  PROVE  /\ Table(u) /\ Held(u) = Held(t)
         /\ \A key : ~ Full(u, key)
<1>1. PICK c : c = t.capacity
  OBVIOUS
<1>2. c \in Nat \ {0} /\ UsedIn(t) \subseteq 0 .. c - 1
  BY <1>1, TableDomain
<1>3. PICK f : f = CHOOSE g : Moves(t, c, g)
  OBVIOUS
<1>4. Moves(t, c, f)
  BY <1>2, <1>3, MovesExist
<1>5. u = f[c]
  BY <1>1, <1>3 DEF table_expand, Moves, Moved
<1> DEFINE S == {n \in Nat : n <= c => Expanding(t, n, f[n])}
<1>6. 0 \in S
  <2>1. 0 \in 0 .. c
    BY <1>2
  <2>2. f[0] = emptytable(2 * c)
    BY <1>1, <1>4, <2>1 DEF Moves
  <2>3. 2 * c \in Nat \ {0}
    BY <1>2
  <2>4. Table(f[0]) /\ f[0].capacity = 2 * c /\ UsedIn(f[0]) = {} /\ Held(f[0]) = {}
    BY <2>2, <2>3, EmptyTable
  <2>5. {j \in UsedIn(t) : j < 0} = {}
    BY <1>2
  <2>6. IsFiniteSet(UsedIn(f[0])) /\ Cardinality(UsedIn(f[0])) \in 0 .. 0
    BY <2>4, FS_EmptySet
  <2>7. QED
    BY <1>1, <2>4, <2>5, <2>6 DEF Expanding
<1>7. ASSUME NEW n \in Nat, n \in S PROVE n + 1 \in S
  <2>1. SUFFICES ASSUME n + 1 <= c PROVE Expanding(t, n + 1, f[n + 1])
    OBVIOUS
  <2>2. n < c /\ n + 1 \in 0 .. c /\ n + 1 # 0 /\ (n + 1) - 1 = n
    BY <1>2, <2>1
  <2>3. Expanding(t, n, f[n])
    BY <1>2, <1>7, <2>2
  <2>4. f[n + 1] = Moved(t, n + 1, f[n])
    BY <1>4, <2>2 DEF Moves
  <2>5. QED
    BY <1>1, <2>2, <2>3, <2>4, MoveOne
<1>8. c \in S
  <2> HIDE DEF S
  <2>1. QED
    BY <1>2, <1>6, <1>7, AllNumbers
<1>9. Expanding(t, c, u)
  BY <1>2, <1>5, <1>8
<1>10. {j \in UsedIn(t) : j < c} = UsedIn(t)
  BY <1>2
<1>11. /\ Table(u) /\ u.capacity = 2 * c /\ Held(u) = Held(t)
       /\ IsFiniteSet(UsedIn(u)) /\ Cardinality(UsedIn(u)) \in 0 .. c
  BY <1>1, <1>9, <1>10 DEF Expanding, Held
<1>12. Cardinality(UsedIn(u)) < u.capacity
  BY <1>2, <1>11
<1>13. \E x \in 0 .. u.capacity - 1 : x \notin UsedIn(u)
  BY <1>11, <1>12, SomeFree
<1>14. QED
  BY <1>11, <1>13, RoomLeft

-----------------------------------------------------------------------------
(* A key is put in a table                                                   *)

\* The table r.t is t with the key, which is that of its node r.at.
Inserted(t, key, r) ==
  /\ Table(r.t) /\ r.at \in UsedIn(r.t) /\ r.t.node[r.at].key = key
  /\ \/ r.t = t
     \/ /\ \A h \in Held(t) : h[1] # key
        /\ Held(r.t) = Held(t) \cup {<<key, "n", 0>>}
        /\ r.t.node[r.at].flag = "n" /\ r.t.node[r.at].value = 0

\* The keys of nodes and those of what is held.
LEMMA KeysHeld ==
  ASSUME NEW t, Table(t), NEW key
  PROVE  (\A i \in UsedIn(t) : t.node[i].key # key) <=> (\A h \in Held(t) : h[1] # key)
<1>1. \A i \in UsedIn(t) : Label(t.node[i])[1] = t.node[i].key
  BY DEF Label
<1>2. QED
  BY <1>1 DEF Held

LEMMA NewkeyInserts ==
  ASSUME NEW t, Table(t), NEW key \in Nat, \A i \in UsedIn(t) : t.node[i].key # key,
         NEW r, r = table_newkey(t, key)
  PROVE  Inserted(t, key, r)
<1>1. PICK u : u = IF Full(t, key) THEN table_expand(t) ELSE t
  OBVIOUS
<1>2. Table(u) /\ Held(u) = Held(t) /\ ~ Full(u, key)
  BY <1>1, Expanded
<1>3. r = newkey(u, key)
  BY <1>1 DEF table_newkey
<1>4. \A h \in Held(t) : h[1] # key
  BY KeysHeld
<1>5. \A i \in UsedIn(u) : u.node[i].key # key
  BY <1>2, <1>4, KeysHeld
<1>6. NewIn(u, key, r)
  BY <1>2, <1>3, <1>5, NewkeyIs
<1>7. /\ Table(r.t) /\ Held(r.t) = Held(u) \cup {<<key, "n", 0>>}
      /\ r.at \in UsedIn(r.t) /\ Label(r.t.node[r.at]) = <<key, "n", 0>>
  BY <1>2, <1>6, NewHeld
<1>8. r.t.node[r.at].key = key /\ r.t.node[r.at].flag = "n" /\ r.t.node[r.at].value = 0
  BY <1>7 DEF Label
<1>9. QED
  BY <1>2, <1>4, <1>7, <1>8 DEF Inserted

LEMMA InsertInserts ==
  ASSUME NEW t, Table(t), NEW key \in Nat, NEW r, r = table_insert(t, key)
  PROVE  Inserted(t, key, r)
<1>1. PICK i : i = table_get(t, key)
  OBVIOUS
<1>2. CASE i \in UsedIn(t) /\ t.node[i].key = key
  <2>1. i >= 0
    BY <1>2, TableDomain
  <2>2. r = [t |-> t, at |-> i]
    BY <1>1, <2>1 DEF table_insert
  <2>3. QED
    BY <1>2, <2>2 DEF Inserted
<1>3. CASE i = -1 /\ \A j \in UsedIn(t) : t.node[j].key # key
  <2>1. r = table_newkey(t, key)
    BY <1>1, <1>3 DEF table_insert
  <2>2. QED
    BY <1>3, <2>1, NewkeyInserts
<1>4. QED
  BY <1>1, <1>2, <1>3, GetIs

\* The tables below one.
Kids(t) == {h[3] : h \in Held(t)} \ {0}

\* A key in a table leaves its kids as they are.
LEMMA InsertedKids ==
  ASSUME NEW t, NEW key, NEW r, Inserted(t, key, r)
  PROVE  /\ Held(t) \subseteq Held(r.t) /\ Kids(r.t) = Kids(t)
         /\ \A h \in Held(r.t) : h[3] # 0 => h \in Held(t)
<1>1. CASE r.t = t
  BY <1>1
<1>2. CASE Held(r.t) = Held(t) \cup {<<key, "n", 0>>}
  BY <1>2 DEF Kids
<1>3. QED
  BY <1>1, <1>2 DEF Inserted

-----------------------------------------------------------------------------
(* Dictionaries are trees of tables                                          *)

Tables(T) ==
  /\ DOMAIN T \subseteq 1 .. MaxTables
  /\ T = [x \in DOMAIN T |-> T[x]]
  /\ \A x \in DOMAIN T : Table(T[x])

\* The tables of S are below no others.
Closed(T, S) == S \subseteq DOMAIN T /\ \A x \in S : Kids(T[x]) \cap DOMAIN T \subseteq S

LEMMA TableNames ==
  ASSUME NEW T, Tables(T), NEW x \in DOMAIN T
  PROVE  x \in Nat \ {0} /\ Table(T[x])
BY CrabAssumption DEF Tables

LEMMA BelowIs ==
  ASSUME NEW T, Tables(T), NEW S \in SUBSET DOMAIN T
  PROVE  Below(T, S) \subseteq S <=> Closed(T, S)
<1>1. ASSUME NEW x \in S, NEW y \in DOMAIN T
      PROVE  (\E i \in DOMAIN T[x].node : T[x].node[i].value = y) <=> y \in Kids(T[x])
  <2>1. PICK t : t = T[x]
    OBVIOUS
  <2>2. Table(t) /\ y # 0
    BY <2>1, TableNames
  <2>3. DOMAIN t.node = 0 .. t.capacity - 1
    BY <2>2, TableDomain
  <2>4. \A i \in 0 .. t.capacity - 1 : t.node[i].value = y => i \in UsedIn(t)
    BY <2>2 DEF Table, Nodes, UsedIn, Used
  <2>5. UsedIn(t) \subseteq 0 .. t.capacity - 1
    BY DEF UsedIn, Used
  <2>6. y \in Kids(t) <=> \E h \in Held(t) : h[3] = y
    BY <2>2 DEF Kids
  <2>7. (\E h \in Held(t) : h[3] = y) <=> \E i \in UsedIn(t) : t.node[i].value = y
    <3>1. \A i \in UsedIn(t) : Label(t.node[i])[3] = t.node[i].value
      BY DEF Label
    <3>2. QED
      BY <3>1 DEF Held
  <2>8. (\E i \in DOMAIN t.node : t.node[i].value = y) <=> \E i \in UsedIn(t) : t.node[i].value = y
    BY <2>3, <2>4, <2>5
  <2>9. QED
    BY <2>1, <2>6, <2>7, <2>8
<1>2. Below(T, S) = {y \in DOMAIN T : \E x \in S : y \in Kids(T[x])}
  BY <1>1 DEF Below
<1>3. QED
  BY <1>2 DEF Closed

\* The tables of a dictionary: the least closed set it is in.
LEMMA TablesOfIs ==
  ASSUME NEW T, Tables(T), NEW d \in DOMAIN T
  PROVE  /\ TablesOf(T, d) \subseteq DOMAIN T /\ d \in TablesOf(T, d) /\ Closed(T, TablesOf(T, d))
         /\ \A S : Closed(T, S) /\ d \in S => TablesOf(T, d) \subseteq S
<1>1. TablesOf(T, d) = {y \in DOMAIN T : \A S \in SUBSET DOMAIN T : d \in S /\ Closed(T, S) => y \in S}
  BY BelowIs DEF TablesOf
<1>2. \A S : Closed(T, S) => S \in SUBSET DOMAIN T
  BY DEF Closed
<1>3. ASSUME NEW x \in TablesOf(T, d), NEW y \in Kids(T[x]) \cap DOMAIN T PROVE y \in TablesOf(T, d)
  <2>1. ASSUME NEW S \in SUBSET DOMAIN T, d \in S, Closed(T, S) PROVE y \in S
    BY <1>1, <1>3, <2>1 DEF Closed
  <2>2. QED
    BY <1>1, <2>1
<1>4. QED
  BY <1>1, <1>2, <1>3 DEF Closed

\* Links that are added take nothing away.
LEMMA ReachGrows ==
  ASSUME NEW T, NEW U, Tables(T), Tables(U), DOMAIN T \subseteq DOMAIN U,
         \A x \in DOMAIN T : Kids(T[x]) \subseteq Kids(U[x]), NEW d \in DOMAIN T
  PROVE  TablesOf(T, d) \subseteq TablesOf(U, d)
<1>1. PICK S : S = TablesOf(U, d) \cap DOMAIN T
  OBVIOUS
<1>2. d \in TablesOf(U, d) /\ Closed(U, TablesOf(U, d))
  BY TablesOfIs
<1>3. Closed(T, S) /\ d \in S
  BY <1>1, <1>2 DEF Closed
<1>4. QED
  BY <1>1, <1>3, TablesOfIs

\* No two entries of a table have the same key.
LEMMA HeldKeys ==
  ASSUME NEW t, Table(t), NEW h \in Held(t), NEW g \in Held(t), h[1] = g[1]
  PROVE  h = g
<1>1. PICK i \in UsedIn(t), j \in UsedIn(t) : h = Label(t.node[i]) /\ g = Label(t.node[j])
  BY DEF Held
<1>2. t.node[i].key = t.node[j].key
  BY <1>1 DEF Label
<1>3. QED
  BY <1>1, <1>2, OneNode

\* The dictionaries R: no table is below two nodes, a dictionary below none, and every
\* table is in one. No table is below itself: those below a table have a smaller rank.
Typed(T, R) == \A x \in DOMAIN T : \A h \in Held(T[x]) : h[3] \in {0} \cup (DOMAIN T \ R)
OneRef(T) == \A x, y \in DOMAIN T : \A h \in Held(T[x]), g \in Held(T[y]) :
               h[3] = g[3] /\ h[3] # 0 => x = y /\ h = g
Reached(T, R) == \A x \in DOMAIN T : \E d \in R : x \in TablesOf(T, d)
Ranks(T, m, rank) == /\ m \in Nat /\ rank \in [DOMAIN T -> 0 .. m]
                     /\ \A x \in DOMAIN T : \A y \in Kids(T[x]) \cap DOMAIN T : rank[y] < rank[x]
Ranked(T) == \E m, rank : Ranks(T, m, rank)
Forest(T, R) == R \subseteq DOMAIN T /\ Typed(T, R) /\ OneRef(T) /\ Reached(T, R) /\ Ranked(T)

\* Entries change, but not the tables below them.
Alike(t, u) ==
  /\ Kids(t) \subseteq Kids(u)
  /\ \A h \in Held(u) : h[3] # 0 => \E g \in Held(t) : g[1] = h[1] /\ g[3] = h[3]

LEMMA ForestSame ==
  ASSUME NEW T, NEW U, NEW R, Tables(T), Tables(U), Forest(T, R), DOMAIN U = DOMAIN T,
         \A x \in DOMAIN T : Alike(T[x], U[x])
  PROVE  Forest(U, R)
<1>1. R \subseteq DOMAIN U /\ Typed(U, R)
  BY DEF Forest, Typed, Alike
<1>2. OneRef(U)
  <2>1. SUFFICES ASSUME NEW x \in DOMAIN U, NEW y \in DOMAIN U, NEW h \in Held(U[x]), NEW g \in Held(U[y]),
                        h[3] = g[3], h[3] # 0
                 PROVE  x = y /\ h = g
    BY DEF OneRef
  <2>2. PICK h0 \in Held(T[x]) : h0[1] = h[1] /\ h0[3] = h[3]
    BY <2>1 DEF Alike
  <2>3. PICK g0 \in Held(T[y]) : g0[1] = g[1] /\ g0[3] = g[3]
    BY <2>1 DEF Alike
  <2>4. x = y /\ h0 = g0
    BY <2>1, <2>2, <2>3 DEF Forest, OneRef
  <2>5. QED
    BY <2>2, <2>3, <2>4, HeldKeys DEF Tables
<1>3. Reached(U, R)
  <2>1. ASSUME NEW d \in R PROVE TablesOf(T, d) \subseteq TablesOf(U, d)
    <3>1. \A x \in DOMAIN T : Kids(T[x]) \subseteq Kids(U[x])
      BY DEF Alike
    <3>2. QED
      BY <3>1, ReachGrows DEF Forest
  <2>2. QED
    BY <2>1 DEF Forest, Reached
<1>4. Ranked(U)
  <2>1. \A x \in DOMAIN T : Kids(U[x]) \subseteq Kids(T[x])
    BY DEF Alike, Kids
  <2>2. QED
    BY <2>1 DEF Forest, Ranked, Ranks
<1>5. QED
  BY <1>1, <1>2, <1>3, <1>4 DEF Forest

\* A new table is put below an entry of table p that has none.
LEMMA ForestLinked ==
  ASSUME NEW T, NEW U, NEW R, Tables(T), Tables(U), Forest(T, R), NEW new, new \notin DOMAIN T,
         DOMAIN U = DOMAIN T \cup {new}, NEW p \in DOMAIN T, Held(U[new]) = {},
         NEW k, NEW f, <<k, f, 0>> \in Held(T[p]),
         Held(U[p]) = Swapped(Held(T[p]), <<k, f, 0>>, <<k, f, new>>),
         \A x \in DOMAIN T : x # p => Held(U[x]) = Held(T[x])
  PROVE  Forest(U, R)
<1>1. \A x \in DOMAIN T : \A h \in Held(T[x]) : h[3] \in {0} \cup (DOMAIN T \ R)
  BY DEF Forest, Typed
<1>2. R \subseteq DOMAIN T /\ new \notin R /\ new # 0
  BY TableNames DEF Forest
<1>3. \A x \in DOMAIN U : \A h \in Held(U[x]) :
        \/ x \in DOMAIN T /\ h \in Held(T[x]) /\ h[3] \in {0} \cup (DOMAIN T \ R)
        \/ x = p /\ h = <<k, f, new>> /\ h[3] = new
  BY <1>1 DEF Swapped
<1>4. Typed(U, R)
  BY <1>2, <1>3 DEF Typed
<1>5. OneRef(U)
  <2>1. SUFFICES ASSUME NEW x \in DOMAIN U, NEW y \in DOMAIN U, NEW h \in Held(U[x]), NEW g \in Held(U[y]),
                        h[3] = g[3], h[3] # 0
                 PROVE  x = y /\ h = g
    BY DEF OneRef
  <2>2. CASE h[3] = new
    BY <1>2, <1>3, <2>1, <2>2
  <2>3. CASE h[3] # new
    <3>1. x \in DOMAIN T /\ h \in Held(T[x]) /\ y \in DOMAIN T /\ g \in Held(T[y])
      BY <1>3, <2>1, <2>3
    <3>2. QED
      BY <2>1, <3>1 DEF Forest, OneRef
  <2>4. QED
    BY <2>2, <2>3
<1>6. \A x \in DOMAIN T : Kids(T[x]) \subseteq Kids(U[x])
  <2>1. ASSUME NEW x \in DOMAIN T, NEW h \in Held(T[x]), h[3] # 0 PROVE h \in Held(U[x])
    <3>1. CASE x = p
      <4>1. h # <<k, f, 0>>
        BY <2>1
      <4>2. QED
        BY <3>1, <4>1 DEF Swapped
    <3>2. CASE x # p
      BY <3>2
    <3>3. QED
      BY <3>1, <3>2
  <2>2. QED
    BY <2>1 DEF Kids
<1>7. new \in Kids(U[p])
  <2>1. PICK h : h = <<k, f, new>>
    OBVIOUS
  <2>2. h[3] = new /\ h \in Held(U[p])
    BY <2>1 DEF Swapped
  <2>3. QED
    BY <1>2, <2>2 DEF Kids
<1>8. ASSUME NEW d \in R PROVE TablesOf(T, d) \subseteq TablesOf(U, d) /\ Closed(U, TablesOf(U, d))
  <2>1. d \in DOMAIN T /\ d \in DOMAIN U
    BY <1>2
  <2>2. QED
    BY <1>6, <2>1, ReachGrows, TablesOfIs
<1>9. Reached(U, R)
  <2>1. ASSUME NEW x \in DOMAIN U PROVE \E d \in R : x \in TablesOf(U, d)
    <3>1. CASE x \in DOMAIN T
      BY <1>8, <3>1 DEF Forest, Reached
    <3>2. CASE x = new
      <4>1. PICK d \in R : p \in TablesOf(U, d)
        BY <1>8 DEF Forest, Reached
      <4>2. QED
        BY <1>7, <1>8, <3>2, <4>1 DEF Closed
    <3>3. QED
      BY <3>1, <3>2
  <2>2. QED
    BY <2>1 DEF Reached
<1>10. Ranked(U)
  <2>1. PICK m, rank : Ranks(T, m, rank)
    BY DEF Forest, Ranked
  <2>2. PICK above : above = [x \in DOMAIN U |-> IF x = new THEN 0 ELSE rank[x] + 1]
    OBVIOUS
  <2>3. m + 1 \in Nat /\ above \in [DOMAIN U -> 0 .. m + 1]
    BY <2>1, <2>2 DEF Ranks
  <2>4. ASSUME NEW x \in DOMAIN U, NEW y \in Kids(U[x]) \cap DOMAIN U PROVE above[y] < above[x]
    <3>1. x # new
      BY <2>4 DEF Kids
    <3>2. CASE y = new
      BY <2>1, <2>2, <3>1, <3>2 DEF Ranks
    <3>3. CASE y # new
      <4>1. PICK h \in Held(U[x]) : h[3] = y /\ y # 0
        BY DEF Kids
      <4>2. h \in Held(T[x])
        BY <1>3, <3>3, <4>1
      <4>3. y \in Kids(T[x]) \cap DOMAIN T /\ x \in DOMAIN T
        BY <3>1, <3>3, <4>1, <4>2 DEF Kids
      <4>4. rank[y] < rank[x] /\ rank[y] \in Nat /\ rank[x] \in Nat
        BY <2>1, <4>3 DEF Ranks
      <4>5. QED
        BY <2>2, <3>1, <3>3, <4>4
    <3>4. QED
      BY <3>2, <3>3
  <2>5. Ranks(U, m + 1, above)
    BY <2>3, <2>4 DEF Ranks
  <2>6. QED
    BY <2>5 DEF Ranked
<1>11. QED
  BY <1>2, <1>4, <1>5, <1>9, <1>10 DEF Forest

\* A new dictionary.
LEMMA ForestRooted ==
  ASSUME NEW T, NEW U, NEW R, Tables(T), Tables(U), Forest(T, R), NEW new, new \notin DOMAIN T,
         DOMAIN U = DOMAIN T \cup {new}, Held(U[new]) = {}, \A x \in DOMAIN T : U[x] = T[x]
  PROVE  Forest(U, R \cup {new})
<1>1. Typed(U, R \cup {new})
  BY DEF Forest, Typed
<1>2. OneRef(U)
  BY DEF Forest, OneRef
<1>3. \A d \in R : TablesOf(T, d) \subseteq TablesOf(U, d)
  BY ReachGrows DEF Forest
<1>4. new \in TablesOf(U, new)
  BY TablesOfIs
<1>5. Reached(U, R \cup {new})
  BY <1>3, <1>4 DEF Forest, Reached
<1>6. R \cup {new} \subseteq DOMAIN U
  BY DEF Forest
<1>7. Ranked(U)
  <2>1. PICK m, rank : Ranks(T, m, rank)
    BY DEF Forest, Ranked
  <2>2. PICK also : also = [x \in DOMAIN U |-> IF x = new THEN 0 ELSE rank[x]]
    OBVIOUS
  <2>3. m \in Nat /\ also \in [DOMAIN U -> 0 .. m]
    BY <2>1, <2>2 DEF Ranks
  <2>4. ASSUME NEW x \in DOMAIN U, NEW y \in Kids(U[x]) \cap DOMAIN U PROVE also[y] < also[x]
    <3>1. x # new /\ x \in DOMAIN T /\ U[x] = T[x]
      BY <2>4 DEF Kids
    <3>2. y \in Kids(T[x]) /\ y \in DOMAIN T
      BY <3>1 DEF Kids, Forest, Typed
    <3>3. QED
      BY <2>1, <2>2, <3>1, <3>2 DEF Ranks
  <2>5. Ranks(U, m, also)
    BY <2>3, <2>4 DEF Ranks
  <2>6. QED
    BY <2>5 DEF Ranked
<1>8. QED
  BY <1>1, <1>2, <1>5, <1>6, <1>7 DEF Forest

-----------------------------------------------------------------------------
(* A character of a word                                                     *)

\* The tables T while a word is inserted: those of O are as they were in T0, and none
\* of the others is above them.
Apart(T, R, O, T0) ==
  /\ Tables(T) /\ Forest(T, R)
  /\ O \subseteq DOMAIN T /\ \A x \in O : T[x] = T0[x]
  /\ \A x \in DOMAIN T \ O : Kids(T[x]) \cap O = {}

\* The place of the last character, behind -1 that of none.
Place(T, O, at) ==
  /\ at = <<at[1], at[2]>> /\ at[1] \in DOMAIN T \ O
  /\ at[2] = -1 \/ at[2] \in UsedIn(T[at[1]])

\* s is a state of _dict_insert.
Growing(s, R, O, T0) ==
  /\ s = [ok |-> s.ok, T |-> s.T, at |-> s.at] /\ s.ok \in BOOLEAN
  /\ Apart(s.T, R, O, T0) /\ Place(s.T, O, s.at)

\* U is T with the empty table new below node i of table p.
Links(T, p, i, new, U) ==
  /\ new \in Free(T) /\ DOMAIN U = DOMAIN T \cup {new} /\ U = [x \in DOMAIN U |-> U[x]]
  /\ Table(U[new]) /\ Held(U[new]) = {}
  /\ U[p] = Valued(T[p], i, new)
  /\ \A x \in DOMAIN T : x # p => U[x] = T[x]

\* The next character of a word goes in table x of the tables U.
Entered(T, at, x, U) ==
  \/ at[2] = -1 /\ U = T /\ x = at[1]
  \/ at[2] # -1 /\ U = T /\ x = T[at[1]].node[at[2]].value /\ x # 0
  \/ at[2] # -1 /\ T[at[1]].node[at[2]].value = 0 /\ Links(T, at[1], at[2], x, U)

LEMMA LinksApart ==
  ASSUME NEW T, NEW R, NEW O, NEW T0, Apart(T, R, O, T0), NEW p \in DOMAIN T \ O, NEW i \in UsedIn(T[p]),
         T[p].node[i].value = 0, NEW new, NEW U, Links(T, p, i, new, U)
  PROVE  Apart(U, R, O, T0) /\ new \in DOMAIN U \ O
<1>1. Tables(T) /\ Forest(T, R) /\ O \subseteq DOMAIN T
  BY DEF Apart
<1>2. new \in 1 .. MaxTables /\ new \notin DOMAIN T /\ new \in Nat
  BY CrabAssumption DEF Links, Free
<1>3. PICK k, f : k = T[p].node[i].key /\ f = T[p].node[i].flag
  OBVIOUS
<1>4. Table(T[p]) /\ Label(T[p].node[i]) = <<k, f, 0>> /\ <<k, f, 0>> \in Held(T[p])
  <2>1. Label(T[p].node[i]) = <<k, f, 0>>
    BY <1>3 DEF Label
  <2>2. Label(T[p].node[i]) \in Held(T[p])
    BY DEF Held
  <2>3. QED
    BY <1>1, <2>1, <2>2, TableNames
<1>5. Table(U[p]) /\ Held(U[p]) = Swapped(Held(T[p]), <<k, f, 0>>, <<k, f, new>>)
  <2>1. U[p] = Valued(T[p], i, new)
    BY DEF Links
  <2>2. /\ Table(U[p])
        /\ Held(U[p]) = Swapped(Held(T[p]), Label(T[p].node[i]), <<T[p].node[i].key, T[p].node[i].flag, new>>)
    BY <1>2, <1>4, <2>1, ValuedIs
  <2>3. QED
    BY <1>3, <1>4, <2>2, Zenon
<1>6. \A x \in DOMAIN T : x # p => U[x] = T[x]
  BY DEF Links
<1>7. Table(U[new]) /\ Held(U[new]) = {} /\ DOMAIN U = DOMAIN T \cup {new} /\ U = [x \in DOMAIN U |-> U[x]]
  BY DEF Links
<1>8. Tables(U)
  <2>1. \A x \in DOMAIN U : Table(U[x])
    BY <1>1, <1>5, <1>6, <1>7 DEF Tables
  <2>2. DOMAIN U \subseteq 1 .. MaxTables
    BY <1>1, <1>2, <1>7 DEF Tables
  <2>3. QED
    BY <1>7, <2>1, <2>2 DEF Tables
<1>9. Forest(U, R)
  <2>1. \A x \in DOMAIN T : x # p => Held(U[x]) = Held(T[x])
    BY <1>6
  <2>2. QED
    BY <1>1, <1>2, <1>4, <1>5, <1>7, <1>8, <2>1, ForestLinked
<1>10. O \subseteq DOMAIN U /\ new \in DOMAIN U \ O
  BY <1>1, <1>2, <1>7
<1>11. \A x \in O : U[x] = T0[x]
  BY <1>1, <1>6 DEF Apart
<1>12. ASSUME NEW x \in DOMAIN U \ O PROVE Kids(U[x]) \cap O = {}
  <2>1. CASE x = new
    BY <1>7, <2>1 DEF Kids
  <2>2. CASE x = p
    <3>1. Kids(U[p]) \subseteq Kids(T[p]) \cup {new}
      <4>1. \A h : h = <<k, f, new>> => h[3] = new
        OBVIOUS
      <4>2. QED
        BY <1>5, <4>1 DEF Kids, Swapped
    <3>2. Kids(T[p]) \cap O = {}
      BY DEF Apart
    <3>3. QED
      BY <1>10, <2>2, <3>1, <3>2
  <2>3. CASE x # new /\ x # p
    <3>1. x \in DOMAIN T \ O /\ U[x] = T[x]
      BY <1>6, <1>7, <1>12, <2>3
    <3>2. QED
      BY <3>1 DEF Apart
  <2>4. QED
    BY <2>1, <2>2, <2>3
<1>13. QED
  BY <1>8, <1>9, <1>10, <1>11, <1>12 DEF Apart

LEMMA EnteredApart ==
  ASSUME NEW T, NEW R, NEW O, NEW T0, Apart(T, R, O, T0), NEW at, Place(T, O, at),
         NEW x, NEW U, Entered(T, at, x, U)
  PROVE  Apart(U, R, O, T0) /\ x \in DOMAIN U \ O
<1>1. PICK p, i : at[1] = p /\ at[2] = i
  OBVIOUS
<1>2. p \in DOMAIN T \ O /\ (i = -1 \/ i \in UsedIn(T[p]))
  BY <1>1 DEF Place
<1>3. CASE i = -1 /\ U = T /\ x = p
  BY <1>2, <1>3
<1>4. CASE i # -1 /\ U = T /\ x = T[p].node[i].value /\ x # 0
  <2>1. PICK h : h = Label(T[p].node[i])
    OBVIOUS
  <2>2. h \in Held(T[p]) /\ h[3] = x
    BY <1>2, <1>4, <2>1 DEF Held, Label
  <2>3. x \in Kids(T[p])
    BY <1>4, <2>2 DEF Kids
  <2>4. x \in DOMAIN T
    BY <1>2, <1>4, <2>2 DEF Apart, Forest, Typed
  <2>5. x \notin O
    BY <1>2, <2>3 DEF Apart
  <2>6. QED
    BY <1>4, <2>4, <2>5
<1>5. CASE i # -1 /\ T[p].node[i].value = 0 /\ Links(T, p, i, x, U)
  BY <1>2, <1>5, LinksApart
<1>6. QED
  BY <1>1, <1>3, <1>4, <1>5 DEF Entered

\* A key is put in table x.
LEMMA InsertedApart ==
  ASSUME NEW T, NEW R, NEW O, NEW T0, Apart(T, R, O, T0), NEW x \in DOMAIN T \ O,
         NEW key, NEW q, Inserted(T[x], key, q), NEW U, U = [T EXCEPT ![x] = q.t]
  PROVE  Apart(U, R, O, T0) /\ DOMAIN U = DOMAIN T /\ Place(U, O, <<x, q.at>>)
<1>1. Tables(T) /\ Forest(T, R) /\ DOMAIN U = DOMAIN T
  BY DEF Apart
<1>2. U[x] = q.t /\ \A y \in DOMAIN T : y # x => U[y] = T[y]
  BY <1>1 DEF Tables
<1>3. Table(q.t) /\ q.at \in UsedIn(q.t)
  BY DEF Inserted
<1>4. Tables(U)
  <2>1. \A y \in DOMAIN U : Table(U[y])
    BY <1>1, <1>2, <1>3 DEF Tables
  <2>2. U = [y \in DOMAIN U |-> U[y]]
    BY <1>1 DEF Tables
  <2>3. QED
    BY <1>1, <2>1, <2>2 DEF Tables
<1>5. /\ Held(T[x]) \subseteq Held(q.t) /\ Kids(q.t) = Kids(T[x])
      /\ \A h \in Held(q.t) : h[3] # 0 => h \in Held(T[x])
  BY InsertedKids
<1>6. Forest(U, R)
  <2>1. ASSUME NEW y \in DOMAIN T PROVE Alike(T[y], U[y])
    BY <1>2, <1>5 DEF Alike
  <2>2. QED
    BY <1>1, <1>4, <2>1, ForestSame
<1>7. \A y \in DOMAIN T : Kids(U[y]) = Kids(T[y])
  BY <1>2, <1>5
<1>8. O \subseteq DOMAIN U /\ \A y \in O : U[y] = T0[y]
  BY <1>1, <1>2 DEF Apart
<1>9. \A y \in DOMAIN U \ O : Kids(U[y]) \cap O = {}
  BY <1>1, <1>7 DEF Apart
<1>10. Place(U, O, <<x, q.at>>)
  BY <1>1, <1>2, <1>3 DEF Place
<1>11. QED
  BY <1>1, <1>4, <1>6, <1>8, <1>9, <1>10 DEF Apart

\* The table of the next character, 0 when there is none yet; then a new one is made.
StepId(s) == IF s.at[2] = -1 THEN s.at[1] ELSE s.T[s.at[1]].node[s.at[2]].value
StepTables(s) == IF StepId(s) # 0 THEN s.T
                 ELSE [i \in DOMAIN s.T \cup {Min(Free(s.T))} |->
                         IF i = Min(Free(s.T)) THEN table_new
                         ELSE IF i = s.at[1] THEN [s.T[i] EXCEPT !.node[s.at[2]].value = Min(Free(s.T))]
                         ELSE s.T[i]]
StepTable(s) == IF StepId(s) # 0 THEN StepId(s) ELSE Min(Free(s.T))

\* Nothing is inserted any more.
Stopped(s, rune, r) == (s.ok = FALSE \/ rune = Bad) /\ r = [ok |-> FALSE, T |-> s.T, at |-> s.at]
\* The character goes in table x of the tables U.
Stepped(s, rune, r, x, U, q) ==
  /\ s.ok /\ rune \in Nat /\ Entered(s.T, s.at, x, U) /\ Inserted(U[x], rune, q)
  /\ r = [ok |-> TRUE, T |-> [U EXCEPT ![x] = q.t], at |-> <<x, q.at>>]

\* What one step does.
LEMMA StepIs ==
  ASSUME NEW R, NEW O, NEW T0, NEW s, Growing(s, R, O, T0), NEW rune \in Runes \cup {Bad},
         s.at[2] = -1 \/ Free(s.T) # {}, NEW r, r = Step(s, rune)
  PROVE  Stopped(s, rune, r) \/ \E x, U, q : Stepped(s, rune, r, x, U, q)
<1>1. PICK T, at : T = s.T /\ at = s.at
  OBVIOUS
<1>2. s = [ok |-> s.ok, T |-> T, at |-> at] /\ s.ok \in BOOLEAN /\ Apart(T, R, O, T0) /\ Place(T, O, at)
  BY <1>1 DEF Growing
<1>3. CASE s.ok = FALSE \/ rune = Bad
  <2>1. r = [s EXCEPT !.ok = FALSE]
    BY <1>3 DEF Step
  <2>2. PICK b : s = [ok |-> b, T |-> T, at |-> at]
    BY <1>2
  <2>3. r = [ok |-> FALSE, T |-> T, at |-> at]
    BY <2>1, <2>2
  <2>4. QED
    BY <1>1, <1>3, <2>3 DEF Stopped
<1>4. CASE ~ (s.ok = FALSE \/ rune = Bad)
  <2>1. s.ok /\ rune \in Nat
    BY <1>2, <1>4, CrabAssumption
  <2>2. PICK p, last, id, new : p = s.at[1] /\ last = s.at[2] /\ id = StepId(s) /\ new = Min(Free(s.T))
    OBVIOUS
  <2>3. PICK U : U = StepTables(s)
    OBVIOUS
  <2>4. PICK x : x = StepTable(s)
    OBVIOUS
  <2>5. PICK q : q = table_insert(U[x], rune)
    OBVIOUS
  <2>6. r = [ok |-> TRUE, T |-> [U EXCEPT ![x] = q.t], at |-> <<x, q.at>>]
    <3>1. r = LET q0 == table_insert(StepTables(s)[StepTable(s)], rune)
              IN [ok |-> TRUE, T |-> [StepTables(s) EXCEPT ![StepTable(s)] = q0.t],
                  at |-> <<StepTable(s), q0.at>>]
      BY <1>4 DEF Step, StepTables, StepTable, StepId
    <3>2. QED
      BY <2>3, <2>4, <2>5, <3>1, Zenon
  <2>7. p \in DOMAIN T \ O /\ (last = -1 \/ last \in UsedIn(T[p]))
    BY <1>2, <2>2 DEF Place
  <2>8. p # 0 /\ Table(T[p]) /\ T = [y \in DOMAIN T |-> T[y]]
    BY <1>2, <2>7, TableNames DEF Apart, Tables
  <2>9. Entered(T, at, x, U)
    <3>1. CASE last = -1
      <4>1. id = p
        BY <2>2, <3>1 DEF StepId
      <4>2. U = T /\ x = p
        BY <1>1, <2>2, <2>3, <2>4, <2>8, <4>1 DEF StepTables, StepTable
      <4>3. QED
        BY <1>1, <2>2, <3>1, <4>2 DEF Entered
    <3>2. CASE last # -1 /\ id # 0
      <4>1. id = T[p].node[last].value
        BY <1>1, <2>2, <3>2 DEF StepId
      <4>2. U = T /\ x = id
        BY <1>1, <2>2, <2>3, <2>4, <3>2 DEF StepTables, StepTable
      <4>3. QED
        BY <1>1, <2>2, <3>2, <4>1, <4>2 DEF Entered
    <3>3. CASE last # -1 /\ id = 0
      <4>1. T[p].node[last].value = 0 /\ x = new
        BY <1>1, <2>2, <2>4, <3>3 DEF StepId, StepTable
      <4>2. new \in Free(T) /\ new \notin DOMAIN T
        <5>1. Free(T) \in SUBSET Nat /\ Free(T) # {}
          BY <1>1, <2>2, <3>3, CrabAssumption DEF Free
        <5>2. new \in Free(T)
          BY <1>1, <2>2, <5>1, Least
        <5>3. QED
          BY <5>2 DEF Free
      <4>3. U = [i \in DOMAIN s.T \cup {Min(Free(s.T))} |->
                   IF i = Min(Free(s.T)) THEN table_new
                   ELSE IF i = s.at[1] THEN Valued(s.T[i], s.at[2], Min(Free(s.T)))
                   ELSE s.T[i]]
        BY <2>2, <2>3, <3>3 DEF StepTables, Valued
      <4>4. U = [i \in DOMAIN T \cup {new} |->
                   IF i = new THEN table_new ELSE IF i = p THEN Valued(T[i], last, new) ELSE T[i]]
        BY <1>1, <2>2, <4>3
      <4>5. DOMAIN U = DOMAIN T \cup {new} /\ U = [i \in DOMAIN U |-> U[i]]
        BY <4>4
      <4>6. U[new] = emptytable(1)
        BY <4>4 DEF table_new
      <4>7. Table(U[new]) /\ Held(U[new]) = {}
        BY <4>6, EmptyTable
      <4>8. U[p] = Valued(T[p], last, new)
        BY <2>7, <4>2, <4>4
      <4>9. \A y \in DOMAIN T : y # p => U[y] = T[y]
        BY <4>2, <4>4
      <4>10. Links(T, p, last, new, U)
        BY <4>2, <4>5, <4>7, <4>8, <4>9 DEF Links
      <4>11. QED
        BY <1>1, <2>2, <3>3, <4>1, <4>10 DEF Entered
    <3>4. QED
      BY <3>1, <3>2, <3>3
  <2>10. Table(U[x])
    <3>1. Apart(U, R, O, T0) /\ x \in DOMAIN U
      BY <1>2, <2>9, EnteredApart
    <3>2. QED
      BY <3>1, TableNames DEF Apart
  <2>11. Inserted(U[x], rune, q)
    BY <2>1, <2>5, <2>10, InsertInserts
  <2>12. QED
    <3>1. Stepped(s, rune, r, x, U, q)
      BY <1>1, <2>1, <2>6, <2>9, <2>11 DEF Stepped
    <3>2. QED
      BY <3>1
<1>5. QED
  BY <1>3, <1>4

\* A step makes at most one table, and the first step none.
OneMore(s, r) == \/ DOMAIN r.T = DOMAIN s.T
                 \/ s.at[2] # -1 /\ \E new \in Free(s.T) : DOMAIN r.T = DOMAIN s.T \cup {new}

LEMMA StepGrows ==
  ASSUME NEW R, NEW O, NEW T0, NEW s, Growing(s, R, O, T0), NEW rune \in Runes \cup {Bad},
         s.at[2] = -1 \/ Free(s.T) # {}, NEW r, r = Step(s, rune)
  PROVE  Growing(r, R, O, T0) /\ OneMore(s, r)
<1>1. PICK T, at : T = s.T /\ at = s.at
  OBVIOUS
<1>2. Apart(T, R, O, T0) /\ Place(T, O, at)
  BY <1>1 DEF Growing
<1>3. CASE r = [ok |-> FALSE, T |-> T, at |-> at]
  BY <1>1, <1>2, <1>3 DEF Growing, OneMore
<1>4. ASSUME NEW x, NEW U, NEW q, Entered(T, at, x, U), Inserted(U[x], rune, q),
             r = [ok |-> TRUE, T |-> [U EXCEPT ![x] = q.t], at |-> <<x, q.at>>]
      PROVE  /\ Growing(r, R, O, T0)
             /\ \/ DOMAIN r.T = DOMAIN T
                \/ at[2] # -1 /\ \E new \in Free(T) : DOMAIN r.T = DOMAIN T \cup {new}
  <2>1. Apart(U, R, O, T0) /\ x \in DOMAIN U \ O
    BY <1>2, <1>4, EnteredApart
  <2>2. PICK V : V = [U EXCEPT ![x] = q.t]
    OBVIOUS
  <2>3. Apart(V, R, O, T0) /\ DOMAIN V = DOMAIN U /\ Place(V, O, <<x, q.at>>)
    BY <1>4, <2>1, <2>2, InsertedApart
  <2>4. r = [ok |-> TRUE, T |-> V, at |-> <<x, q.at>>]
    BY <1>4, <2>2
  <2>5. Growing(r, R, O, T0)
    BY <2>3, <2>4 DEF Growing
  <2>6. \/ DOMAIN U = DOMAIN T
        \/ at[2] # -1 /\ \E new \in Free(T) : DOMAIN U = DOMAIN T \cup {new}
    <3>1. CASE U = T
      BY <3>1
    <3>2. CASE at[2] # -1 /\ Links(T, at[1], at[2], x, U)
      <4>1. x \in Free(T) /\ DOMAIN U = DOMAIN T \cup {x}
        BY <3>2, Zenon DEF Links
      <4>2. QED
        BY <3>2, <4>1
    <3>3. QED
      BY <1>4, <3>1, <3>2 DEF Entered
  <2>7. DOMAIN r.T = DOMAIN U
    BY <2>3, <2>4
  <2>8. QED
    BY <2>5, <2>6, <2>7, Zenon
<1>5. ASSUME NEW x, NEW U, NEW q, Stepped(s, rune, r, x, U, q)
      PROVE  Growing(r, R, O, T0) /\ OneMore(s, r)
  BY <1>1, <1>4, <1>5, Zenon DEF OneMore, Stepped
<1>6. Stopped(s, rune, r) \/ \E x, U, q : Stepped(s, rune, r, x, U, q)
  BY StepIs
<1>7. QED
  BY <1>1, <1>3, <1>5, <1>6 DEF Stopped

-----------------------------------------------------------------------------
(* A word                                                                    *)

\* The states of _dict_insert behind the first n characters of a word.
Letters(T, dict, word, n, f) ==
  f = [k \in 0 .. n |-> IF k = 0 THEN [ok |-> TRUE, T |-> T, at |-> <<dict, -1>>]
                        ELSE Step(f[k - 1], word[k])]

LEMMA LettersExist ==
  ASSUME NEW T, NEW dict, NEW word, NEW n \in Nat
  PROVE  \E f : Letters(T, dict, word, n, f)
<1> DEFINE start == [ok |-> TRUE, T |-> T, at |-> <<dict, -1>>]
           S == {m \in Nat : \E f : Letters(T, dict, word, m, f)}
<1>1. 0 \in S
  <2>1. PICK f : f = [k \in 0 .. 0 |-> start]
    OBVIOUS
  <2>2. f = [k \in 0 .. 0 |-> IF k = 0 THEN start ELSE Step(f[k - 1], word[k])]
    BY <2>1
  <2>3. QED
    BY <2>2 DEF Letters
<1>2. ASSUME NEW m \in Nat, m \in S PROVE m + 1 \in S
  <2>1. PICK f : Letters(T, dict, word, m, f)
    BY <1>2
  <2>2. PICK g : g = [k \in 0 .. m + 1 |-> IF k <= m THEN f[k] ELSE Step(f[m], word[m + 1])]
    OBVIOUS
  <2>3. ASSUME NEW k \in 0 .. m + 1
        PROVE  g[k] = IF k = 0 THEN start ELSE Step(g[k - 1], word[k])
    <3>1. CASE k = 0
      <4>1. 0 \in 0 .. m /\ 0 <= m
        OBVIOUS
      <4>2. f[0] = start
        BY <2>1, <4>1 DEF Letters
      <4>3. QED
        BY <2>2, <3>1, <4>1, <4>2
    <3>2. CASE k # 0 /\ k <= m
      <4>1. k \in 0 .. m /\ k - 1 \in 0 .. m + 1 /\ k - 1 <= m
        BY <3>2
      <4>2. f[k] = Step(f[k - 1], word[k])
        BY <2>1, <3>2, <4>1 DEF Letters
      <4>3. g[k] = f[k] /\ g[k - 1] = f[k - 1]
        BY <2>2, <3>2, <4>1
      <4>4. QED
        BY <3>2, <4>2, <4>3
    <3>3. CASE k = m + 1
      <4>1. ~ (k <= m) /\ k # 0 /\ k - 1 = m /\ m \in 0 .. m + 1 /\ m <= m
        BY <3>3
      <4>2. g[k] = Step(f[m], word[m + 1]) /\ g[m] = f[m]
        BY <2>2, <4>1
      <4>3. QED
        BY <3>3, <4>1, <4>2
    <3>4. QED
      BY <3>1, <3>2, <3>3
  <2>4. g = [k \in 0 .. m + 1 |-> g[k]]
    BY <2>2
  <2>5. g = [k \in 0 .. m + 1 |-> IF k = 0 THEN start ELSE Step(g[k - 1], word[k])]
    BY <2>3, <2>4
  <2>6. QED
    BY <2>5 DEF Letters
<1> HIDE DEF S
<1>3. n \in S
  BY <1>1, <1>2, AllNumbers
<1>4. QED
  BY <1>3 DEF S

\* The last step of _dict_insert.
Ended(s) == IF s.ok /\ s.at[2] # -1 THEN [s EXCEPT !.T[s.at[1]].node[s.at[2]].flag = "o"] ELSE s

\* The tables that n characters may take: the first one takes none.
Cost(n) == IF n = 0 THEN 0 ELSE n - 1

LEMMA CostIs ==
  ASSUME NEW n \in Nat
  PROVE  Max({1, n}) - 1 = Cost(n) /\ Cost(n) \in Nat /\ Cost(n + 1) \in Cost(n) .. Cost(n) + 1
<1>1. PICK R, b : R = {1, n} /\ b = n + 1
  OBVIOUS
<1>2. R \in SUBSET (-1 .. b) /\ R # {} /\ b \in Int
  BY <1>1
<1>3. Max(R) \in R /\ \A i \in R : Max(R) >= i
  BY <1>2, Greatest
<1>4. Max(R) = IF n = 0 THEN 1 ELSE n
  BY <1>1, <1>3
<1>5. QED
  BY <1>1, <1>4 DEF Cost

LEMMA FreeCount ==
  ASSUME NEW T
  PROVE  /\ IsFiniteSet(Free(T)) /\ Cardinality(Free(T)) \in Nat
         /\ Cardinality(Free(T)) # 0 => Free(T) # {}
         /\ \A new \in Free(T) : \A U : DOMAIN U = DOMAIN T \cup {new}
                                    => Cardinality(Free(U)) = Cardinality(Free(T)) - 1
         /\ \A U : DOMAIN U = DOMAIN T => Free(U) = Free(T)
<1>1. IsFiniteSet(1 .. MaxTables)
  BY FS_Interval, CrabAssumption
<1>2. IsFiniteSet(Free(T))
  BY <1>1, FS_Subset DEF Free
<1>3. Cardinality(Free(T)) \in Nat /\ (Cardinality(Free(T)) = 0 <=> Free(T) = {})
  BY <1>2, FS_CardinalityType, FS_EmptySet
<1>4. ASSUME NEW new \in Free(T), NEW U, DOMAIN U = DOMAIN T \cup {new}
      PROVE  Cardinality(Free(U)) = Cardinality(Free(T)) - 1
  <2>1. Free(U) = Free(T) \ {new}
    BY <1>4 DEF Free
  <2>2. QED
    BY <1>2, <2>1, FS_RemoveElement
<1>5. \A U : DOMAIN U = DOMAIN T => Free(U) = Free(T)
  BY DEF Free
<1>6. QED
  BY <1>2, <1>3, <1>4, <1>5

\* The state behind the first k characters, with tables enough for the next.
Spelling(f, R, O, T0, k, n, free) ==
  /\ Growing(f[k], R, O, T0)
  /\ k = 0 => f[k].at[2] = -1
  /\ Cardinality(Free(f[k].T)) + Cost(k) >= free
  /\ k < n => f[k].at[2] = -1 \/ Free(f[k].T) # {}

LEMMA LettersGrow ==
  ASSUME NEW T, NEW R, NEW O, NEW T0, Apart(T, R, O, T0), NEW dict \in DOMAIN T \ O,
         NEW word \in Seq(Runes \cup {Bad}), Cardinality(Free(T)) >= Cost(Len(word))
  PROVE  \E f : /\ Letters(T, dict, word, Len(word), f)
                /\ _dict_insert(T, dict, word) = Ended(f[Len(word)])
                /\ \A k \in 0 .. Len(word) : Spelling(f, R, O, T0, k, Len(word), Cardinality(Free(T)))
<1>1. PICK n, free : n = Len(word) /\ free = Cardinality(Free(T))
  OBVIOUS
<1>2. n \in Nat /\ free \in Nat /\ \A k \in 1 .. n : word[k] \in Runes \cup {Bad}
  BY <1>1, FreeCount
<1>3. PICK f : f = CHOOSE g : Letters(T, dict, word, n, g)
  OBVIOUS
<1>4. Letters(T, dict, word, n, f)
  BY <1>2, <1>3, LettersExist
<1>5. _dict_insert(T, dict, word) = Ended(f[n])
  BY <1>1, <1>3 DEF _dict_insert, Letters, Ended
<1> DEFINE S == {k \in Nat : k <= n => Spelling(f, R, O, T0, k, n, free)}
<1>6. ASSUME NEW k \in Nat, k <= n, Growing(f[k], R, O, T0), k = 0 => f[k].at[2] = -1,
             Cardinality(Free(f[k].T)) + Cost(k) >= free
      PROVE  Spelling(f, R, O, T0, k, n, free)
  <2>1. ASSUME k < n, k # 0 PROVE Free(f[k].T) # {}
    <3>1. Cost(k) < Cost(n)
      BY <1>2, <2>1 DEF Cost
    <3>2. Cost(k) \in Nat /\ Cost(n) \in Nat /\ Cardinality(Free(f[k].T)) \in Nat
      BY <1>2, CostIs, FreeCount
    <3>3. Cardinality(Free(f[k].T)) # 0
      BY <1>1, <1>2, <1>6, <3>1, <3>2
    <3>4. QED
      BY <3>3, FreeCount
  <2>2. QED
    BY <1>6, <2>1 DEF Spelling
<1>7. 0 \in S
  <2>1. f[0] = [ok |-> TRUE, T |-> T, at |-> <<dict, -1>>]
    BY <1>2, <1>4 DEF Letters
  <2>2. f[0].T = T /\ f[0].at = <<dict, -1>> /\ f[0].ok = TRUE /\ f[0].at[2] = -1
    BY <2>1
  <2>3. Growing(f[0], R, O, T0)
    <3>1. PICK s, at : s = f[0] /\ at = <<dict, -1>>
      OBVIOUS
    <3>2. s = [ok |-> TRUE, T |-> T, at |-> at] /\ at[1] = dict /\ at[2] = -1 /\ at = <<at[1], at[2]>>
      BY <2>1, <3>1
    <3>3. s.ok = TRUE /\ s.T = T /\ s.at = at
      BY <3>2
    <3>4. Place(T, O, at)
      BY <3>2 DEF Place
    <3>5. s = [ok |-> s.ok, T |-> s.T, at |-> s.at]
      BY <3>2, <3>3
    <3>6. Growing(s, R, O, T0)
      BY <3>3, <3>4, <3>5 DEF Growing
    <3>7. QED
      BY <3>1, <3>6
  <2>4. Cardinality(Free(f[0].T)) + Cost(0) >= free
    BY <1>1, <1>2, <2>2 DEF Cost
  <2>5. QED
    BY <1>2, <1>6, <2>2, <2>3, <2>4
<1>8. ASSUME NEW k \in Nat, k \in S PROVE k + 1 \in S
  <2>1. SUFFICES ASSUME k + 1 <= n PROVE Spelling(f, R, O, T0, k + 1, n, free)
    OBVIOUS
  <2>2. k < n /\ k <= n /\ k + 1 \in 0 .. n /\ k + 1 \in 1 .. n /\ k + 1 # 0 /\ (k + 1) - 1 = k
    BY <1>2, <2>1
  <2>3. Spelling(f, R, O, T0, k, n, free)
    BY <1>8, <2>2
  <2>4. f[k + 1] = Step(f[k], word[k + 1])
    BY <1>4, <2>2 DEF Letters
  <2>5. PICK s, r, rune : s = f[k] /\ r = f[k + 1] /\ rune = word[k + 1]
    OBVIOUS
  <2>6. /\ Growing(s, R, O, T0) /\ (k = 0 => s.at[2] = -1)
        /\ Cardinality(Free(s.T)) + Cost(k) >= free /\ (s.at[2] = -1 \/ Free(s.T) # {})
    BY <2>2, <2>3, <2>5 DEF Spelling
  <2>7. r = Step(s, rune) /\ rune \in Runes \cup {Bad}
    BY <1>2, <2>2, <2>4, <2>5
  <2>8. Growing(r, R, O, T0) /\ OneMore(s, r)
    BY <2>6, <2>7, StepGrows
  <2>9. Cost(k) \in Nat /\ Cost(k + 1) \in Nat /\ Cost(k + 1) >= Cost(k) /\ (k # 0 => Cost(k + 1) = Cost(k) + 1)
    BY CostIs DEF Cost
  <2>10. Cardinality(Free(s.T)) \in Nat /\ Cardinality(Free(r.T)) \in Nat
    BY FreeCount
  <2>11. \/ Cardinality(Free(r.T)) = Cardinality(Free(s.T))
         \/ k # 0 /\ Cardinality(Free(r.T)) = Cardinality(Free(s.T)) - 1
    <3>1. CASE DOMAIN r.T = DOMAIN s.T
      BY <3>1, FreeCount
    <3>2. CASE s.at[2] # -1 /\ \E new \in Free(s.T) : DOMAIN r.T = DOMAIN s.T \cup {new}
      BY <2>6, <3>2, FreeCount
    <3>3. QED
      BY <2>8, <3>1, <3>2 DEF OneMore
  <2>12. Cardinality(Free(r.T)) + Cost(k + 1) >= free
    BY <1>2, <2>6, <2>9, <2>10, <2>11
  <2>13. QED
    BY <1>6, <2>1, <2>2, <2>5, <2>8, <2>12
<1>9. \A k \in 0 .. n : Spelling(f, R, O, T0, k, n, free)
  <2> HIDE DEF S
  <2>1. Nat \subseteq S
    BY <1>7, <1>8, AllNumbers
  <2>2. QED
    BY <1>2, <2>1 DEF S
<1>10. QED
  BY <1>1, <1>4, <1>5, <1>9

\* The end of a word gets its flag.
LEMMA FlagApart ==
  ASSUME NEW T, NEW R, NEW O, NEW T0, Apart(T, R, O, T0), NEW x \in DOMAIN T \ O, NEW i \in UsedIn(T[x]),
         NEW U, U = [T EXCEPT ![x] = Flagged(T[x], i, "o")]
  PROVE  Apart(U, R, O, T0) /\ DOMAIN U = DOMAIN T /\ Place(U, O, <<x, i>>)
<1>1. Tables(T) /\ Forest(T, R) /\ DOMAIN U = DOMAIN T
  BY DEF Apart
<1>2. PICK t, u : t = T[x] /\ u = Flagged(t, i, "o")
  OBVIOUS
<1>3. U[x] = u /\ \A y \in DOMAIN T : y # x => U[y] = T[y]
  BY <1>1, <1>2 DEF Tables
<1>4. Table(t) /\ i \in UsedIn(t)
  BY <1>1, <1>2, TableNames
<1>5. PICK k, f, v : k = t.node[i].key /\ f = t.node[i].flag /\ v = t.node[i].value
  OBVIOUS
<1>6. Label(t.node[i]) = <<k, f, v>> /\ <<k, f, v>> \in Held(t)
  BY <1>4, <1>5 DEF Held, Label
<1>7. Table(u) /\ UsedIn(u) = UsedIn(t) /\ Held(u) = Swapped(Held(t), <<k, f, v>>, <<k, "o", v>>)
  <2>1. "o" \in {"n", "o"}
    OBVIOUS
  <2>2. /\ Table(u) /\ UsedIn(u) = UsedIn(t)
        /\ Held(u) = Swapped(Held(t), Label(t.node[i]), <<t.node[i].key, "o", t.node[i].value>>)
    BY <1>2, <1>4, <2>1, FlaggedIs
  <2>3. QED
    BY <1>5, <1>6, <2>2, Zenon
<1>8. Tables(U)
  <2>1. \A y \in DOMAIN U : Table(U[y])
    BY <1>1, <1>3, <1>7 DEF Tables
  <2>2. U = [y \in DOMAIN U |-> U[y]]
    BY <1>1 DEF Tables
  <2>3. QED
    BY <1>1, <2>1, <2>2 DEF Tables
<1>9. PICK a, b : a = <<k, f, v>> /\ b = <<k, "o", v>>
  OBVIOUS
<1>10. a[1] = k /\ b[1] = k /\ a[3] = v /\ b[3] = v
  BY <1>9
<1>11. a \in Held(t) /\ Held(u) = (Held(t) \ {a}) \cup {b}
  BY <1>6, <1>7, <1>9 DEF Swapped
<1>12. {h[3] : h \in Held(u)} = {h[3] : h \in Held(t)}
  BY <1>10, <1>11
<1>13. Kids(u) = Kids(t) /\ Alike(t, u)
  <2>1. Kids(u) = Kids(t)
    BY <1>12 DEF Kids
  <2>2. \A h \in Held(u) : \E g \in Held(t) : g[1] = h[1] /\ g[3] = h[3]
    BY <1>10, <1>11
  <2>3. QED
    BY <2>1, <2>2 DEF Alike
<1>14. Forest(U, R)
  <2>1. ASSUME NEW y \in DOMAIN T PROVE Alike(T[y], U[y])
    <3>1. CASE y = x
      BY <1>2, <1>3, <1>13, <3>1
    <3>2. CASE y # x
      BY <1>3, <3>2 DEF Alike
    <3>3. QED
      BY <3>1, <3>2
  <2>2. QED
    BY <1>1, <1>8, <2>1, ForestSame
<1>15. \A y \in DOMAIN T : Kids(U[y]) = Kids(T[y])
  BY <1>2, <1>3, <1>13
<1>16. O \subseteq DOMAIN U /\ \A y \in O : U[y] = T0[y]
  BY <1>1, <1>3 DEF Apart
<1>17. \A y \in DOMAIN U \ O : Kids(U[y]) \cap O = {}
  BY <1>1, <1>15 DEF Apart
<1>18. Place(U, O, <<x, i>>)
  BY <1>1, <1>3, <1>4, <1>7 DEF Place
<1>19. QED
  BY <1>1, <1>8, <1>14, <1>16, <1>17, <1>18 DEF Apart

\* The tables behind the last step.
EndTables(s) == IF s.ok /\ s.at[2] # -1
                THEN [s.T EXCEPT ![s.at[1]] = Flagged(s.T[s.at[1]], s.at[2], "o")] ELSE s.T

LEMMA EndedGrows ==
  ASSUME NEW R, NEW O, NEW T0, NEW s, Growing(s, R, O, T0), NEW r, r = Ended(s)
  PROVE  /\ Growing(r, R, O, T0) /\ DOMAIN r.T = DOMAIN s.T /\ r.ok = s.ok /\ r.at = s.at
         /\ r.T = EndTables(s)
<1>1. PICK ok, T, at : ok = s.ok /\ T = s.T /\ at = s.at
  OBVIOUS
<1>2. s = [ok |-> ok, T |-> T, at |-> at] /\ ok \in BOOLEAN /\ Apart(T, R, O, T0) /\ Place(T, O, at)
  BY <1>1 DEF Growing
<1>3. CASE ~ (ok /\ at[2] # -1)
  <2>1. ~ (s.ok /\ s.at[2] # -1)
    BY <1>1, <1>3
  <2>2. r = s
    BY <2>1, Zenon DEF Ended
  <2>3. QED
    BY <2>1, <2>2, Zenon DEF EndTables
<1>4. CASE ok /\ at[2] # -1
  <2>1. PICK x, i : x = at[1] /\ i = at[2]
    OBVIOUS
  <2>2. x \in DOMAIN T \ O /\ i \in UsedIn(T[x]) /\ at = <<x, i>>
    BY <1>2, <1>4, <2>1 DEF Place
  <2>3. PICK U : U = [T EXCEPT ![x] = Flagged(T[x], i, "o")]
    OBVIOUS
  <2>4. Apart(U, R, O, T0) /\ DOMAIN U = DOMAIN T /\ Place(U, O, <<x, i>>)
    BY <1>2, <2>2, <2>3, FlagApart
  <2>5. r = [s EXCEPT !.T[s.at[1]].node[s.at[2]].flag = "o"]
    BY <1>1, <1>4 DEF Ended
  <2>6. r = [s EXCEPT !.T[x].node[i].flag = "o"]
    BY <1>1, <2>1, <2>5, Zenon
  <2>7. r = [s EXCEPT !.T = [s.T EXCEPT ![x] = Flagged(s.T[x], i, "o")]]
    BY <2>6 DEF Flagged
  <2>8. r = [s EXCEPT !.T = U]
    BY <1>1, <2>3, <2>7, Zenon
  <2>9. r = [ok |-> ok, T |-> U, at |-> at]
    BY <1>2, <2>8
  <2>10. r.ok = ok /\ r.T = U /\ r.at = at
    BY <2>9
  <2>11. Growing(r, R, O, T0)
    BY <1>2, <2>2, <2>4, <2>9, <2>10 DEF Growing
  <2>12. s.ok /\ s.at[2] # -1 /\ U = [s.T EXCEPT ![s.at[1]] = Flagged(s.T[s.at[1]], s.at[2], "o")]
    BY <1>1, <1>4, <2>1, <2>3, Zenon
  <2>13. QED
    BY <1>1, <2>4, <2>10, <2>11, <2>12, Zenon DEF EndTables
<1>5. QED
  BY <1>3, <1>4

\* A whole word.
LEMMA WordGrows ==
  ASSUME NEW T, NEW R, NEW O, NEW T0, Apart(T, R, O, T0), NEW dict \in DOMAIN T \ O,
         NEW word \in Seq(Runes \cup {Bad}), Cardinality(Free(T)) >= Cost(Len(word)),
         NEW r, r = _dict_insert(T, dict, word)
  PROVE  Growing(r, R, O, T0) /\ Cardinality(Free(r.T)) + Cost(Len(word)) >= Cardinality(Free(T))
<1>1. PICK n, free : n = Len(word) /\ free = Cardinality(Free(T))
  OBVIOUS
<1>2. n \in 0 .. n
  <2>1. n \in Nat
    BY <1>1
  <2>2. QED
    BY <2>1
<1>3. PICK f : /\ _dict_insert(T, dict, word) = Ended(f[n])
               /\ \A k \in 0 .. n : Spelling(f, R, O, T0, k, n, free)
  BY <1>1, LettersGrow
<1>4. Growing(f[n], R, O, T0) /\ Cardinality(Free(f[n].T)) + Cost(n) >= free
  BY <1>2, <1>3 DEF Spelling
<1>5. r = Ended(f[n])
  BY <1>3
<1>6. Growing(r, R, O, T0) /\ DOMAIN r.T = DOMAIN f[n].T
  BY <1>4, <1>5, EndedGrows
<1>7. Free(r.T) = Free(f[n].T)
  BY <1>6 DEF Free
<1>8. QED
  BY <1>1, <1>4, <1>6, <1>7

-----------------------------------------------------------------------------
(* A list of words                                                           *)

\* One word of the list: none behind a wrong one.
OpenStep(s, dict, w) == IF s.ok THEN _dict_insert(s.T, dict, w) ELSE s

\* The states of dict_open behind the first n words.
Opens(T, dict, ws, n, f) ==
  f = [k \in 0 .. n |-> IF k = 0 THEN [ok |-> TRUE, T |-> T, at |-> <<dict, -1>>]
                        ELSE OpenStep(f[k - 1], dict, ws[k])]

LEMMA OpensExist ==
  ASSUME NEW T, NEW dict, NEW ws, NEW n \in Nat
  PROVE  \E f : Opens(T, dict, ws, n, f)
<1> DEFINE start == [ok |-> TRUE, T |-> T, at |-> <<dict, -1>>]
           S == {m \in Nat : \E f : Opens(T, dict, ws, m, f)}
<1>1. 0 \in S
  <2>1. PICK f : f = [k \in 0 .. 0 |-> start]
    OBVIOUS
  <2>2. f = [k \in 0 .. 0 |-> IF k = 0 THEN start ELSE OpenStep(f[k - 1], dict, ws[k])]
    BY <2>1
  <2>3. QED
    BY <2>2 DEF Opens
<1>2. ASSUME NEW m \in Nat, m \in S PROVE m + 1 \in S
  <2>1. PICK f : Opens(T, dict, ws, m, f)
    BY <1>2
  <2>2. PICK g : g = [k \in 0 .. m + 1 |-> IF k <= m THEN f[k] ELSE OpenStep(f[m], dict, ws[m + 1])]
    OBVIOUS
  <2>3. ASSUME NEW k \in 0 .. m + 1
        PROVE  g[k] = IF k = 0 THEN start ELSE OpenStep(g[k - 1], dict, ws[k])
    <3>1. CASE k = 0
      <4>1. 0 \in 0 .. m /\ 0 <= m
        OBVIOUS
      <4>2. f[0] = start
        BY <2>1, <4>1 DEF Opens
      <4>3. QED
        BY <2>2, <3>1, <4>1, <4>2
    <3>2. CASE k # 0 /\ k <= m
      <4>1. k \in 0 .. m /\ k - 1 \in 0 .. m + 1 /\ k - 1 <= m
        BY <3>2
      <4>2. f[k] = OpenStep(f[k - 1], dict, ws[k])
        BY <2>1, <3>2, <4>1 DEF Opens
      <4>3. g[k] = f[k] /\ g[k - 1] = f[k - 1]
        BY <2>2, <3>2, <4>1
      <4>4. QED
        BY <3>2, <4>2, <4>3
    <3>3. CASE k = m + 1
      <4>1. ~ (k <= m) /\ k # 0 /\ k - 1 = m /\ m \in 0 .. m + 1 /\ m <= m
        BY <3>3
      <4>2. g[k] = OpenStep(f[m], dict, ws[m + 1]) /\ g[m] = f[m]
        BY <2>2, <4>1
      <4>3. QED
        BY <3>3, <4>1, <4>2
    <3>4. QED
      BY <3>1, <3>2, <3>3
  <2>4. g = [k \in 0 .. m + 1 |-> g[k]]
    BY <2>2
  <2>5. g = [k \in 0 .. m + 1 |-> IF k = 0 THEN start ELSE OpenStep(g[k - 1], dict, ws[k])]
    BY <2>3, <2>4
  <2>6. QED
    BY <2>5 DEF Opens
<1> HIDE DEF S
<1>3. n \in S
  BY <1>1, <1>2, AllNumbers
<1>4. QED
  BY <1>3 DEF S

\* The tables the first n words may take.
NeedStep(x, w) == x + Max({1, Len(w)}) - 1
Needs(ws, n, g) == g = [k \in 0 .. n |-> IF k = 0 THEN 0 ELSE NeedStep(g[k - 1], ws[k])]

LEMMA NeedsExist ==
  ASSUME NEW ws, NEW n \in Nat
  PROVE  \E f : Needs(ws, n, f)
<1> DEFINE start == 0
           S == {m \in Nat : \E f : Needs(ws, m, f)}
<1>1. 0 \in S
  <2>1. PICK f : f = [k \in 0 .. 0 |-> start]
    OBVIOUS
  <2>2. f = [k \in 0 .. 0 |-> IF k = 0 THEN start ELSE NeedStep(f[k - 1], ws[k])]
    BY <2>1
  <2>3. QED
    BY <2>2 DEF Needs
<1>2. ASSUME NEW m \in Nat, m \in S PROVE m + 1 \in S
  <2>1. PICK f : Needs(ws, m, f)
    BY <1>2
  <2>2. PICK g : g = [k \in 0 .. m + 1 |-> IF k <= m THEN f[k] ELSE NeedStep(f[m], ws[m + 1])]
    OBVIOUS
  <2>3. ASSUME NEW k \in 0 .. m + 1
        PROVE  g[k] = IF k = 0 THEN start ELSE NeedStep(g[k - 1], ws[k])
    <3>1. CASE k = 0
      <4>1. 0 \in 0 .. m /\ 0 <= m
        OBVIOUS
      <4>2. f[0] = start
        BY <2>1, <4>1 DEF Needs
      <4>3. QED
        BY <2>2, <3>1, <4>1, <4>2
    <3>2. CASE k # 0 /\ k <= m
      <4>1. k \in 0 .. m /\ k - 1 \in 0 .. m + 1 /\ k - 1 <= m
        BY <3>2
      <4>2. f[k] = NeedStep(f[k - 1], ws[k])
        BY <2>1, <3>2, <4>1 DEF Needs
      <4>3. g[k] = f[k] /\ g[k - 1] = f[k - 1]
        BY <2>2, <3>2, <4>1
      <4>4. QED
        BY <3>2, <4>2, <4>3
    <3>3. CASE k = m + 1
      <4>1. ~ (k <= m) /\ k # 0 /\ k - 1 = m /\ m \in 0 .. m + 1 /\ m <= m
        BY <3>3
      <4>2. g[k] = NeedStep(f[m], ws[m + 1]) /\ g[m] = f[m]
        BY <2>2, <4>1
      <4>3. QED
        BY <3>3, <4>1, <4>2
    <3>4. QED
      BY <3>1, <3>2, <3>3
  <2>4. g = [k \in 0 .. m + 1 |-> g[k]]
    BY <2>2
  <2>5. g = [k \in 0 .. m + 1 |-> IF k = 0 THEN start ELSE NeedStep(g[k - 1], ws[k])]
    BY <2>3, <2>4
  <2>6. QED
    BY <2>5 DEF Needs
<1> HIDE DEF S
<1>3. n \in S
  BY <1>1, <1>2, AllNumbers
<1>4. QED
  BY <1>3 DEF S

LEMMA NeedsGrow ==
  ASSUME NEW ws \in Seq(Seq(Runes \cup {Bad})), NEW g, Needs(ws, Len(ws), g)
  PROVE  /\ g[0] = 0 /\ \A k \in 0 .. Len(ws) : g[k] \in Nat
         /\ \A k \in Nat : k < Len(ws) => g[k + 1] = g[k] + Cost(Len(ws[k + 1])) /\ g[k + 1] <= g[Len(ws)]
<1>1. PICK n : n = Len(ws)
  OBVIOUS
<1>2. n \in Nat /\ \A k \in 1 .. n : Len(ws[k]) \in Nat
  BY <1>1
<1>3. g[0] = 0
  <2>1. 0 \in 0 .. n
    BY <1>2
  <2>2. QED
    BY <1>1, <2>1 DEF Needs
<1>4. ASSUME NEW k \in Nat, k < n, g[k] \in Nat
      PROVE  g[k + 1] = g[k] + Cost(Len(ws[k + 1])) /\ Cost(Len(ws[k + 1])) \in Nat
  <2>1. k + 1 \in 0 .. n /\ k + 1 \in 1 .. n /\ k + 1 # 0 /\ (k + 1) - 1 = k
    BY <1>2, <1>4
  <2>2. PICK l : l = Len(ws[k + 1])
    OBVIOUS
  <2>3. g[k + 1] = g[k] + Max({1, l}) - 1
    BY <1>1, <2>1, <2>2 DEF Needs, NeedStep
  <2>4. Max({1, l}) - 1 = Cost(l) /\ Cost(l) \in Nat
    BY <1>2, <2>1, <2>2, CostIs
  <2>5. Max({1, l}) \in Int
    <3>1. {1, l} \in SUBSET (-1 .. l + 1) /\ {1, l} # {} /\ l + 1 \in Int
      BY <1>2, <2>1, <2>2
    <3>2. Max({1, l}) \in {1, l}
      BY <3>1, Greatest
    <3>3. QED
      BY <1>2, <2>1, <2>2, <3>2
  <2>6. QED
    BY <1>4, <2>2, <2>3, <2>4, <2>5
<1> DEFINE S == {k \in Nat : k <= n => g[k] \in Nat}
<1>5. 0 \in S
  BY <1>3
<1>6. ASSUME NEW k \in Nat, k \in S PROVE k + 1 \in S
  BY <1>2, <1>4, <1>6
<1>7. \A k \in 0 .. n : g[k] \in Nat
  <2> HIDE DEF S
  <2>1. Nat \subseteq S
    BY <1>5, <1>6, AllNumbers
  <2>2. QED
    BY <1>2, <2>1 DEF S
<1> DEFINE P == {k \in Nat : k <= n => g[n - k] <= g[n]}
<1>8. 0 \in P
  BY <1>2, <1>7
<1>9. ASSUME NEW k \in Nat, k \in P PROVE k + 1 \in P
  <2>1. SUFFICES ASSUME k + 1 <= n PROVE g[n - (k + 1)] <= g[n]
    OBVIOUS
  <2>2. PICK j : j = n - (k + 1)
    OBVIOUS
  <2>3. j \in Nat /\ j < n /\ j + 1 = n - k /\ j \in 0 .. n /\ j + 1 \in 0 .. n
    BY <1>2, <2>1, <2>2
  <2>4. g[j] \in Nat /\ g[j + 1] = g[j] + Cost(Len(ws[j + 1])) /\ Cost(Len(ws[j + 1])) \in Nat
    BY <1>4, <1>7, <2>3
  <2>5. g[j + 1] <= g[n] /\ g[n] \in Nat
    <3>1. k <= n /\ n \in 0 .. n
      BY <1>2, <2>1
    <3>2. g[n - k] <= g[n]
      BY <1>9, <3>1
    <3>3. QED
      BY <1>7, <2>3, <3>1, <3>2
  <2>6. QED
    BY <2>2, <2>4, <2>5
<1>10. \A k \in 0 .. n : g[k] <= g[n]
  <2> HIDE DEF P
  <2>1. Nat \subseteq P
    BY <1>8, <1>9, AllNumbers
  <2>2. ASSUME NEW k \in 0 .. n PROVE g[k] <= g[n]
    <3>1. n - k \in Nat /\ n - k <= n /\ n - (n - k) = k
      BY <1>2
    <3>2. n - k \in P
      BY <2>1, <3>1
    <3>3. QED
      BY <3>1, <3>2 DEF P
  <2>3. QED
    BY <2>2
<1>11. ASSUME NEW k \in Nat, k < n
       PROVE  g[k + 1] = g[k] + Cost(Len(ws[k + 1])) /\ g[k + 1] <= g[n]
  <2>1. k \in 0 .. n /\ k + 1 \in 0 .. n
    BY <1>2, <1>11
  <2>2. QED
    BY <1>4, <1>7, <1>10, <1>11, <2>1
<1>12. QED
  BY <1>1, <1>3, <1>7, <1>11

LEMMA OpenedGrows ==
  ASSUME NEW T, NEW R, NEW O, NEW T0, Apart(T, R, O, T0), NEW dict \in R \ O,
         NEW ws \in Seq(Seq(Runes \cup {Bad})), NEW g, Needs(ws, Len(ws), g),
         Cardinality(Free(T)) >= g[Len(ws)]
  PROVE  \E f : /\ Opens(T, dict, ws, Len(ws), f) /\ opened(T, dict, ws) = f[Len(ws)]
                /\ \A k \in 0 .. Len(ws) : Growing(f[k], R, O, T0)
                /\ \A k \in Nat : k < Len(ws) => Cardinality(Free(f[k].T)) >= Cost(Len(ws[k + 1]))
<1>1. PICK n, free : n = Len(ws) /\ free = Cardinality(Free(T))
  OBVIOUS
<1>2. n \in Nat /\ free \in Nat /\ \A k \in 1 .. n : ws[k] \in Seq(Runes \cup {Bad}) /\ Len(ws[k]) \in Nat
  BY <1>1, FreeCount
<1>3. /\ g[0] = 0 /\ \A k \in 0 .. n : g[k] \in Nat
      /\ \A k \in Nat : k < n => g[k + 1] = g[k] + Cost(Len(ws[k + 1])) /\ g[k + 1] <= g[n]
  BY <1>1, NeedsGrow
<1>4. free >= g[n]
  BY <1>1
<1>5. PICK f : f = CHOOSE h : Opens(T, dict, ws, n, h)
  OBVIOUS
<1>6. Opens(T, dict, ws, n, f)
  BY <1>2, <1>5, OpensExist
<1>7. opened(T, dict, ws) = f[n]
  BY <1>1, <1>5 DEF opened, Opens, OpenStep
<1> DEFINE Right(k) == Growing(f[k], R, O, T0) /\ Cardinality(Free(f[k].T)) + g[k] >= free
           S == {k \in Nat : k <= n => Right(k)}
<1>8. 0 \in S
  <2>1. PICK s, at : s = f[0] /\ at = <<dict, -1>>
    OBVIOUS
  <2>2. 0 \in 0 .. n
    BY <1>2
  <2>3. f[0] = [ok |-> TRUE, T |-> T, at |-> <<dict, -1>>]
    BY <1>6, <2>2 DEF Opens
  <2>4. s = [ok |-> TRUE, T |-> T, at |-> at] /\ at[1] = dict /\ at[2] = -1 /\ at = <<at[1], at[2]>>
    BY <2>1, <2>3
  <2>5. s.ok = TRUE /\ s.T = T /\ s.at = at
    BY <2>4
  <2>6. Place(T, O, at)
    BY <2>4 DEF Place, Apart, Forest
  <2>7. s = [ok |-> s.ok, T |-> s.T, at |-> s.at]
    BY <2>4, <2>5
  <2>8. Growing(s, R, O, T0)
    BY <2>5, <2>6, <2>7 DEF Growing
  <2>9. Cardinality(Free(s.T)) + g[0] >= free
    BY <1>1, <1>2, <1>3, <2>5
  <2>10. QED
    BY <2>1, <2>8, <2>9
<1>9. ASSUME NEW k \in Nat, k < n, Right(k)
      PROVE  Cardinality(Free(f[k].T)) >= Cost(Len(ws[k + 1])) /\ Cost(Len(ws[k + 1])) \in Nat
             /\ Cardinality(Free(f[k].T)) \in Nat
  <2>1. k + 1 \in 1 .. n /\ k \in 0 .. n /\ n \in 0 .. n /\ k + 1 \in 0 .. n
    BY <1>2, <1>9
  <2>2. Cardinality(Free(f[k].T)) \in Nat /\ Cost(Len(ws[k + 1])) \in Nat
    BY <1>2, <2>1, FreeCount, CostIs
  <2>3. g[k] \in Nat /\ g[n] \in Nat /\ g[k] + Cost(Len(ws[k + 1])) <= g[n]
    BY <1>3, <1>9, <2>1
  <2>4. QED
    BY <1>2, <1>4, <1>9, <2>2, <2>3
<1>10. ASSUME NEW k \in Nat, k \in S PROVE k + 1 \in S
  <2>1. SUFFICES ASSUME k + 1 <= n PROVE Right(k + 1)
    OBVIOUS
  <2>2. k < n /\ k + 1 \in 0 .. n /\ k + 1 \in 1 .. n /\ k \in 0 .. n /\ k + 1 # 0 /\ (k + 1) - 1 = k
    BY <1>2, <2>1
  <2>3. Right(k)
    BY <1>2, <1>10, <2>2
  <2>4. PICK s, r, w : s = f[k] /\ r = f[k + 1] /\ w = ws[k + 1]
    OBVIOUS
  <2>5. r = OpenStep(s, dict, w)
    BY <1>6, <2>2, <2>4 DEF Opens
  <2>6. /\ Cardinality(Free(s.T)) >= Cost(Len(w)) /\ Cost(Len(w)) \in Nat /\ Cardinality(Free(s.T)) \in Nat
        /\ w \in Seq(Runes \cup {Bad})
    BY <1>2, <1>9, <2>2, <2>3, <2>4
  <2>7. Growing(s, R, O, T0) /\ Cardinality(Free(s.T)) + g[k] >= free
    BY <2>3, <2>4
  <2>8. g[k + 1] = g[k] + Cost(Len(w)) /\ g[k] \in Nat
    BY <1>3, <2>2, <2>4
  <2>9. CASE s.ok
    <3>1. r = _dict_insert(s.T, dict, w)
      BY <2>5, <2>9 DEF OpenStep
    <3>2. Apart(s.T, R, O, T0) /\ dict \in DOMAIN s.T \ O
      BY <2>7 DEF Growing, Apart, Forest
    <3>3. Growing(r, R, O, T0) /\ Cardinality(Free(r.T)) + Cost(Len(w)) >= Cardinality(Free(s.T))
      BY <2>6, <3>1, <3>2, WordGrows
    <3>4. Cardinality(Free(r.T)) \in Nat
      BY FreeCount
    <3>5. Cardinality(Free(r.T)) + g[k + 1] >= free
      BY <1>2, <2>6, <2>7, <2>8, <3>3, <3>4
    <3>6. QED
      BY <2>4, <3>3, <3>5
  <2>10. CASE ~ s.ok
    <3>1. r = s
      BY <2>5, <2>10 DEF OpenStep
    <3>2. Cardinality(Free(s.T)) + g[k + 1] >= free
      BY <1>2, <2>6, <2>7, <2>8
    <3>3. QED
      BY <2>4, <2>7, <3>1, <3>2
  <2>11. QED
    BY <2>9, <2>10
<1>11. \A k \in 0 .. n : Right(k)
  <2> HIDE DEF S
  <2>1. Nat \subseteq S
    BY <1>8, <1>10, AllNumbers
  <2>2. QED
    BY <1>2, <2>1 DEF S
<1>12. \A k \in Nat : k < n => Cardinality(Free(f[k].T)) >= Cost(Len(ws[k + 1]))
  BY <1>2, <1>9, <1>11
<1>13. QED
  BY <1>1, <1>6, <1>7, <1>11, <1>12

-----------------------------------------------------------------------------
(* The dictionaries there are                                                *)

Roots == old \cup ({g_dict} \ {0})

\* Every table is in one dictionary, and finds its keys.
Dictionaries ==
  /\ Tables(table) /\ Forest(table, Roots)
  /\ g_dict \in DOMAIN table \cup {0} /\ old \subseteq DOMAIN table

LEMMA RoomIs ==
  ASSUME NEW ws \in Seq(Seq(Runes \cup {Bad})), Room(ws)
  PROVE  \E g : /\ Needs(ws, Len(ws), g) /\ g[Len(ws)] \in Nat
                /\ Cardinality(Free(table)) > g[Len(ws)]
<1>1. PICK n : n = Len(ws)
  OBVIOUS
<1>2. n \in Nat /\ n \in 0 .. n
  BY <1>1
<1>3. PICK g : g = CHOOSE h : Needs(ws, n, h)
  OBVIOUS
<1>4. Needs(ws, n, g)
  BY <1>2, <1>3, NeedsExist
<1>5. Cardinality(Free(table)) > g[n]
  BY <1>1, <1>3 DEF Room, Needs, NeedStep
<1>6. g[n] \in Nat
  BY <1>1, <1>2, <1>4, NeedsGrow
<1>7. QED
  BY <1>1, <1>4, <1>5, <1>6

\* The tables when a call of 'open' begins.
OpenTables(dict) == [id \in DOMAIN table \cup {dict} |-> IF id = dict THEN table_new ELSE table[id]]

LEMMA OpenBegins ==
  ASSUME Dictionaries, NEW dict \in Free(table), NEW T, T = OpenTables(dict)
  PROVE  /\ Apart(T, Roots \cup {dict}, DOMAIN table, table) /\ dict \notin DOMAIN table /\ dict # 0
         /\ Cardinality(Free(T)) = Cardinality(Free(table)) - 1
<1>1. dict \in 1 .. MaxTables /\ dict \notin DOMAIN table /\ dict # 0
  BY CrabAssumption DEF Free
<1>2. DOMAIN T = DOMAIN table \cup {dict} /\ T = [id \in DOMAIN T |-> T[id]]
      /\ T[dict] = emptytable(1) /\ \A id \in DOMAIN table : T[id] = table[id]
  BY <1>1 DEF OpenTables, table_new
<1>3. Table(T[dict]) /\ Held(T[dict]) = {}
  BY <1>2, EmptyTable
<1>4. Tables(table) /\ Forest(table, Roots)
  BY DEF Dictionaries
<1>5. Tables(T)
  <2>1. \A id \in DOMAIN T : Table(T[id])
    BY <1>2, <1>3, <1>4 DEF Tables
  <2>2. DOMAIN T \subseteq 1 .. MaxTables
    BY <1>1, <1>2, <1>4 DEF Tables
  <2>3. QED
    BY <1>2, <2>1, <2>2 DEF Tables
<1>6. Forest(T, Roots \cup {dict})
  BY <1>1, <1>2, <1>3, <1>4, <1>5, ForestRooted
<1>7. \A x \in DOMAIN T \ DOMAIN table : Kids(T[x]) = {}
  BY <1>2, <1>3 DEF Kids
<1>8. Apart(T, Roots \cup {dict}, DOMAIN table, table)
  BY <1>2, <1>5, <1>6, <1>7 DEF Apart
<1>9. Cardinality(Free(T)) = Cardinality(Free(table)) - 1
  BY <1>2, FreeCount
<1>10. QED
  BY <1>1, <1>8, <1>9

\* The tables of the new dictionary are those that were made for it.
LEMMA NewTables ==
  ASSUME Dictionaries, NEW T, NEW dict, dict \notin DOMAIN table, dict # 0,
         Apart(T, Roots \cup {dict}, DOMAIN table, table)
  PROVE  TablesOf(T, dict) = DOMAIN T \ DOMAIN table
<1>1. /\ Tables(T) /\ Forest(T, Roots \cup {dict}) /\ DOMAIN table \subseteq DOMAIN T
      /\ \A x \in DOMAIN table : T[x] = table[x]
      /\ \A x \in DOMAIN T \ DOMAIN table : Kids(T[x]) \cap DOMAIN table = {}
  BY DEF Apart
<1>2. dict \in DOMAIN T /\ Roots \subseteq DOMAIN table /\ Roots \subseteq DOMAIN T
  BY <1>1 DEF Forest, Dictionaries
<1>3. TablesOf(T, dict) \subseteq DOMAIN T \ DOMAIN table
  <2>1. Closed(T, DOMAIN T \ DOMAIN table)
    BY <1>1 DEF Closed
  <2>2. dict \in DOMAIN T \ DOMAIN table
    BY <1>2
  <2>3. QED
    BY <1>1, <1>2, <2>1, <2>2, TablesOfIs
<1>4. ASSUME NEW d \in Roots PROVE TablesOf(T, d) \subseteq DOMAIN table
  <2>1. \A x \in DOMAIN table : Kids(table[x]) \subseteq DOMAIN table
    BY DEF Kids, Dictionaries, Forest, Typed
  <2>2. Closed(T, DOMAIN table)
    BY <1>1, <2>1 DEF Closed
  <2>3. d \in DOMAIN table /\ d \in DOMAIN T
    BY <1>2
  <2>4. QED
    BY <1>1, <2>2, <2>3, TablesOfIs
<1>5. ASSUME NEW x \in DOMAIN T \ DOMAIN table PROVE x \in TablesOf(T, dict)
  <2>1. PICK d \in Roots \cup {dict} : x \in TablesOf(T, d)
    BY <1>1 DEF Forest, Reached
  <2>2. d \notin Roots
    BY <1>4, <2>1
  <2>3. QED
    BY <2>1, <2>2
<1>6. QED
  BY <1>3, <1>5

LEMMA OpenKeeps ==
  ASSUME Dictionaries, NEW ws \in Lists, dict_open(ws)
  PROVE  Dictionaries'
<1>1. PICK dict : dict = Min(Free(table))
  OBVIOUS
<1>2. PICK T : T = OpenTables(dict)
  OBVIOUS
<1>3. PICK s : s = opened(T, dict, ws)
  OBVIOUS
<1>4. ws \in Seq(Seq(Runes \cup {Bad}))
  BY CrabAssumption
<1>5. Room(ws)
  BY DEF dict_open
<1>6. PICK g : Needs(ws, Len(ws), g) /\ g[Len(ws)] \in Nat /\ Cardinality(Free(table)) > g[Len(ws)]
  BY <1>4, <1>5, RoomIs
<1>7. dict \in Free(table)
  <2>1. Cardinality(Free(table)) \in Nat /\ Cardinality(Free(table)) # 0
    BY <1>6, FreeCount
  <2>2. Free(table) # {} /\ Free(table) \in SUBSET Nat
    <3>1. Free(table) # {}
      BY <2>1, FreeCount
    <3>2. Free(table) \in SUBSET Nat
      BY CrabAssumption DEF Free
    <3>3. QED
      BY <3>1, <3>2
  <2>3. QED
    BY <1>1, <2>2, Least
<1>8. PICK R, O : R = Roots \cup {dict} /\ O = DOMAIN table
  OBVIOUS
<1>9. Apart(T, R, O, table) /\ dict \in R \ O /\ dict # 0 /\ Cardinality(Free(T)) = Cardinality(Free(table)) - 1
  BY <1>2, <1>7, <1>8, OpenBegins
<1>10. Cardinality(Free(T)) >= g[Len(ws)]
  <2>1. Cardinality(Free(table)) \in Nat
    BY FreeCount
  <2>2. QED
    BY <1>6, <1>9, <2>1
<1>11. Growing(s, R, O, table)
  <2>1. PICK f : /\ opened(T, dict, ws) = f[Len(ws)]
                 /\ \A k \in 0 .. Len(ws) : Growing(f[k], R, O, table)
    BY <1>4, <1>6, <1>9, <1>10, OpenedGrows
  <2>2. Len(ws) \in 0 .. Len(ws)
    BY <1>4
  <2>3. QED
    BY <1>3, <2>1, <2>2
<1>12. Apart(s.T, R, O, table) /\ s.ok \in BOOLEAN
  BY <1>11 DEF Growing
<1>13. Tables(s.T) /\ Forest(s.T, R) /\ O \subseteq DOMAIN s.T
  BY <1>12 DEF Apart
<1>14. IF s.ok THEN table' = s.T /\ g_dict' = dict /\ old' = old \cup ({g_dict} \ {0})
       ELSE table' = _dict_close(s.T, dict) /\ UNCHANGED <<g_dict, old>>
  BY <1>1, <1>2, <1>3, Zenon DEF dict_open, OpenTables
<1>15. CASE s.ok
  <2>1. table' = s.T /\ g_dict' = dict /\ old' = old \cup ({g_dict} \ {0})
    BY <1>14, <1>15
  <2>2. Roots' = R
    BY <1>8, <1>9, <2>1 DEF Roots
  <2>3. R \subseteq DOMAIN s.T
    BY <1>13 DEF Forest
  <2>4. old' \subseteq DOMAIN s.T /\ dict \in DOMAIN s.T
    BY <1>8, <2>1, <2>3 DEF Roots
  <2>5. Tables(table') /\ Forest(table', Roots')
    BY <1>13, <2>1, <2>2
  <2>6. QED
    BY <2>1, <2>4, <2>5 DEF Dictionaries
<1>16. CASE ~ s.ok
  <2>1. table' = _dict_close(s.T, dict) /\ UNCHANGED <<g_dict, old>>
    BY <1>14, <1>16
  <2>2. TablesOf(s.T, dict) = DOMAIN s.T \ DOMAIN table
    BY <1>8, <1>9, <1>12, NewTables
  <2>3. DOMAIN s.T \ TablesOf(s.T, dict) = DOMAIN table
    BY <1>8, <1>13, <2>2
  <2>4. table' = [id \in DOMAIN table |-> s.T[id]]
    BY <2>1, <2>3 DEF _dict_close
  <2>5. \A id \in DOMAIN table : s.T[id] = table[id]
    BY <1>8, <1>12 DEF Apart
  <2>6. table = [id \in DOMAIN table |-> table[id]]
    BY DEF Dictionaries, Tables
  <2>7. table' = table
    BY <2>4, <2>5, <2>6
  <2>8. Roots' = Roots
    BY <2>1 DEF Roots
  <2>9. QED
    BY <2>1, <2>7, <2>8 DEF Dictionaries
<1>17. QED
  BY <1>12, <1>15, <1>16

LEMMA InsertKeeps ==
  ASSUME Dictionaries, NEW w \in Words, dict_insert(w)
  PROVE  Dictionaries'
<1>1. PICK ws, s : ws = <<w>> /\ s = _dict_insert(table, g_dict, w)
  OBVIOUS
<1>2. w \in Seq(Runes \cup {Bad}) /\ Len(w) \in Nat
  BY CrabAssumption
<1>3. ws \in Seq(Seq(Runes \cup {Bad})) /\ Len(ws) = 1 /\ ws[1] = w
  BY <1>1, <1>2
<1>4. g_dict # 0 /\ Room(ws) /\ table' = s.T /\ UNCHANGED <<g_dict, old>>
  BY <1>1 DEF dict_insert
<1>5. PICK g : Needs(ws, Len(ws), g) /\ g[Len(ws)] \in Nat /\ Cardinality(Free(table)) > g[Len(ws)]
  BY <1>3, <1>4, RoomIs
<1>6. g[1] = Cost(Len(w))
  <2>1. g[0] = 0 /\ g[0 + 1] = g[0] + Cost(Len(ws[0 + 1]))
    <3>1. Needs(ws, Len(ws), g) /\ 0 \in Nat /\ 0 < Len(ws)
      BY <1>3, <1>5
    <3>2. g[0] = 0 /\ \A k \in Nat : k < Len(ws) => g[k + 1] = g[k] + Cost(Len(ws[k + 1]))
      BY <1>3, <3>1, NeedsGrow
    <3>3. QED
      BY <3>1, <3>2
  <2>2. Cost(Len(w)) \in Nat
    BY <1>2, CostIs
  <2>3. QED
    BY <1>3, <2>1, <2>2
<1>7. Cardinality(Free(table)) >= Cost(Len(w))
  <2>1. Cardinality(Free(table)) \in Nat /\ Cost(Len(w)) \in Nat
    BY <1>2, FreeCount, CostIs
  <2>2. QED
    BY <1>3, <1>5, <1>6, <2>1
<1>8. Apart(table, Roots, {}, table) /\ g_dict \in DOMAIN table \ {}
  BY <1>4 DEF Apart, Dictionaries
<1>9. Growing(s, Roots, {}, table)
  BY <1>1, <1>2, <1>7, <1>8, WordGrows
<1>10. Tables(s.T) /\ Forest(s.T, Roots) /\ Roots \subseteq DOMAIN s.T
  BY <1>9 DEF Growing, Apart, Forest
<1>11. Roots' = Roots
  BY <1>4 DEF Roots
<1>12. Tables(table') /\ Forest(table', Roots')
  BY <1>4, <1>10, <1>11
<1>13. g_dict' \in DOMAIN table' \cup {0} /\ old' \subseteq DOMAIN table'
  BY <1>4, <1>10 DEF Roots
<1>14. QED
  BY <1>12, <1>13 DEF Dictionaries

LEMMA DictionariesInductive == Spec => []Dictionaries
<1>1. Init => Dictionaries
  <2>1. SUFFICES ASSUME Init PROVE Dictionaries
    OBVIOUS
  <2>2. table = <<>> /\ g_dict = 0 /\ old = {} /\ DOMAIN table = {}
    BY <2>1 DEF Init
  <2>3. Roots = {}
    BY <2>2 DEF Roots
  <2>4. Tables(table)
    BY <2>2 DEF Tables
  <2>5. Forest(table, Roots)
    <3>1. [x \in {} |-> 0] \in [{} -> 0 .. 0] /\ 0 \in Nat
      OBVIOUS
    <3>2. Ranked(table)
      BY <2>2, <3>1 DEF Ranked, Ranks
    <3>3. QED
      BY <2>2, <2>3, <3>2 DEF Forest, Typed, OneRef, Reached
  <2>6. QED
    BY <2>2, <2>4, <2>5 DEF Dictionaries
<1>2. Dictionaries /\ [Next]_vars => Dictionaries'
  <2>1. SUFFICES ASSUME Dictionaries, [Next]_vars PROVE Dictionaries'
    OBVIOUS
  <2>2. CASE \E ws \in Lists : dict_open(ws)
    BY <2>1, <2>2, OpenKeeps
  <2>3. CASE \E w \in Words : dict_insert(w)
    BY <2>1, <2>3, InsertKeeps
  <2>4. CASE UNCHANGED vars
    <3>1. UNCHANGED <<table, g_dict, old>>
      BY <2>4 DEF vars
    <3>2. QED
      BY <2>1, <3>1 DEF Dictionaries, Roots
  <2>5. QED
    BY <2>1, <2>2, <2>3, <2>4 DEF Next
<1>3. QED
  BY <1>1, <1>2, PTL DEF Spec

\* What a node refers to is held by its table.
LEMMA NodeRefers ==
  ASSUME NEW T, Tables(T), NEW x \in DOMAIN T, NEW i \in DOMAIN T[x].node, T[x].node[i].value # 0
  PROVE  i \in UsedIn(T[x]) /\ Label(T[x].node[i]) \in Held(T[x]) /\ Label(T[x].node[i])[3] = T[x].node[i].value
<1>1. PICK t : t = T[x]
  OBVIOUS
<1>2. Table(t)
  BY <1>1, TableNames
<1>3. i \in 0 .. t.capacity - 1
  BY <1>1, <1>2, TableDomain
<1>4. i \in UsedIn(t)
  <2>1. \A j \in 0 .. t.capacity - 1 : t.node[j].flag = "empty" => t.node[j].value = 0
    BY <1>2 DEF Table, Nodes
  <2>2. QED
    BY <1>1, <1>3, <2>1 DEF UsedIn, Used
<1>5. Label(t.node[i]) \in Held(t) /\ Label(t.node[i])[3] = t.node[i].value
  BY <1>4 DEF Held, Label
<1>6. QED
  BY <1>1, <1>4, <1>5

\* Tables are well formed and lose none of their keys: 'TablesRight', for any characters,
\* words, lists and number of tables.
THEOREM TablesAreRight == Spec => []TablesRight
<1>1. ASSUME Dictionaries, NEW id \in DOMAIN table, NEW t, t = table[id]
      PROVE  /\ t.lastfree \in -1 .. t.capacity - 1
             /\ DOMAIN t.node = 0 .. t.capacity - 1
             /\ \A i \in DOMAIN t.node : t.node[i].next \in -1 .. t.capacity - 1
                                        /\ t.node[i].value \in {0} \cup DOMAIN table
             /\ \A i \in DOMAIN t.node : ~ tisnil(t.node[i]) => table_get(t, t.node[i].key) = i
             /\ \A i \in t.lastfree + 1 .. t.capacity - 1 : ~ tisnil(t.node[i])
  <2>1. Tables(table) /\ Table(t)
    BY <1>1, TableNames DEF Dictionaries
  <2>2. DOMAIN t.node = 0 .. t.capacity - 1 /\ UsedIn(t) = {i \in 0 .. t.capacity - 1 : ~ tisnil(t.node[i])}
    BY <2>1, TableDomain
  <2>3. \A i \in DOMAIN t.node : t.node[i].next \in -1 .. t.capacity - 1
    BY <2>1, <2>2 DEF Table, Nodes
  <2>4. ASSUME NEW i \in DOMAIN t.node PROVE t.node[i].value \in {0} \cup DOMAIN table
    <3>1. CASE t.node[i].value = 0
      BY <3>1
    <3>2. CASE t.node[i].value # 0
      <4>1. Label(t.node[i]) \in Held(t) /\ Label(t.node[i])[3] = t.node[i].value
        BY <1>1, <2>1, <3>2, NodeRefers
      <4>2. \A h \in Held(t) : h[3] \in {0} \cup DOMAIN table
        BY <1>1 DEF Dictionaries, Forest, Typed
      <4>3. QED
        BY <4>1, <4>2
    <3>3. QED
      BY <3>1, <3>2
  <2>5. \A i \in DOMAIN t.node : ~ tisnil(t.node[i]) => table_get(t, t.node[i].key) = i
    BY <2>1, <2>2, GetFinds
  <2>6. t.lastfree \in -1 .. t.capacity - 1 /\ \A i \in t.lastfree + 1 .. t.capacity - 1 : ~ tisnil(t.node[i])
    BY <2>1 DEF Table, tisnil
  <2>7. QED
    BY <2>2, <2>3, <2>4, <2>5, <2>6
<1>2. Dictionaries => TablesRight
  <2>1. SUFFICES ASSUME Dictionaries PROVE TablesRight
    OBVIOUS
  <2>2. DOMAIN table \subseteq 1 .. MaxTables /\ g_dict \in DOMAIN table \cup {0} /\ old \subseteq DOMAIN table
    BY <2>1 DEF Dictionaries, Tables
  <2>3. TypeOK
    BY <1>1, <2>1, <2>2 DEF TypeOK
  <2>4. Found
    BY <1>1, <2>1 DEF Found
  <2>5. QED
    BY <2>3, <2>4 DEF TablesRight
<1>3. QED
  BY <1>2, DictionariesInductive, PTL

\* The nodes that refer to table id.
Above(id) == {x \in UNION {{y} \X DOMAIN table[y].node : y \in DOMAIN table} : table[x[1]].node[x[2]].value = id}

LEMMA AboveIs ==
  ASSUME Dictionaries, NEW id \in DOMAIN table
  PROVE  /\ \A x \in Above(id) : \E y \in DOMAIN table : \E i \in UsedIn(table[y]) :
              x = <<y, i>> /\ table[y].node[i].value = id
         /\ \A y \in DOMAIN table : \A i \in UsedIn(table[y]) : table[y].node[i].value = id => <<y, i>> \in Above(id)
<1>1. Tables(table) /\ id # 0
  BY TableNames DEF Dictionaries
<1>2. ASSUME NEW x \in Above(id)
      PROVE  \E y \in DOMAIN table : \E i \in UsedIn(table[y]) : x = <<y, i>> /\ table[y].node[i].value = id
  <2>1. PICK y \in DOMAIN table : x \in {y} \X DOMAIN table[y].node
    BY DEF Above
  <2>2. PICK i \in DOMAIN table[y].node : x = <<y, i>>
    BY <2>1
  <2>3. table[y].node[i].value = id
    BY <2>2 DEF Above
  <2>4. i \in UsedIn(table[y])
    BY <1>1, <2>3, NodeRefers
  <2>5. QED
    BY <2>2, <2>3, <2>4
<1>3. ASSUME NEW y \in DOMAIN table, NEW i \in UsedIn(table[y]), table[y].node[i].value = id
      PROVE  <<y, i>> \in Above(id)
  <2>1. i \in DOMAIN table[y].node
    BY <1>1, TableNames, TableDomain
  <2>2. <<y, i>> \in {y} \X DOMAIN table[y].node
    BY <2>1
  <2>3. QED
    BY <1>3, <2>2 DEF Above
<1>4. QED
  BY <1>2, <1>3

\* No table is shared or lost: 'Trie', for any characters, words, lists and number of tables.
THEOREM TablesAreTries == Spec => []Trie
<1>1. ASSUME Dictionaries, NEW id \in DOMAIN table PROVE Cardinality(Above(id)) = IF id \in old \cup {g_dict} THEN 0 ELSE 1
  <2>1. Tables(table) /\ Forest(table, Roots) /\ id # 0 /\ Roots \subseteq DOMAIN table
    BY <1>1, TableNames DEF Dictionaries, Forest
  <2>2. id \in old \cup {g_dict} <=> id \in Roots
    BY <2>1 DEF Roots
  <2>3. ASSUME NEW y \in DOMAIN table, NEW i \in UsedIn(table[y]), table[y].node[i].value = id
        PROVE  Label(table[y].node[i]) \in Held(table[y]) /\ Label(table[y].node[i])[3] = id
    BY <2>3 DEF Held, Label
  <2>4. CASE id \in Roots
    <3>1. ASSUME NEW x \in Above(id) PROVE FALSE
      <4>1. PICK y \in DOMAIN table : \E i \in UsedIn(table[y]) : x = <<y, i>> /\ table[y].node[i].value = id
        BY <1>1, <3>1, AboveIs
      <4>2. PICK i \in UsedIn(table[y]) : table[y].node[i].value = id
        BY <4>1
      <4>3. Label(table[y].node[i]) \in Held(table[y]) /\ Label(table[y].node[i])[3] = id
        BY <2>3, <4>2
      <4>4. QED
        BY <2>1, <2>4, <4>3 DEF Forest, Typed
    <3>2. Above(id) = {}
      BY <3>1
    <3>3. QED
      BY <2>2, <2>4, <3>2, FS_EmptySet
  <2>5. CASE id \notin Roots
    <3>1. PICK d \in Roots : id \in TablesOf(table, d)
      BY <2>1 DEF Forest, Reached
    <3>2. \E y \in DOMAIN table : id \in Kids(table[y])
      <4>1. SUFFICES ASSUME \A y \in DOMAIN table : id \notin Kids(table[y]) PROVE FALSE
        OBVIOUS
      <4>2. Closed(table, DOMAIN table \ {id})
        BY <4>1 DEF Closed
      <4>3. d \in DOMAIN table \ {id}
        BY <2>1, <2>5
      <4>4. QED
        BY <2>1, <3>1, <4>2, <4>3, TablesOfIs
    <3>3. PICK y \in DOMAIN table : id \in Kids(table[y])
      BY <3>2
    <3>4. PICK i \in UsedIn(table[y]) : Label(table[y].node[i])[3] = id
      BY <3>3 DEF Kids, Held
    <3>5. table[y].node[i].value = id
      BY <3>4 DEF Label
    <3>6. <<y, i>> \in Above(id)
      BY <1>1, <3>5, AboveIs
    <3>7. ASSUME NEW x \in Above(id) PROVE x = <<y, i>>
      <4>1. PICK z \in DOMAIN table : \E j \in UsedIn(table[z]) : x = <<z, j>> /\ table[z].node[j].value = id
        BY <1>1, <3>7, AboveIs
      <4>2. PICK j \in UsedIn(table[z]) : x = <<z, j>> /\ table[z].node[j].value = id
        BY <4>1
      <4>3. PICK h, g : h = Label(table[y].node[i]) /\ g = Label(table[z].node[j])
        OBVIOUS
      <4>4. h \in Held(table[y]) /\ h[3] = id /\ g \in Held(table[z]) /\ g[3] = id
        BY <2>3, <3>5, <4>2, <4>3
      <4>5. y = z /\ h = g
        BY <2>1, <4>4 DEF Forest, OneRef
      <4>6. table[y].node[i].key = table[y].node[j].key
        BY <4>3, <4>5 DEF Label
      <4>7. i = j
        BY <2>1, <4>5, <4>6, TableNames, OneNode
      <4>8. QED
        BY <4>2, <4>5, <4>7
    <3>8. Above(id) = {<<y, i>>}
      BY <3>6, <3>7
    <3>9. Cardinality({<<y, i>>}) = 1
      BY FS_Singleton
    <3>10. QED
      BY <2>2, <2>5, <3>8, <3>9
  <2>6. QED
    BY <2>4, <2>5
<1>2. ASSUME Dictionaries PROVE DOMAIN table = UNION {TablesOf(table, d) : d \in Roots}
  <2>1. Tables(table) /\ Roots \subseteq DOMAIN table /\ Reached(table, Roots)
    BY <1>2 DEF Dictionaries, Forest
  <2>2. \A d \in Roots : TablesOf(table, d) \subseteq DOMAIN table
    BY <2>1, TablesOfIs
  <2>3. QED
    BY <2>1, <2>2 DEF Reached
<1>3. Dictionaries => Trie
  BY <1>1, <1>2 DEF Trie, Above, Roots
<1>4. QED
  BY <1>3, DictionariesInductive, PTL

-----------------------------------------------------------------------------
(* The words of a dictionary                                                 *)

\* The entry of the character k refers to table y; it ends a word.
Leads(t, k, y) == \E h \in Held(t) : h[1] = k /\ h[3] = y
Ends(t, k) == \E h \in Held(t) : h[1] = k /\ h[2] = "o"

\* p are the tables of the first n characters of w, from table d on.
Through(T, d, w, n, p) ==
  /\ p \in [1 .. n -> DOMAIN T] /\ p[1] = d
  /\ \A j \in 1 .. n - 1 : Leads(T[p[j]], w[j], p[j + 1])
Spells(T, d, w) ==
  /\ Len(w) \in Nat \ {0}
  /\ \E p : Through(T, d, w, Len(w), p) /\ Ends(T[p[Len(w)]], w[Len(w)])
Spelt(T, d) == {w \in Seq(Nat) : Spells(T, d, w)}

\* What follows from table 'id' if b is what follows from those below it.
Follow(T, b, id) ==
  UNION {LET node == T[id].node[i]
         IN (IF node.flag = "o" THEN {<<node.key>>} ELSE {})
            \cup (IF node.value = 0 THEN {}
                  ELSE {<<node.key>> \o w : w \in b[node.value]})
         : i \in DOMAIN T[id].node}
Following(T, b) == b = [id \in DOMAIN T |-> Follow(T, b, id)]
SpelledOf(T, d) == IF d = 0 THEN {} ELSE (CHOOSE b : Following(T, b))[d]

LEMMA SpelledIs == Spelled = SpelledOf(table, g_dict)
BY DEF Spelled, SpelledOf, Following, Follow

LEMMA SpelledPrimed == Spelled' = SpelledOf(table', g_dict')
BY DEF Spelled, SpelledOf, Following, Follow

\* A word of more than one character goes on in the table below its first one.
LEMMA SpellsOne ==
  ASSUME NEW T, NEW d \in DOMAIN T, NEW k
  PROVE  Spells(T, d, <<k>>) <=> Ends(T[d], k)
<1>1. PICK w : w = <<k>>
  OBVIOUS
<1>2. Len(w) = 1 /\ w[1] = k /\ 1 \in Nat \ {0}
  BY <1>1
<1>3. ASSUME Spells(T, d, w) PROVE Ends(T[d], k)
  <2>1. PICK p : Through(T, d, w, 1, p) /\ Ends(T[p[1]], w[1])
    BY <1>2, <1>3 DEF Spells
  <2>2. QED
    BY <1>2, <2>1 DEF Through
<1>4. ASSUME Ends(T[d], k) PROVE Spells(T, d, w)
  <2>1. PICK p : p = [j \in 1 .. 1 |-> d]
    OBVIOUS
  <2>2. p[1] = d /\ p \in [1 .. 1 -> DOMAIN T]
    BY <2>1
  <2>3. Through(T, d, w, 1, p)
    BY <2>2 DEF Through
  <2>4. QED
    BY <1>2, <1>4, <2>2, <2>3 DEF Spells
<1>5. QED
  BY <1>1, <1>3, <1>4

LEMMA SpellsMore ==
  ASSUME NEW T, NEW d \in DOMAIN T, NEW k \in Nat, NEW v \in Seq(Nat), NEW w, w = <<k>> \o v, v # <<>>
  PROVE  Spells(T, d, w) <=> \E y \in DOMAIN T : Leads(T[d], k, y) /\ Spells(T, y, v)
<1>1. PICK n : n = Len(v)
  OBVIOUS
<1>2. n \in Nat \ {0}
  BY <1>1
<1>3. Len(w) = n + 1 /\ w[1] = k /\ \A j \in 1 .. n : w[j + 1] = v[j]
  BY <1>1, <1>2
<1>4. ASSUME Spells(T, d, w) PROVE \E y \in DOMAIN T : Leads(T[d], k, y) /\ Spells(T, y, v)
  <2>1. PICK p : Through(T, d, w, n + 1, p) /\ Ends(T[p[n + 1]], w[n + 1])
    BY <1>3, <1>4 DEF Spells
  <2>2. PICK q : q = [j \in 1 .. n |-> p[j + 1]]
    OBVIOUS
  <2>3. p \in [1 .. n + 1 -> DOMAIN T] /\ p[1] = d /\ \A j \in 1 .. (n + 1) - 1 : Leads(T[p[j]], w[j], p[j + 1])
    BY <2>1 DEF Through
  <2>4. \A j \in 1 .. n : j + 1 \in 1 .. n + 1
    BY <1>2
  <2>5. q \in [1 .. n -> DOMAIN T] /\ \A j \in 1 .. n : q[j] = p[j + 1]
    BY <2>2, <2>3, <2>4
  <2>6. PICK y : y = q[1]
    OBVIOUS
  <2>7. 1 \in 1 .. n /\ n \in 1 .. n /\ (n + 1) - 1 = n
    BY <1>2
  <2>8. y \in DOMAIN T /\ Leads(T[d], k, y)
    BY <1>3, <2>3, <2>5, <2>6, <2>7
  <2>9. ASSUME NEW j \in 1 .. n - 1 PROVE Leads(T[q[j]], v[j], q[j + 1])
    <3>1. j \in 1 .. n /\ j + 1 \in 1 .. n /\ j + 1 \in 1 .. (n + 1) - 1
      BY <1>2
    <3>2. Leads(T[p[j + 1]], w[j + 1], p[(j + 1) + 1])
      BY <2>3, <3>1
    <3>3. QED
      BY <1>3, <2>5, <3>1, <3>2
  <2>10. Through(T, y, v, n, q)
    BY <2>5, <2>6, <2>9 DEF Through
  <2>11. Ends(T[q[n]], v[n])
    BY <1>3, <2>1, <2>5, <2>7
  <2>12. Spells(T, y, v)
    BY <1>1, <1>2, <2>10, <2>11 DEF Spells
  <2>13. QED
    BY <2>8, <2>12
<1>5. ASSUME NEW y \in DOMAIN T, Leads(T[d], k, y), Spells(T, y, v) PROVE Spells(T, d, w)
  <2>1. PICK q : Through(T, y, v, n, q) /\ Ends(T[q[n]], v[n])
    BY <1>1, <1>5 DEF Spells
  <2>2. PICK p : p = [j \in 1 .. n + 1 |-> IF j = 1 THEN d ELSE q[j - 1]]
    OBVIOUS
  <2>3. q \in [1 .. n -> DOMAIN T] /\ q[1] = y /\ \A j \in 1 .. n - 1 : Leads(T[q[j]], v[j], q[j + 1])
    BY <2>1 DEF Through
  <2>4. p[1] = d /\ \A j \in 1 .. n : p[j + 1] = q[j]
    BY <1>2, <2>2
  <2>5. p \in [1 .. n + 1 -> DOMAIN T]
    <3>1. \A j \in 1 .. n + 1 : j # 1 => j - 1 \in 1 .. n
      BY <1>2
    <3>2. QED
      BY <2>2, <2>3, <3>1
  <2>6. ASSUME NEW j \in 1 .. (n + 1) - 1 PROVE Leads(T[p[j]], w[j], p[j + 1])
    <3>1. CASE j = 1
      <4>1. p[j + 1] = y
        BY <1>2, <2>3, <2>4, <3>1
      <4>2. QED
        BY <1>3, <1>5, <2>4, <3>1, <4>1
    <3>2. CASE j # 1
      <4>1. PICK i : i = j - 1
        OBVIOUS
      <4>2. i \in 1 .. n - 1 /\ i \in 1 .. n /\ i + 1 \in 1 .. n /\ j = i + 1
        BY <1>2, <3>2, <4>1
      <4>3. Leads(T[q[i]], v[i], q[i + 1])
        BY <2>3, <4>2
      <4>4. p[j] = q[i] /\ w[j] = v[i] /\ p[j + 1] = q[i + 1]
        BY <1>3, <2>4, <4>2
      <4>5. QED
        BY <4>3, <4>4
    <3>3. QED
      BY <3>1, <3>2
  <2>7. Through(T, d, w, n + 1, p)
    BY <2>4, <2>5, <2>6 DEF Through
  <2>8. n \in 1 .. n /\ n + 1 \in Nat \ {0}
    BY <1>2
  <2>9. Ends(T[p[n + 1]], w[n + 1])
    BY <1>3, <2>1, <2>4, <2>8
  <2>10. QED
    BY <1>3, <2>7, <2>8, <2>9 DEF Spells
<1>6. QED
  BY <1>4, <1>5

\* What follows, by the entries of the table.
Gives(h, b, w) == \/ h[2] = "o" /\ w = <<h[1]>>
                  \/ h[3] # 0 /\ \E v \in b[h[3]] : w = <<h[1]>> \o v

LEMMA FollowIs ==
  ASSUME NEW T, Tables(T), NEW d \in DOMAIN T, NEW b, NEW w
  PROVE  w \in Follow(T, b, d) <=> \E h \in Held(T[d]) : Gives(h, b, w)
<1>1. PICK t : t = T[d]
  OBVIOUS
<1>2. Table(t)
  BY <1>1, TableNames
<1>3. DOMAIN t.node = 0 .. t.capacity - 1 /\ UsedIn(t) = {i \in 0 .. t.capacity - 1 : ~ tisnil(t.node[i])}
  BY <1>2, TableDomain
<1> DEFINE Adds(n) == \/ n.flag = "o" /\ w = <<n.key>>
                      \/ n.value # 0 /\ \E v \in b[n.value] : w = <<n.key>> \o v
<1>4. w \in Follow(T, b, d) <=> \E i \in DOMAIN t.node : Adds(t.node[i])
  <2>1. ASSUME NEW n
        PROVE  w \in ((IF n.flag = "o" THEN {<<n.key>>} ELSE {})
                      \cup (IF n.value = 0 THEN {} ELSE {<<n.key>> \o v : v \in b[n.value]}))
               <=> Adds(n)
    OBVIOUS
  <2> DEFINE G(n) == (IF n.flag = "o" THEN {<<n.key>>} ELSE {})
                     \cup (IF n.value = 0 THEN {} ELSE {<<n.key>> \o v : v \in b[n.value]})
  <2>2. Follow(T, b, d) = UNION {G(t.node[i]) : i \in DOMAIN t.node}
    BY <1>1 DEF Follow
  <2>3. \A n : w \in G(n) <=> Adds(n)
    BY <2>1
  <2> HIDE DEF G, Adds
  <2>4. QED
    BY <2>2, <2>3
<1>5. \A i \in DOMAIN t.node : Adds(t.node[i]) => i \in UsedIn(t)
  <2>1. \A i \in 0 .. t.capacity - 1 : t.node[i].flag = "empty" => t.node[i].value = 0
    BY <1>2 DEF Table, Nodes
  <2>2. ASSUME NEW i \in DOMAIN t.node, t.node[i].flag = "empty" PROVE ~ Adds(t.node[i])
    BY <1>3, <2>1, <2>2
  <2>3. QED
    BY <1>3, <2>2 DEF tisnil
<1>6. \A i \in UsedIn(t) : i \in DOMAIN t.node
  BY <1>3
<1>7. w \in Follow(T, b, d) <=> \E i \in UsedIn(t) : Adds(t.node[i])
  <2> HIDE DEF Adds
  <2>1. QED
    BY <1>4, <1>5, <1>6
<1>8. ASSUME NEW n PROVE Gives(Label(n), b, w) <=> Adds(n)
  <2>1. PICK h : h = Label(n)
    OBVIOUS
  <2>2. h[1] = n.key /\ h[2] = n.flag /\ h[3] = n.value
    BY <2>1 DEF Label
  <2>3. Gives(h, b, w) <=> Adds(n)
    BY <2>2, Zenon DEF Gives
  <2>4. QED
    BY <2>1, <2>3
<1>9. (\E h \in Held(t) : Gives(h, b, w)) <=> \E i \in UsedIn(t) : Adds(t.node[i])
  <2> HIDE DEF Adds
  <2>1. \A h : h \in Held(t) <=> \E i \in UsedIn(t) : h = Label(t.node[i])
    BY DEF Held
  <2>2. QED
    BY <1>8, <2>1
<1>10. QED
  BY <1>1, <1>7, <1>9

\* What a table holds.
LEMMA HeldTypes ==
  ASSUME NEW T, NEW R, Tables(T), Forest(T, R), NEW d \in DOMAIN T, NEW h \in Held(T[d])
  PROVE  h[1] \in Nat /\ (h[3] # 0 => h[3] \in DOMAIN T)
<1>1. Table(T[d])
  BY TableNames
<1>2. PICK i \in UsedIn(T[d]) : h = Label(T[d].node[i])
  BY DEF Held
<1>3. h[1] \in Nat
  BY <1>1, <1>2, UsedNode DEF Label
<1>4. QED
  BY <1>3 DEF Forest, Typed

\* The words that are spelled are those that follow.
LEMMA SpeltFollows ==
  ASSUME NEW T, NEW R, Tables(T), Forest(T, R)
  PROVE  Following(T, [id \in DOMAIN T |-> Spelt(T, id)])
<1>1. PICK b : b = [id \in DOMAIN T |-> Spelt(T, id)]
  OBVIOUS
<1>2. ASSUME NEW d \in DOMAIN T PROVE Spelt(T, d) = Follow(T, b, d)
  <2>1. ASSUME NEW w \in Spelt(T, d) PROVE w \in Follow(T, b, d)
    <3>1. w \in Seq(Nat) /\ Spells(T, d, w) /\ Len(w) # 0
      BY <2>1 DEF Spelt, Spells
    <3>2. PICK k, v : k = Head(w) /\ v = Tail(w)
      OBVIOUS
    <3>3. k \in Nat /\ v \in Seq(Nat) /\ w = <<k>> \o v
      BY <3>1, <3>2
    <3>4. CASE v = <<>>
      <4>1. w = <<k>>
        BY <3>3, <3>4
      <4>2. Ends(T[d], k)
        BY <3>1, <4>1, SpellsOne
      <4>3. QED
        BY <4>1, <4>2, FollowIs DEF Ends, Gives
    <3>5. CASE v # <<>>
      <4>1. PICK y \in DOMAIN T : Leads(T[d], k, y) /\ Spells(T, y, v)
        BY <3>1, <3>3, <3>5, SpellsMore
      <4>2. PICK h \in Held(T[d]) : h[1] = k /\ h[3] = y
        BY <4>1 DEF Leads
      <4>3. y # 0 /\ v \in b[y]
        BY <1>1, <3>3, <4>1, TableNames DEF Spelt
      <4>4. QED
        BY <3>3, <4>2, <4>3, FollowIs DEF Gives
    <3>6. QED
      BY <3>4, <3>5
  <2>2. ASSUME NEW w \in Follow(T, b, d) PROVE w \in Spelt(T, d)
    <3>1. PICK h \in Held(T[d]) : Gives(h, b, w)
      BY <2>2, FollowIs
    <3>2. PICK k : k = h[1]
      OBVIOUS
    <3>3. k \in Nat
      BY <3>2, HeldTypes
    <3>4. CASE h[2] = "o" /\ w = <<k>>
      <4>1. Ends(T[d], k)
        BY <3>2, <3>4 DEF Ends
      <4>2. Spells(T, d, w)
        BY <3>4, <4>1, SpellsOne
      <4>3. w \in Seq(Nat)
        BY <3>3, <3>4
      <4>4. QED
        BY <4>2, <4>3 DEF Spelt
    <3>5. CASE h[3] # 0 /\ \E v \in b[h[3]] : w = <<k>> \o v
      <4>1. PICK y, v : y = h[3] /\ v \in b[y] /\ w = <<k>> \o v
        BY <3>5
      <4>2. y \in DOMAIN T
        BY <3>5, <4>1, HeldTypes
      <4>3. v \in Seq(Nat) /\ Spells(T, y, v) /\ Len(v) # 0
        BY <1>1, <4>1, <4>2 DEF Spelt, Spells
      <4>4. Leads(T[d], k, y) /\ v # <<>>
        BY <3>2, <4>1, <4>3 DEF Leads
      <4>5. Spells(T, d, w)
        BY <3>3, <4>1, <4>2, <4>3, <4>4, SpellsMore
      <4>6. w \in Seq(Nat)
        BY <3>3, <4>1, <4>3
      <4>7. QED
        BY <4>5, <4>6 DEF Spelt
    <3>6. QED
      BY <3>1, <3>2, <3>4, <3>5 DEF Gives
  <2>3. QED
    BY <2>1, <2>2
<1>3. b = [id \in DOMAIN T |-> Follow(T, b, id)]
  BY <1>1, <1>2
<1>4. QED
  BY <1>1, <1>3 DEF Following

\* There is only one such function, as no table is below itself.
LEMMA OneFollows ==
  ASSUME NEW T, NEW R, Tables(T), Forest(T, R), NEW a, NEW b, Following(T, a), Following(T, b)
  PROVE  a = b
<1>1. PICK m, rank : Ranks(T, m, rank)
  BY DEF Forest, Ranked
<1>2. m \in Nat /\ rank \in [DOMAIN T -> 0 .. m]
      /\ \A x \in DOMAIN T : \A y \in Kids(T[x]) \cap DOMAIN T : rank[y] < rank[x]
  BY <1>1 DEF Ranks
<1> DEFINE S == {n \in Nat : \A x \in DOMAIN T : rank[x] < n => a[x] = b[x]}
<1>3. 0 \in S
  BY <1>2
<1>4. ASSUME NEW n \in Nat, n \in S PROVE n + 1 \in S
  <2>1. SUFFICES ASSUME NEW x \in DOMAIN T, rank[x] < n + 1 PROVE a[x] = b[x]
    OBVIOUS
  <2>2. ASSUME NEW h \in Held(T[x]), h[3] # 0 PROVE a[h[3]] = b[h[3]]
    <3>1. PICK y : y = h[3]
      OBVIOUS
    <3>2. y \in DOMAIN T
      BY <2>2, <3>1, HeldTypes
    <3>3. y \in Kids(T[x])
      BY <2>2, <3>1 DEF Kids
    <3>4. rank[y] < rank[x] /\ rank[y] \in Nat /\ rank[x] \in Nat
      BY <1>2, <3>2, <3>3
    <3>5. rank[y] < n
      BY <2>1, <3>4
    <3>6. QED
      BY <1>4, <3>1, <3>2, <3>5
  <2>3. a[x] = Follow(T, a, x) /\ b[x] = Follow(T, b, x)
    BY DEF Following
  <2>4. ASSUME NEW w PROVE w \in Follow(T, a, x) <=> w \in Follow(T, b, x)
    <3>1. \A h \in Held(T[x]) : Gives(h, a, w) <=> Gives(h, b, w)
      BY <2>2 DEF Gives
    <3>2. w \in Follow(T, a, x) <=> \E h \in Held(T[x]) : Gives(h, a, w)
      BY FollowIs
    <3>3. w \in Follow(T, b, x) <=> \E h \in Held(T[x]) : Gives(h, b, w)
      BY FollowIs
    <3>4. QED
      BY <3>1, <3>2, <3>3
  <2>5. \A w : w \in a[x] <=> w \in b[x]
    BY <2>3, <2>4
  <2>6. ASSUME NEW A, NEW B, A = Follow(T, a, x), B = Follow(T, b, x), \A w : w \in A <=> w \in B PROVE A = B
    BY <2>6
  <2>7. QED
    BY <2>3, <2>4, <2>6
<1>5. m + 1 \in S
  <2> HIDE DEF S
  <2>1. Nat \subseteq S
    BY <1>3, <1>4, AllNumbers
  <2>2. QED
    BY <1>2, <2>1
<1>6. \A x \in DOMAIN T : a[x] = b[x]
  BY <1>2, <1>5
<1>7. a = [x \in DOMAIN T |-> a[x]] /\ b = [x \in DOMAIN T |-> b[x]]
  BY DEF Following
<1>8. QED
  BY <1>6, <1>7

\* The words of a dictionary are those that can be spelled.
LEMMA SpelledSpelt ==
  ASSUME NEW T, NEW R, Tables(T), Forest(T, R), NEW d \in DOMAIN T
  PROVE  SpelledOf(T, d) = Spelt(T, d)
<1>1. PICK a, b : a = [id \in DOMAIN T |-> Spelt(T, id)] /\ b = CHOOSE c : Following(T, c)
  OBVIOUS
<1>2. Following(T, a)
  BY <1>1, SpeltFollows
<1>3. Following(T, b)
  BY <1>1, <1>2
<1>4. a = b
  BY <1>2, <1>3, OneFollows
<1>5. d # 0
  BY TableNames
<1>6. QED
  BY <1>1, <1>4, <1>5 DEF SpelledOf

\* Tables are added and entries are linked, which changes no word.
Quiet(T, U) ==
  /\ DOMAIN T \subseteq DOMAIN U
  /\ \A x \in DOMAIN T : \A k : Ends(T[x], k) <=> Ends(U[x], k)
  /\ \A x \in DOMAIN T : \A k : \A y \in DOMAIN T : Leads(T[x], k, y) <=> Leads(U[x], k, y)
  /\ \A x \in DOMAIN U \ DOMAIN T : Held(U[x]) = {}

LEMMA QuietThrough ==
  ASSUME NEW T, NEW U, Quiet(T, U), NEW d, NEW w, NEW n \in Nat, NEW p, Through(T, d, w, n, p)
  PROVE  Through(U, d, w, n, p)
<1>1. p \in [1 .. n -> DOMAIN U]
  BY DEF Through, Quiet
<1>2. ASSUME NEW j \in 1 .. n - 1 PROVE Leads(U[p[j]], w[j], p[j + 1])
  <2>1. p[j] \in DOMAIN T /\ p[j + 1] \in DOMAIN T
    BY DEF Through
  <2>2. Leads(T[p[j]], w[j], p[j + 1])
    BY DEF Through
  <2>3. QED
    BY <2>1, <2>2 DEF Quiet
<1>3. QED
  BY <1>1, <1>2 DEF Through

LEMMA QuietSpells ==
  ASSUME NEW T, NEW U, Quiet(T, U), NEW d \in DOMAIN T, NEW w
  PROVE  Spells(T, d, w) <=> Spells(U, d, w)
<1>1. PICK n : n = Len(w)
  OBVIOUS
<1>2. ASSUME Spells(T, d, w) PROVE Spells(U, d, w)
  <2>1. n \in Nat \ {0}
    BY <1>1, <1>2 DEF Spells
  <2>2. PICK p : Through(T, d, w, n, p) /\ Ends(T[p[n]], w[n])
    BY <1>1, <1>2 DEF Spells
  <2>3. Through(U, d, w, n, p)
    BY <2>1, <2>2, QuietThrough
  <2>4. p[n] \in DOMAIN T
    BY <2>1, <2>2 DEF Through
  <2>5. Ends(U[p[n]], w[n])
    BY <2>2, <2>4 DEF Quiet
  <2>6. QED
    BY <1>1, <2>1, <2>3, <2>5 DEF Spells
<1>3. ASSUME Spells(U, d, w) PROVE Spells(T, d, w)
  <2>1. n \in Nat \ {0}
    BY <1>1, <1>3 DEF Spells
  <2>2. PICK p : Through(U, d, w, n, p) /\ Ends(U[p[n]], w[n])
    BY <1>1, <1>3 DEF Spells
  <2>3. p \in [1 .. n -> DOMAIN U] /\ p[1] = d /\ \A j \in 1 .. n - 1 : Leads(U[p[j]], w[j], p[j + 1])
    BY <2>2 DEF Through
  <2>4. ASSUME NEW j \in 1 .. n PROVE p[j] \in DOMAIN T
    <3>1. Held(U[p[j]]) # {}
      <4>1. CASE j = n
        BY <2>2, <4>1 DEF Ends
      <4>2. CASE j # n
        <5>1. j \in 1 .. n - 1
          BY <2>1, <4>2
        <5>2. Leads(U[p[j]], w[j], p[j + 1])
          BY <2>3, <5>1
        <5>3. QED
          BY <5>2 DEF Leads
      <4>3. QED
        BY <4>1, <4>2
    <3>2. QED
      BY <2>3, <3>1 DEF Quiet
  <2>5. p \in [1 .. n -> DOMAIN T]
    BY <2>3, <2>4
  <2>6. ASSUME NEW j \in 1 .. n - 1 PROVE Leads(T[p[j]], w[j], p[j + 1])
    <3>1. j \in 1 .. n /\ j + 1 \in 1 .. n
      BY <2>1
    <3>2. p[j] \in DOMAIN T /\ p[j + 1] \in DOMAIN T
      BY <2>4, <3>1
    <3>3. QED
      BY <2>3, <3>2 DEF Quiet
  <2>7. Through(T, d, w, n, p)
    BY <2>3, <2>5, <2>6 DEF Through
  <2>8. n \in 1 .. n
    BY <2>1
  <2>9. Ends(T[p[n]], w[n])
    BY <2>2, <2>4, <2>8 DEF Quiet
  <2>10. QED
    BY <1>1, <2>1, <2>7, <2>9 DEF Spells
<1>4. QED
  BY <1>2, <1>3

LEMMA InsertedQuiet ==
  ASSUME NEW T, Tables(T), NEW x \in DOMAIN T, NEW key, NEW q, Inserted(T[x], key, q),
         NEW U, U = [T EXCEPT ![x] = q.t]
  PROVE  Quiet(T, U)
<1>1. DOMAIN U = DOMAIN T /\ U[x] = q.t /\ \A y \in DOMAIN T : y # x => U[y] = T[y]
  BY DEF Tables
<1>2. PICK H, G, a : H = Held(T[x]) /\ G = Held(q.t) /\ a = <<key, "n", 0>>
  OBVIOUS
<1>3. a[2] # "o" /\ a[3] = 0
  BY <1>2
<1>4. G = H \/ G = H \cup {a}
  BY <1>2 DEF Inserted
<1>5. ASSUME NEW k PROVE Ends(T[x], k) <=> Ends(U[x], k)
  BY <1>1, <1>2, <1>3, <1>4 DEF Ends
<1>6. ASSUME NEW k, NEW y \in DOMAIN T PROVE Leads(T[x], k, y) <=> Leads(U[x], k, y)
  <2>1. y # 0
    BY TableNames
  <2>2. QED
    BY <1>1, <1>2, <1>3, <1>4, <2>1 DEF Leads
<1>7. QED
  BY <1>1, <1>5, <1>6 DEF Quiet

LEMMA LinksQuiet ==
  ASSUME NEW T, Tables(T), NEW p \in DOMAIN T, NEW i \in UsedIn(T[p]),
         T[p].node[i].value = 0, NEW new, NEW U, Links(T, p, i, new, U)
  PROVE  Quiet(T, U) /\ Leads(U[p], T[p].node[i].key, new)
<1>1. /\ new \in Free(T) /\ DOMAIN U = DOMAIN T \cup {new} /\ Held(U[new]) = {}
      /\ U[p] = Valued(T[p], i, new)
      /\ \A x \in DOMAIN T : x # p => U[x] = T[x]
  BY DEF Links
<1>2. new \in Nat /\ new \notin DOMAIN T /\ new # 0
  BY <1>1, CrabAssumption DEF Free
<1>3. PICK k, f : k = T[p].node[i].key /\ f = T[p].node[i].flag
  OBVIOUS
<1>4. PICK a, b : a = <<k, f, 0>> /\ b = <<k, f, new>>
  OBVIOUS
<1>5. a[1] = k /\ b[1] = k /\ a[2] = f /\ b[2] = f /\ a[3] = 0 /\ b[3] = new
  BY <1>4
<1>6. Label(T[p].node[i]) = a /\ a \in Held(T[p])
  <2>1. Label(T[p].node[i]) = a
    BY <1>3, <1>4 DEF Label
  <2>2. QED
    BY <2>1 DEF Held
<1>7. Held(U[p]) = (Held(T[p]) \ {a}) \cup {b}
  <2>1. Table(T[p])
    BY TableNames
  <2>2. Held(U[p]) = Swapped(Held(T[p]), Label(T[p].node[i]), <<T[p].node[i].key, T[p].node[i].flag, new>>)
    BY <1>1, <1>2, <2>1, ValuedIs
  <2>3. Held(U[p]) = Swapped(Held(T[p]), a, b)
    BY <1>3, <1>4, <1>6, <2>2, Zenon
  <2>4. QED
    BY <2>3 DEF Swapped
<1>8. ASSUME NEW c PROVE Ends(T[p], c) <=> Ends(U[p], c)
  BY <1>5, <1>6, <1>7 DEF Ends
<1>9. ASSUME NEW c, NEW y \in DOMAIN T PROVE Leads(T[p], c, y) <=> Leads(U[p], c, y)
  <2>1. y # 0 /\ y # new
    BY <1>2, TableNames
  <2>2. QED
    BY <1>5, <1>6, <1>7, <2>1 DEF Leads
<1>10. Leads(U[p], k, new)
  BY <1>5, <1>7 DEF Leads
<1>11. \A x \in DOMAIN U \ DOMAIN T : Held(U[x]) = {}
  BY <1>1
<1>12. Quiet(T, U)
  BY <1>1, <1>8, <1>9, <1>11 DEF Quiet
<1>13. QED
  BY <1>3, <1>10, <1>12

LEMMA SameQuiet ==
  ASSUME NEW T
  PROVE  Quiet(T, T)
BY DEF Quiet

\* The place behind the first n characters of w.
FoundAt(T, d, w, n, at) ==
  /\ at[1] \in DOMAIN T /\ at[2] \in UsedIn(T[at[1]]) /\ T[at[1]].node[at[2]].key = w[n]
  /\ \E p : Through(T, d, w, n, p) /\ at[1] = p[n]
\* The place the next character starts from.
StartsAt(T, d, w, n, at) == IF n = 0 THEN at[1] = d /\ at[2] = -1 ELSE FoundAt(T, d, w, n, at)

\* From table p[n] the next character leads to table x.
LEMMA ThroughMore ==
  ASSUME NEW T, NEW d, NEW w, NEW n \in Nat \ {0}, NEW p, Through(T, d, w, n, p), NEW x \in DOMAIN T,
         Leads(T[p[n]], w[n], x)
  PROVE  \E q : Through(T, d, w, n + 1, q) /\ q[n + 1] = x
<1>1. PICK q : q = [j \in 1 .. n + 1 |-> IF j <= n THEN p[j] ELSE x]
  OBVIOUS
<1>2. p \in [1 .. n -> DOMAIN T] /\ p[1] = d /\ \A j \in 1 .. n - 1 : Leads(T[p[j]], w[j], p[j + 1])
  BY DEF Through
<1>3. q[n + 1] = x /\ \A j \in 1 .. n : q[j] = p[j]
  BY <1>1
<1>4. q \in [1 .. n + 1 -> DOMAIN T]
  <2>1. \A j \in 1 .. n + 1 : j <= n => j \in 1 .. n
    OBVIOUS
  <2>2. QED
    BY <1>1, <1>2, <2>1
<1>5. ASSUME NEW j \in 1 .. (n + 1) - 1 PROVE Leads(T[q[j]], w[j], q[j + 1])
  <2>1. CASE j = n
    BY <1>3, <2>1
  <2>2. CASE j # n
    <3>1. j \in 1 .. n - 1 /\ j \in 1 .. n /\ j + 1 \in 1 .. n
      BY <2>2
    <3>2. q[j] = p[j] /\ q[j + 1] = p[j + 1]
      BY <1>3, <3>1
    <3>3. QED
      BY <1>2, <3>1, <3>2
  <2>3. QED
    BY <2>1, <2>2
<1>6. q[1] = d
  BY <1>2, <1>3
<1>7. Through(T, d, w, n + 1, q)
  BY <1>4, <1>5, <1>6 DEF Through
<1>8. QED
  BY <1>3, <1>7

\* A character of a word changes no word, and leads to its place.
LEMMA StepWords ==
  ASSUME NEW R, NEW O, NEW T0, NEW s, Growing(s, R, O, T0), NEW d \in DOMAIN s.T, NEW word, NEW k \in Nat,
         StartsAt(s.T, d, word, k, s.at),
         NEW r, NEW x, NEW U, NEW q, Stepped(s, word[k + 1], r, x, U, q)
  PROVE  /\ r.ok /\ d \in DOMAIN r.T /\ StartsAt(r.T, d, word, k + 1, r.at)
         /\ \A w : Spells(s.T, d, w) <=> Spells(r.T, d, w)
<1>1. PICK T, at, rune : T = s.T /\ at = s.at /\ rune = word[k + 1]
  OBVIOUS
<1>2. Apart(T, R, O, T0) /\ Place(T, O, at) /\ Tables(T) /\ d \in DOMAIN T
  BY <1>1 DEF Growing, Apart
<1>3. PICK V : V = [U EXCEPT ![x] = q.t]
  OBVIOUS
<1>4. /\ Entered(T, at, x, U) /\ Inserted(U[x], rune, q) /\ r = [ok |-> TRUE, T |-> V, at |-> <<x, q.at>>]
  BY <1>1, <1>3 DEF Stepped
<1>5. Apart(U, R, O, T0) /\ x \in DOMAIN U \ O /\ Tables(U)
  <2>1. Apart(U, R, O, T0) /\ x \in DOMAIN U \ O
    BY <1>2, <1>4, EnteredApart
  <2>2. QED
    BY <2>1 DEF Apart
<1>6. PICK y, i : y = at[1] /\ i = at[2]
  OBVIOUS
<1>7. y \in DOMAIN T /\ (i = -1 \/ i \in UsedIn(T[y]))
  BY <1>2, <1>6 DEF Place
<1>8. k # 0 => /\ i \in UsedIn(T[y]) /\ T[y].node[i].key = word[k] /\ i # -1
               /\ \E p : Through(T, d, word, k, p) /\ y = p[k]
  <2>1. i \in UsedIn(T[y]) => i # -1
    <3>1. Table(T[y])
      BY <1>2, <1>7, TableNames
    <3>2. i \in UsedIn(T[y]) => i \in 0 .. T[y].capacity - 1
      BY DEF UsedIn, Used
    <3>3. T[y].capacity \in Nat
      BY <3>1, TableDomain
    <3>4. QED
      BY <3>2, <3>3
  <2>2. QED
    BY <1>1, <1>6, <2>1 DEF StartsAt, FoundAt
<1>9. Quiet(T, U) /\ \E p : Through(U, d, word, k + 1, p) /\ p[k + 1] = x
  <2>1. CASE k = 0
    <3>1. y = d /\ i = -1
      BY <1>1, <1>6, <2>1 DEF StartsAt
    <3>2. U = T /\ x = d
      BY <1>4, <1>6, <3>1 DEF Entered
    <3>3. PICK p : p = [j \in 1 .. 1 |-> d]
      OBVIOUS
    <3>4. p[1] = d /\ p \in [1 .. 1 -> DOMAIN T]
      BY <1>2, <3>3
    <3>5. Through(T, d, word, 1, p)
      BY <3>4 DEF Through
    <3>6. k + 1 = 1
      BY <2>1
    <3>7. QED
      BY <3>2, <3>4, <3>5, <3>6, SameQuiet
  <2>2. CASE k # 0
    <3>1. PICK p : Through(T, d, word, k, p) /\ y = p[k]
      BY <1>8, <2>2
    <3>2. Quiet(T, U) /\ Leads(U[y], word[k], x)
      <4>1. CASE U = T /\ x = T[y].node[i].value /\ x # 0
        <5>1. PICK h : h = Label(T[y].node[i])
          OBVIOUS
        <5>2. h \in Held(T[y]) /\ h[1] = word[k] /\ h[3] = x
          BY <1>8, <2>2, <4>1, <5>1 DEF Held, Label
        <5>3. QED
          BY <4>1, <5>2, SameQuiet DEF Leads
      <4>2. CASE T[y].node[i].value = 0 /\ Links(T, y, i, x, U)
        BY <1>2, <1>7, <1>8, <2>2, <4>2, LinksQuiet
      <4>3. QED
        BY <1>4, <1>6, <1>8, <2>2, <4>1, <4>2 DEF Entered
    <3>3. Through(U, d, word, k, p)
      BY <3>1, <3>2, QuietThrough
    <3>4. \E p1 : Through(U, d, word, k + 1, p1) /\ p1[k + 1] = x
      BY <1>5, <2>2, <3>1, <3>2, <3>3, ThroughMore
    <3>5. QED
      BY <3>2, <3>4
  <2>3. QED
    BY <2>1, <2>2
<1>10. Quiet(U, V)
  BY <1>3, <1>4, <1>5, InsertedQuiet
<1>11. ASSUME NEW w PROVE Spells(T, d, w) <=> Spells(V, d, w)
  <2>1. d \in DOMAIN U
    BY <1>2, <1>9 DEF Quiet
  <2>2. QED
    BY <1>2, <1>9, <1>10, <2>1, QuietSpells
<1>12. d \in DOMAIN V /\ x \in DOMAIN V
  BY <1>2, <1>5, <1>9, <1>10 DEF Quiet
<1>13. FoundAt(V, d, word, k + 1, <<x, q.at>>)
  <2>1. V[x] = q.t
    BY <1>3, <1>5
  <2>2. q.at \in UsedIn(V[x]) /\ V[x].node[q.at].key = word[k + 1]
    BY <1>1, <1>4, <2>1 DEF Inserted
  <2>3. PICK p : Through(U, d, word, k + 1, p) /\ p[k + 1] = x
    BY <1>9
  <2>4. Through(V, d, word, k + 1, p)
    BY <1>10, <2>3, QuietThrough
  <2>5. PICK z : z = <<x, q.at>>
    OBVIOUS
  <2>6. z[1] = x /\ z[2] = q.at
    BY <2>5
  <2>7. FoundAt(V, d, word, k + 1, z)
    BY <1>12, <2>2, <2>3, <2>4, <2>6 DEF FoundAt
  <2>8. QED
    BY <2>5, <2>7
<1>14. r.ok /\ r.T = V /\ r.at = <<x, q.at>>
  BY <1>4
<1>15. k + 1 # 0
  OBVIOUS
<1>16. StartsAt(r.T, d, word, k + 1, r.at)
  BY <1>13, <1>14, <1>15 DEF StartsAt
<1>17. QED
  BY <1>1, <1>11, <1>12, <1>14, <1>16

\* The state behind the first k characters has the words of T.
SameWords(s, T, d) == d \in DOMAIN s.T /\ \A w : Spells(s.T, d, w) <=> Spells(T, d, w)
Clean(word, k) == \A j \in 1 .. k : word[j] # Bad
Telling(s, T, d, word, k) ==
  SameWords(s, T, d) /\ (s.ok <=> Clean(word, k)) /\ (s.ok => StartsAt(s.T, d, word, k, s.at))

LEMMA LettersTell ==
  ASSUME NEW T, NEW R, NEW O, NEW T0, NEW dict \in DOMAIN T,
         NEW word \in Seq(Runes \cup {Bad}), NEW n, n = Len(word), NEW f, Letters(T, dict, word, n, f),
         NEW free, \A k \in 0 .. n : Spelling(f, R, O, T0, k, n, free)
  PROVE  \A k \in 0 .. n : Telling(f[k], T, dict, word, k)
<1> DEFINE S == {k \in Nat : k <= n => Telling(f[k], T, dict, word, k)}
<1>1. n \in Nat /\ \A k \in 1 .. n : word[k] \in Runes \cup {Bad}
  OBVIOUS
<1>2. 0 \in S
  <2>1. PICK s, at : s = f[0] /\ at = <<dict, -1>>
    OBVIOUS
  <2>2. 0 \in 0 .. n
    BY <1>1
  <2>3. s = [ok |-> TRUE, T |-> T, at |-> at]
    BY <2>1, <2>2 DEF Letters
  <2>4. s.ok = TRUE /\ s.T = T /\ s.at = at /\ at[1] = dict /\ at[2] = -1
    BY <2>1, <2>3
  <2>5. Clean(word, 0)
    BY DEF Clean
  <2>6. StartsAt(s.T, dict, word, 0, s.at)
    BY <2>4 DEF StartsAt
  <2>7. SameWords(s, T, dict)
    BY <2>4 DEF SameWords
  <2>8. Telling(s, T, dict, word, 0)
    BY <2>4, <2>5, <2>6, <2>7 DEF Telling
  <2>9. QED
    BY <2>1, <2>8
<1>3. ASSUME NEW k \in Nat, k \in S PROVE k + 1 \in S
  <2>1. SUFFICES ASSUME k + 1 <= n PROVE Telling(f[k + 1], T, dict, word, k + 1)
    OBVIOUS
  <2>2. k < n /\ k <= n /\ k \in 0 .. n /\ k + 1 \in 0 .. n /\ k + 1 \in 1 .. n /\ k + 1 # 0 /\ (k + 1) - 1 = k
    BY <1>1, <2>1
  <2>3. PICK s, r, rune : s = f[k] /\ r = f[k + 1] /\ rune = word[k + 1]
    OBVIOUS
  <2>4. r = Step(s, rune) /\ rune \in Runes \cup {Bad}
    <3>1. f[k + 1] = Step(f[k], word[k + 1])
      BY <2>2 DEF Letters
    <3>2. QED
      BY <1>1, <2>2, <2>3, <3>1
  <2>5. Growing(s, R, O, T0) /\ (s.at[2] = -1 \/ Free(s.T) # {})
    BY <2>2, <2>3 DEF Spelling
  <2>6. Telling(s, T, dict, word, k)
    BY <1>3, <2>2, <2>3
  <2>7. SameWords(s, T, dict) /\ (s.ok <=> Clean(word, k)) /\ (s.ok => StartsAt(s.T, dict, word, k, s.at))
    BY <2>6 DEF Telling
  <2>8. Clean(word, k + 1) <=> Clean(word, k) /\ rune # Bad
    <3>1. 1 .. k + 1 = 1 .. k \cup {k + 1}
      OBVIOUS
    <3>2. QED
      BY <2>3, <3>1 DEF Clean
  <2>9. CASE Stopped(s, rune, r)
    <3>1. r.ok = FALSE /\ r.T = s.T /\ ~ Clean(word, k + 1)
      BY <2>5, <2>7, <2>8, <2>9 DEF Stopped, Growing
    <3>2. SameWords(r, T, dict)
      BY <2>7, <3>1 DEF SameWords
    <3>3. QED
      BY <2>3, <3>1, <3>2 DEF Telling
  <2>10. ASSUME NEW x, NEW U, NEW q, Stepped(s, rune, r, x, U, q) PROVE Telling(r, T, dict, word, k + 1)
    <3>1. s.ok
      BY <2>10 DEF Stepped
    <3>2. rune # Bad
      <4>1. SUFFICES ASSUME rune = Bad PROVE FALSE
        OBVIOUS
      <4>2. r = [s EXCEPT !.ok = FALSE]
        BY <2>4, <4>1 DEF Step
      <4>3. PICK a, b, c : s = [ok |-> a, T |-> b, at |-> c]
        BY <2>5 DEF Growing
      <4>4. r.ok = FALSE
        BY <4>2, <4>3
      <4>5. r.ok = TRUE
        BY <2>10 DEF Stepped
      <4>6. QED
        BY <4>4, <4>5
    <3>3. dict \in DOMAIN s.T /\ StartsAt(s.T, dict, word, k, s.at)
      BY <2>7, <3>1 DEF SameWords
    <3>4. Stepped(s, word[k + 1], r, x, U, q)
      BY <2>3, <2>10
    <3>5. /\ r.ok /\ dict \in DOMAIN r.T /\ StartsAt(r.T, dict, word, k + 1, r.at)
          /\ \A w : Spells(s.T, dict, w) <=> Spells(r.T, dict, w)
      BY <2>5, <3>3, <3>4, StepWords
    <3>6. SameWords(r, T, dict)
      BY <2>7, <3>5 DEF SameWords
    <3>7. Clean(word, k + 1)
      BY <2>7, <2>8, <3>1, <3>2
    <3>8. QED
      BY <3>5, <3>6, <3>7 DEF Telling
  <2>11. Stopped(s, rune, r) \/ \E x, U, q : Stepped(s, rune, r, x, U, q)
    BY <2>4, <2>5, StepIs
  <2>12. QED
    BY <2>3, <2>9, <2>10, <2>11
<1>4. QED
  <2> HIDE DEF S
  <2>1. Nat \subseteq S
    BY <1>2, <1>3, AllNumbers
  <2>2. QED
    BY <1>1, <2>1 DEF S

\* Ways from a dictionary to the same table are the same.
LEMMA OneBack ==
  ASSUME NEW T, NEW R, Forest(T, R), NEW x \in DOMAIN T, NEW y \in DOMAIN T, NEW z \in DOMAIN T, z # 0,
         NEW k, NEW l, Leads(T[x], k, z), Leads(T[y], l, z)
  PROVE  x = y /\ k = l
<1>1. PICK h \in Held(T[x]) : h[1] = k /\ h[3] = z
  BY DEF Leads
<1>2. PICK g \in Held(T[y]) : g[1] = l /\ g[3] = z
  BY DEF Leads
<1>3. x = y /\ h = g
  BY <1>1, <1>2 DEF Forest, OneRef
<1>4. QED
  BY <1>1, <1>2, <1>3

LEMMA BackTogether ==
  ASSUME NEW T, NEW R, Tables(T), Forest(T, R), NEW d, NEW w, NEW v, NEW n \in Nat \ {0}, NEW m \in Nat \ {0},
         NEW p, NEW q, Through(T, d, w, n, p), Through(T, d, v, m, q), p[n] = q[m]
  PROVE  \A i \in Nat : i < n /\ i < m => p[n - i] = q[m - i]
<1> DEFINE S == {i \in Nat : i < n /\ i < m => p[n - i] = q[m - i]}
<1>1. 0 \in S
  OBVIOUS
<1>2. ASSUME NEW i \in Nat, i \in S PROVE i + 1 \in S
  <2>1. SUFFICES ASSUME i + 1 < n, i + 1 < m PROVE p[n - (i + 1)] = q[m - (i + 1)]
    OBVIOUS
  <2>2. PICK a, b : a = n - (i + 1) /\ b = m - (i + 1)
    OBVIOUS
  <2>3. a \in 1 .. n - 1 /\ a \in 1 .. n /\ a + 1 \in 1 .. n /\ a + 1 = n - i
        /\ b \in 1 .. m - 1 /\ b \in 1 .. m /\ b + 1 \in 1 .. m /\ b + 1 = m - i
    BY <2>1, <2>2
  <2>4. p[a + 1] = q[b + 1]
    BY <1>2, <2>1, <2>3
  <2>5. Leads(T[p[a]], w[a], p[a + 1]) /\ Leads(T[q[b]], v[b], q[b + 1])
    BY <2>3 DEF Through
  <2>6. p[a] \in DOMAIN T /\ q[b] \in DOMAIN T /\ p[a + 1] \in DOMAIN T
    BY <2>3 DEF Through
  <2>7. p[a + 1] # 0
    BY <2>6, TableNames
  <2>8. p[a] = q[b]
    BY <2>4, <2>5, <2>6, <2>7, OneBack
  <2>9. QED
    BY <2>2, <2>8
<1>3. QED
  <2> HIDE DEF S
  <2>1. Nat \subseteq S
    BY <1>1, <1>2, AllNumbers
  <2>2. QED
    BY <2>1 DEF S

LEMMA NotLonger ==
  ASSUME NEW T, NEW R, Tables(T), Forest(T, R), NEW d \in R, NEW w, NEW v, NEW n \in Nat \ {0}, NEW m \in Nat \ {0},
         NEW p, NEW q, Through(T, d, w, n, p), Through(T, d, v, m, q), p[n] = q[m]
  PROVE  ~ (n < m)
<1>1. SUFFICES ASSUME n < m PROVE FALSE
  OBVIOUS
<1>2. PICK i, b : i = n - 1 /\ b = m - n
  OBVIOUS
<1>3. i \in Nat /\ i < n /\ i < m /\ n - i = 1 /\ m - i = b + 1 /\ b \in 1 .. m - 1 /\ b \in 1 .. m
  BY <1>1, <1>2
<1>4. p[n - i] = q[m - i]
  <2>1. \A c \in Nat : c < n /\ c < m => p[n - c] = q[m - c]
    BY BackTogether
  <2>2. QED
    BY <1>3, <2>1
<1>5. q[b + 1] = d
  BY <1>3, <1>4 DEF Through
<1>6. Leads(T[q[b]], v[b], d) /\ q[b] \in DOMAIN T
  BY <1>3, <1>5 DEF Through
<1>7. PICK h \in Held(T[q[b]]) : h[3] = d
  BY <1>6 DEF Leads
<1>8. d = 0
  BY <1>6, <1>7 DEF Forest, Typed
<1>9. d \in DOMAIN T
  BY DEF Forest
<1>10. QED
  BY <1>8, <1>9, TableNames

LEMMA OneWay ==
  ASSUME NEW T, NEW R, Tables(T), Forest(T, R), NEW d \in R, NEW w, NEW v, NEW n \in Nat \ {0}, NEW m \in Nat \ {0},
         NEW p, NEW q, Through(T, d, w, n, p), Through(T, d, v, m, q), p[n] = q[m]
  PROVE  n = m /\ \A j \in 1 .. n - 1 : w[j] = v[j]
<1>1. n = m
  <2>1. ~ (n < m)
    BY NotLonger
  <2>2. ~ (m < n)
    BY NotLonger
  <2>3. QED
    BY <2>1, <2>2
<1>2. ASSUME NEW j \in 1 .. n PROVE p[j] = q[j]
  <2>1. n - j \in Nat /\ n - j < n /\ n - j < m /\ n - (n - j) = j /\ m - (n - j) = j
    BY <1>1
  <2>2. p[n - (n - j)] = q[m - (n - j)]
    <3>1. \A c \in Nat : c < n /\ c < m => p[n - c] = q[m - c]
      BY BackTogether
    <3>2. QED
      BY <2>1, <3>1
  <2>3. QED
    BY <2>1, <2>2
<1>3. ASSUME NEW j \in 1 .. n - 1 PROVE w[j] = v[j]
  <2>1. j \in 1 .. n /\ j + 1 \in 1 .. n
    OBVIOUS
  <2>2. p[j] = q[j] /\ p[j + 1] = q[j + 1]
    BY <1>2, <2>1
  <2>3. Leads(T[p[j]], w[j], p[j + 1]) /\ Leads(T[q[j]], v[j], q[j + 1])
    BY <1>1 DEF Through
  <2>4. p[j] \in DOMAIN T /\ p[j + 1] \in DOMAIN T /\ q[j] \in DOMAIN T
    BY <2>1, <2>2 DEF Through
  <2>5. p[j + 1] # 0
    BY <2>4, TableNames
  <2>6. QED
    BY <2>2, <2>3, <2>4, <2>5, OneBack
<1>4. QED
  BY <1>1, <1>3

\* The flag at the end of a word adds the word.
LEMMA FlagHeld ==
  ASSUME NEW t, Table(t), NEW i \in UsedIn(t), NEW u, u = Flagged(t, i, "o"), NEW c, c = t.node[i].key
  PROVE  /\ \A k : Ends(u, k) <=> Ends(t, k) \/ k = c
         /\ \A k, y : Leads(u, k, y) <=> Leads(t, k, y)
<1>1. PICK f, v : f = t.node[i].flag /\ v = t.node[i].value
  OBVIOUS
<1>2. PICK a, b : a = <<c, f, v>> /\ b = <<c, "o", v>>
  OBVIOUS
<1>3. a[1] = c /\ a[2] = f /\ a[3] = v /\ b[1] = c /\ b[2] = "o" /\ b[3] = v
  BY <1>2
<1>4. Label(t.node[i]) = a /\ a \in Held(t)
  <2>1. Label(t.node[i]) = a
    BY <1>1, <1>2 DEF Label
  <2>2. QED
    BY <2>1 DEF Held
<1>5. Held(u) = (Held(t) \ {a}) \cup {b}
  <2>1. "o" \in {"n", "o"}
    OBVIOUS
  <2>2. Held(u) = Swapped(Held(t), Label(t.node[i]), <<t.node[i].key, "o", t.node[i].value>>)
    BY <2>1, FlaggedIs
  <2>3. Held(u) = Swapped(Held(t), a, b)
    BY <1>1, <1>2, <1>4, <2>2, Zenon
  <2>4. QED
    BY <2>3 DEF Swapped
<1>6. ASSUME NEW k PROVE Ends(u, k) <=> Ends(t, k) \/ k = c
  BY <1>3, <1>4, <1>5 DEF Ends
<1>7. ASSUME NEW k, NEW y PROVE Leads(u, k, y) <=> Leads(t, k, y)
  BY <1>3, <1>4, <1>5 DEF Leads
<1>8. QED
  BY <1>6, <1>7

WithFlag(T, at) == [T EXCEPT ![at[1]] = Flagged(T[at[1]], at[2], "o")]

LEMMA FlagWords ==
  ASSUME NEW T, NEW R, Tables(T), Forest(T, R), NEW d \in R, NEW word \in Seq(Nat), NEW n \in Nat \ {0}, n = Len(word),
         NEW at, FoundAt(T, d, word, n, at),
         NEW U, U = WithFlag(T, at)
  PROVE  \A w \in Seq(Nat) : Spells(U, d, w) <=> Spells(T, d, w) \/ w = word
<1>1. PICK x, i : x = at[1] /\ i = at[2]
  OBVIOUS
<1>2. /\ x \in DOMAIN T /\ i \in UsedIn(T[x]) /\ T[x].node[i].key = word[n]
      /\ \E p : Through(T, d, word, n, p) /\ x = p[n]
  BY <1>1 DEF FoundAt
<1>3. PICK p : Through(T, d, word, n, p) /\ x = p[n]
  BY <1>2
<1>4. DOMAIN U = DOMAIN T /\ U[x] = Flagged(T[x], i, "o") /\ \A y \in DOMAIN T : y # x => U[y] = T[y]
  BY <1>1, <1>2 DEF Tables, WithFlag
<1>5. /\ \A k : Ends(U[x], k) <=> Ends(T[x], k) \/ k = word[n]
      /\ \A k, y : Leads(U[x], k, y) <=> Leads(T[x], k, y)
  <2>1. Table(T[x])
    BY <1>2, TableNames
  <2>2. QED
    BY <1>2, <1>4, <2>1, FlagHeld
<1>6. /\ \A z \in DOMAIN T : \A k, y : Leads(U[z], k, y) <=> Leads(T[z], k, y)
      /\ \A z \in DOMAIN T : \A k : Ends(U[z], k) <=> Ends(T[z], k) \/ (z = x /\ k = word[n])
  <2>1. ASSUME NEW z \in DOMAIN T, NEW k, NEW y PROVE Leads(U[z], k, y) <=> Leads(T[z], k, y)
    <3>1. CASE z = x
      BY <1>5, <3>1
    <3>2. CASE z # x
      BY <1>4, <3>2
    <3>3. QED
      BY <3>1, <3>2
  <2>2. ASSUME NEW z \in DOMAIN T, NEW k PROVE Ends(U[z], k) <=> Ends(T[z], k) \/ (z = x /\ k = word[n])
    <3>1. CASE z = x
      BY <1>5, <3>1
    <3>2. CASE z # x
      BY <1>4, <3>2
    <3>3. QED
      BY <3>1, <3>2
  <2>3. QED
    BY <2>1, <2>2
<1>7. ASSUME NEW w, NEW m \in Nat, NEW q PROVE Through(U, d, w, m, q) <=> Through(T, d, w, m, q)
  <2>1. ASSUME q \in [1 .. m -> DOMAIN T], NEW j \in 1 .. m - 1
        PROVE  Leads(U[q[j]], w[j], q[j + 1]) <=> Leads(T[q[j]], w[j], q[j + 1])
    <3>1. q[j] \in DOMAIN T
      BY <2>1
    <3>2. QED
      BY <1>6, <3>1
  <2>2. QED
    BY <1>4, <2>1 DEF Through
<1>8. ASSUME NEW w \in Seq(Nat), Spells(U, d, w), ~ Spells(T, d, w) PROVE w = word
  <2>1. PICK m : m = Len(w)
    OBVIOUS
  <2>2. m \in Nat \ {0}
    BY <1>8, <2>1 DEF Spells
  <2>3. PICK q : Through(U, d, w, m, q) /\ Ends(U[q[m]], w[m])
    BY <1>8, <2>1 DEF Spells
  <2>4. Through(T, d, w, m, q)
    BY <1>7, <2>2, <2>3
  <2>5. ~ Ends(T[q[m]], w[m])
    BY <1>8, <2>1, <2>2, <2>4 DEF Spells
  <2>6. q[m] \in DOMAIN T
    BY <2>2, <2>4 DEF Through
  <2>7. q[m] = x /\ w[m] = word[n]
    BY <1>6, <2>3, <2>5, <2>6
  <2>8. n = m /\ \A j \in 1 .. n - 1 : word[j] = w[j]
    BY <1>3, <2>2, <2>4, <2>7, OneWay
  <2>9. ASSUME NEW j \in 1 .. n PROVE word[j] = w[j]
    <3>1. CASE j = n
      BY <2>7, <2>8, <3>1
    <3>2. CASE j # n
      <4>1. j \in 1 .. n - 1
        BY <3>2
      <4>2. QED
        BY <2>8, <4>1
    <3>3. QED
      BY <3>1, <3>2
  <2>10. w \in [1 .. n -> Nat] /\ word \in [1 .. n -> Nat]
    <3>1. \A s \in Seq(Nat) : s \in [1 .. Len(s) -> Nat]
      BY LenProperties
    <3>2. QED
      BY <2>1, <2>8, <3>1
  <2>11. QED
    BY <2>9, <2>10
<1>9. ASSUME NEW w \in Seq(Nat), Spells(T, d, w) PROVE Spells(U, d, w)
  <2>1. PICK m : m = Len(w)
    OBVIOUS
  <2>2. m \in Nat \ {0}
    BY <1>9, <2>1 DEF Spells
  <2>3. PICK q : Through(T, d, w, m, q) /\ Ends(T[q[m]], w[m])
    BY <1>9, <2>1 DEF Spells
  <2>4. q[m] \in DOMAIN T
    BY <2>2, <2>3 DEF Through
  <2>5. Through(U, d, w, m, q) /\ Ends(U[q[m]], w[m])
    BY <1>6, <1>7, <2>2, <2>3, <2>4
  <2>6. QED
    BY <2>1, <2>2, <2>5 DEF Spells
<1>10. Spells(U, d, word)
  <2>1. Through(U, d, word, n, p)
    BY <1>3, <1>7
  <2>2. Ends(U[p[n]], word[n])
    BY <1>2, <1>3, <1>5
  <2>3. QED
    BY <2>1, <2>2 DEF Spells
<1>11. QED
  BY <1>8, <1>9, <1>10

\* The set of one more word, if it is one.
OneWord(w) == IF IsWord(w) THEN {w} \ {<<>>} ELSE {}

LEMMA CleanIs ==
  ASSUME NEW word \in Seq(Runes \cup {Bad})
  PROVE  /\ Clean(word, Len(word)) <=> IsWord(word)
         /\ IsWord(word) => word \in Seq(Nat)
<1>1. Len(word) \in Nat /\ DOMAIN word = 1 .. Len(word) /\ word \in [1 .. Len(word) -> Runes \cup {Bad}]
  BY LenProperties
<1>2. Clean(word, Len(word)) <=> IsWord(word)
  BY <1>1 DEF Clean, IsWord, ToSet
<1>3. ASSUME IsWord(word) PROVE word \in Seq(Nat)
  <2>1. \A j \in 1 .. Len(word) : word[j] \in Nat
    BY <1>1, <1>2, <1>3, CrabAssumption DEF Clean
  <2>2. word \in [1 .. Len(word) -> Nat]
    BY <1>1, <2>1
  <2>3. QED
    BY <1>1, <2>2
<1>4. QED
  BY <1>2, <1>3

LEMMA SameSpelt ==
  ASSUME NEW s, NEW T, NEW d, SameWords(s, T, d)
  PROVE  Spelt(s.T, d) = Spelt(T, d)
BY DEF SameWords, Spelt

\* A word is added to those of its dictionary, and no part of a wrong one is.
LEMMA WordTells ==
  ASSUME NEW T, NEW R, NEW O, NEW T0, Apart(T, R, O, T0), NEW dict \in R \ O,
         NEW word \in Seq(Runes \cup {Bad}), Cardinality(Free(T)) >= Cost(Len(word)),
         NEW r, r = _dict_insert(T, dict, word)
  PROVE  (r.ok <=> IsWord(word)) /\ Spelt(r.T, dict) = Spelt(T, dict) \cup OneWord(word)
<1>1. PICK n, free : n = Len(word) /\ free = Cardinality(Free(T))
  OBVIOUS
<1>2. n \in Nat /\ n \in 0 .. n
  BY <1>1
<1>3. dict \in DOMAIN T \ O
  BY DEF Apart, Forest
<1>4. PICK f : /\ Letters(T, dict, word, n, f) /\ _dict_insert(T, dict, word) = Ended(f[n])
               /\ \A k \in 0 .. n : Spelling(f, R, O, T0, k, n, free)
  BY <1>1, <1>3, LettersGrow
<1>5. PICK s : s = f[n]
  OBVIOUS
<1>6. Telling(s, T, dict, word, n)
  <2>1. dict \in DOMAIN T
    BY <1>3
  <2>2. \A k \in 0 .. n : Telling(f[k], T, dict, word, k)
    BY <1>1, <1>4, <2>1, LettersTell
  <2>3. QED
    BY <1>2, <1>5, <2>2
<1>7. SameWords(s, T, dict) /\ (s.ok <=> IsWord(word)) /\ (s.ok => StartsAt(s.T, dict, word, n, s.at))
      /\ (IsWord(word) => word \in Seq(Nat))
  BY <1>1, <1>6, CleanIs DEF Telling
<1>8. Growing(s, R, O, T0)
  BY <1>2, <1>4, <1>5 DEF Spelling
<1>9. r.ok = s.ok /\ r.T = EndTables(s)
  <2>1. r = Ended(s)
    BY <1>4, <1>5, Zenon
  <2>2. /\ Growing(r, R, O, T0) /\ DOMAIN r.T = DOMAIN s.T /\ r.ok = s.ok /\ r.at = s.at
        /\ r.T = EndTables(s)
    BY <1>8, <2>1, EndedGrows
  <2>3. QED
    BY <2>2, Zenon
<1>10. Tables(s.T) /\ Forest(s.T, R) /\ dict \in R
  BY <1>8 DEF Growing, Apart
<1>11. Spelt(s.T, dict) = Spelt(T, dict)
  BY <1>7, SameSpelt
<1>12. CASE ~ s.ok
  <2>1. r.T = s.T
    BY <1>9, <1>12 DEF EndTables
  <2>2. OneWord(word) = {}
    BY <1>7, <1>12 DEF OneWord
  <2>3. QED
    BY <1>7, <1>9, <1>11, <2>1, <2>2
<1>13. CASE s.ok /\ n = 0
  <2>1. s.at[2] = -1
    BY <1>7, <1>13 DEF StartsAt
  <2>2. r.T = s.T
    BY <1>9, <2>1 DEF EndTables
  <2>3. word = <<>>
    BY <1>1, <1>13, EmptySeq
  <2>4. OneWord(word) = {}
    BY <2>3 DEF OneWord
  <2>5. QED
    BY <1>7, <1>9, <1>11, <2>2, <2>4
<1>14. CASE s.ok /\ n # 0
  <2>1. FoundAt(s.T, dict, word, n, s.at)
    BY <1>7, <1>14 DEF StartsAt
  <2>2. s.at[2] # -1
    <3>1. PICK x, i : x = s.at[1] /\ i = s.at[2]
      OBVIOUS
    <3>2. x \in DOMAIN s.T /\ i \in UsedIn(s.T[x])
      BY <2>1, <3>1 DEF FoundAt
    <3>3. Table(s.T[x])
      BY <1>10, <3>2, TableNames
    <3>4. i \in 0 .. s.T[x].capacity - 1 /\ s.T[x].capacity \in Nat
      BY <3>2, <3>3, UsedNode, TableDomain
    <3>5. QED
      BY <3>1, <3>4
  <2>3. PICK U : U = WithFlag(s.T, s.at)
    OBVIOUS
  <2>4. r.T = U
    BY <1>9, <1>14, <2>2, <2>3, Zenon DEF EndTables, WithFlag
  <2>5. IsWord(word) /\ word \in Seq(Nat) /\ word # <<>>
    BY <1>1, <1>7, <1>14
  <2>6. n \in Nat \ {0}
    BY <1>2, <1>14
  <2>7. \A w \in Seq(Nat) : Spells(U, dict, w) <=> Spells(s.T, dict, w) \/ w = word
    BY <1>1, <1>10, <2>1, <2>3, <2>5, <2>6, FlagWords
  <2>8. Spelt(U, dict) = Spelt(s.T, dict) \cup {word}
    BY <2>5, <2>7 DEF Spelt
  <2>9. OneWord(word) = {word}
    BY <2>5 DEF OneWord
  <2>10. QED
    BY <1>7, <1>9, <1>11, <2>4, <2>8, <2>9
<1>15. QED
  BY <1>12, <1>13, <1>14

\* An empty dictionary has no words.
LEMMA NoneSpelt ==
  ASSUME NEW T, NEW d \in DOMAIN T, Held(T[d]) = {}
  PROVE  Spelt(T, d) = {}
<1>1. SUFFICES ASSUME NEW w \in Spelt(T, d) PROVE FALSE
  OBVIOUS
<1>2. PICK n : n = Len(w)
  OBVIOUS
<1>3. n \in Nat \ {0}
  BY <1>2 DEF Spelt, Spells
<1>4. PICK p : Through(T, d, w, n, p) /\ Ends(T[p[n]], w[n])
  BY <1>2 DEF Spelt, Spells
<1>5. CASE n = 1
  BY <1>4, <1>5 DEF Through, Ends
<1>6. CASE n # 1
  <2>1. 1 \in 1 .. n - 1
    BY <1>3, <1>6
  <2>2. Leads(T[p[1]], w[1], p[1 + 1]) /\ p[1] = d
    BY <1>4, <2>1 DEF Through
  <2>3. QED
    BY <2>2 DEF Leads
<1>7. QED
  BY <1>5, <1>6

\* The words of a list, up to the first wrong one.
Taught(s, T, dict, ws, k) ==
  /\ s.ok <=> \A j \in 1 .. k : IsWord(ws[j])
  /\ s.ok => Spelt(s.T, dict) = Spelt(T, dict) \cup ({ws[j] : j \in 1 .. k} \ {<<>>})

LEMMA OpenedTells ==
  ASSUME NEW T, NEW R, NEW O, NEW T0, Apart(T, R, O, T0), NEW dict \in R \ O,
         NEW ws \in Seq(Seq(Runes \cup {Bad})), NEW g, Needs(ws, Len(ws), g),
         Cardinality(Free(T)) >= g[Len(ws)]
  PROVE  Taught(opened(T, dict, ws), T, dict, ws, Len(ws))
<1>1. PICK n : n = Len(ws)
  OBVIOUS
<1>2. n \in Nat /\ \A k \in 1 .. n : ws[k] \in Seq(Runes \cup {Bad})
  BY <1>1
<1>3. PICK f : /\ Opens(T, dict, ws, n, f) /\ opened(T, dict, ws) = f[n]
               /\ \A k \in 0 .. n : Growing(f[k], R, O, T0)
               /\ \A k \in Nat : k < n => Cardinality(Free(f[k].T)) >= Cost(Len(ws[k + 1]))
  <2>1. \E f : /\ Opens(T, dict, ws, Len(ws), f) /\ opened(T, dict, ws) = f[Len(ws)]
               /\ \A k \in 0 .. Len(ws) : Growing(f[k], R, O, T0)
               /\ \A k \in Nat : k < Len(ws) => Cardinality(Free(f[k].T)) >= Cost(Len(ws[k + 1]))
    BY OpenedGrows
  <2>2. QED
    BY <1>1, <2>1, Zenon
<1> DEFINE S == {k \in Nat : k <= n => Taught(f[k], T, dict, ws, k)}
<1>4. 0 \in S
  <2>1. PICK s, at : s = f[0] /\ at = <<dict, -1>>
    OBVIOUS
  <2>2. 0 \in 0 .. n
    BY <1>2
  <2>3. s = [ok |-> TRUE, T |-> T, at |-> at]
    BY <1>3, <2>1, <2>2 DEF Opens
  <2>4. s.ok = TRUE /\ s.T = T
    BY <2>3
  <2>5. Taught(s, T, dict, ws, 0)
    BY <2>4 DEF Taught
  <2>6. QED
    BY <2>1, <2>5
<1>5. ASSUME NEW k \in Nat, k \in S PROVE k + 1 \in S
  <2>1. SUFFICES ASSUME k + 1 <= n PROVE Taught(f[k + 1], T, dict, ws, k + 1)
    OBVIOUS
  <2>2. k < n /\ k <= n /\ k + 1 \in 0 .. n /\ k + 1 \in 1 .. n /\ k \in 0 .. n /\ k + 1 # 0 /\ (k + 1) - 1 = k
    BY <1>2, <2>1
  <2>3. PICK s, r, w : s = f[k] /\ r = f[k + 1] /\ w = ws[k + 1]
    OBVIOUS
  <2>4. r = OpenStep(s, dict, w)
    BY <1>3, <2>2, <2>3 DEF Opens
  <2>5. Taught(s, T, dict, ws, k)
    BY <1>5, <2>2, <2>3
  <2>6. Growing(s, R, O, T0) /\ Cardinality(Free(s.T)) >= Cost(Len(w)) /\ w \in Seq(Runes \cup {Bad})
    BY <1>2, <1>3, <2>2, <2>3
  <2>7. 1 .. k + 1 = 1 .. k \cup {k + 1}
    BY <2>2
  <2>8. (\A j \in 1 .. k + 1 : IsWord(ws[j])) <=> (\A j \in 1 .. k : IsWord(ws[j])) /\ IsWord(w)
    BY <2>3, <2>7
  <2>9. CASE s.ok
    <3>1. r = _dict_insert(s.T, dict, w)
      BY <2>4, <2>9 DEF OpenStep
    <3>2. Apart(s.T, R, O, T0)
      BY <2>6 DEF Growing
    <3>3. (r.ok <=> IsWord(w)) /\ Spelt(r.T, dict) = Spelt(s.T, dict) \cup OneWord(w)
      BY <2>6, <3>1, <3>2, WordTells
    <3>4. r.ok <=> \A j \in 1 .. k + 1 : IsWord(ws[j])
      BY <2>5, <2>8, <2>9, <3>3 DEF Taught
    <3>5. ASSUME r.ok PROVE Spelt(r.T, dict) = Spelt(T, dict) \cup ({ws[j] : j \in 1 .. k + 1} \ {<<>>})
      <4>1. OneWord(w) = {w} \ {<<>>}
        BY <3>3, <3>5 DEF OneWord
      <4>2. {ws[j] : j \in 1 .. k + 1} = {ws[j] : j \in 1 .. k} \cup {w}
        BY <2>3, <2>7
      <4>3. PICK A, B, C, D : A = Spelt(r.T, dict) /\ B = Spelt(T, dict) /\ C = {ws[j] : j \in 1 .. k}
                              /\ D = {ws[j] : j \in 1 .. k + 1}
        OBVIOUS
      <4>4. Spelt(s.T, dict) = B \cup (C \ {<<>>})
        BY <2>5, <2>9, <4>3 DEF Taught
      <4>5. A = (B \cup (C \ {<<>>})) \cup ({w} \ {<<>>}) /\ D = C \cup {w}
        BY <3>3, <4>1, <4>2, <4>3, <4>4
      <4>6. A = B \cup (D \ {<<>>})
        BY <4>5
      <4>7. QED
        BY <4>3, <4>6
    <3>6. Taught(r, T, dict, ws, k + 1)
      BY <3>4, <3>5 DEF Taught
    <3>7. QED
      BY <2>3, <3>6
  <2>10. CASE ~ s.ok
    <3>1. r = s
      BY <2>4, <2>10 DEF OpenStep
    <3>2. ~ \A j \in 1 .. k + 1 : IsWord(ws[j])
      BY <2>5, <2>8, <2>10 DEF Taught
    <3>3. Taught(r, T, dict, ws, k + 1)
      BY <2>10, <3>1, <3>2 DEF Taught
    <3>4. QED
      BY <2>3, <3>3
  <2>11. QED
    BY <2>9, <2>10
<1>6. QED
  <2> HIDE DEF S
  <2>1. Nat \subseteq S
    BY <1>4, <1>5, AllNumbers
  <2>2. n \in S
    BY <1>2, <2>1
  <2>3. n <= n
    BY <1>2
  <2>4. Taught(f[n], T, dict, ws, n)
    BY <2>2, <2>3 DEF S
  <2>5. QED
    BY <1>1, <1>3, <2>4

-----------------------------------------------------------------------------
(* What callers see                                                          *)

LEMMA InsertSeen ==
  ASSUME Dictionaries, NEW w \in Words, dict_insert(w)
  PROVE  Spelled' = Spelled \cup OneWord(w)
<1>1. PICK ws, s : ws = <<w>> /\ s = _dict_insert(table, g_dict, w)
  OBVIOUS
<1>2. w \in Seq(Runes \cup {Bad}) /\ Len(w) \in Nat
  BY CrabAssumption
<1>3. ws \in Seq(Seq(Runes \cup {Bad})) /\ Len(ws) = 1 /\ ws[1] = w
  BY <1>1, <1>2
<1>4. g_dict # 0 /\ Room(ws) /\ table' = s.T /\ g_dict' = g_dict
  BY <1>1 DEF dict_insert
<1>5. PICK g : Needs(ws, Len(ws), g) /\ g[Len(ws)] \in Nat /\ Cardinality(Free(table)) > g[Len(ws)]
  BY <1>3, <1>4, RoomIs
<1>6. Cardinality(Free(table)) >= Cost(Len(w))
  <2>1. Needs(ws, Len(ws), g) /\ 0 \in Nat /\ 0 < Len(ws)
    BY <1>3, <1>5
  <2>2. g[0] = 0 /\ \A k \in Nat : k < Len(ws) => g[k + 1] = g[k] + Cost(Len(ws[k + 1]))
    BY <1>3, <2>1, NeedsGrow
  <2>3. g[0 + 1] = g[0] + Cost(Len(ws[0 + 1]))
    BY <2>1, <2>2
  <2>4. Cost(Len(w)) \in Nat /\ Cardinality(Free(table)) \in Nat
    BY <1>2, CostIs, FreeCount
  <2>5. g[1] = Cost(Len(w))
    BY <1>3, <2>2, <2>3, <2>4
  <2>6. QED
    BY <1>3, <1>5, <2>4, <2>5
<1>7. Apart(table, Roots, {}, table) /\ g_dict \in Roots \ {} /\ g_dict \in DOMAIN table
  BY <1>4 DEF Apart, Dictionaries, Roots
<1>8. Spelt(s.T, g_dict) = Spelt(table, g_dict) \cup OneWord(w)
  BY <1>1, <1>2, <1>6, <1>7, WordTells
<1>9. Dictionaries'
  BY InsertKeeps
<1>10. Spelled = Spelt(table, g_dict)
  <2>1. Tables(table) /\ Forest(table, Roots)
    BY DEF Dictionaries
  <2>2. SpelledOf(table, g_dict) = Spelt(table, g_dict)
    BY <1>7, <2>1, SpelledSpelt
  <2>3. QED
    BY <2>2, SpelledIs
<1>11. Spelled' = Spelt(s.T, g_dict)
  <2>1. Tables(table') /\ Forest(table', Roots') /\ g_dict' \in DOMAIN table'
    BY <1>4, <1>9 DEF Dictionaries
  <2>2. SpelledOf(table', g_dict') = Spelt(table', g_dict')
    BY <2>1, SpelledSpelt
  <2>3. QED
    BY <1>4, <2>2, SpelledPrimed
<1>12. QED
  BY <1>8, <1>10, <1>11

LEMMA OpenSeen ==
  ASSUME Dictionaries, NEW ws \in Lists, dict_open(ws)
  PROVE  IF \A w \in ToSet(ws) : IsWord(w) THEN Spelled' = ToSet(ws) \ {<<>>} ELSE Spelled' = Spelled
<1>1. PICK dict : dict = Min(Free(table))
  OBVIOUS
<1>2. PICK T : T = OpenTables(dict)
  OBVIOUS
<1>3. PICK s : s = opened(T, dict, ws)
  OBVIOUS
<1>4. ws \in Seq(Seq(Runes \cup {Bad}))
  BY CrabAssumption
<1>5. Room(ws)
  BY DEF dict_open
<1>6. PICK g : Needs(ws, Len(ws), g) /\ g[Len(ws)] \in Nat /\ Cardinality(Free(table)) > g[Len(ws)]
  BY <1>4, <1>5, RoomIs
<1>7. dict \in Free(table)
  <2>1. Cardinality(Free(table)) \in Nat /\ Cardinality(Free(table)) # 0
    BY <1>6, FreeCount
  <2>2. Free(table) # {} /\ Free(table) \in SUBSET Nat
    <3>1. Free(table) # {}
      BY <2>1, FreeCount
    <3>2. Free(table) \in SUBSET Nat
      BY CrabAssumption DEF Free
    <3>3. QED
      BY <3>1, <3>2
  <2>3. QED
    BY <1>1, <2>2, Least
<1>8. PICK R, O : R = Roots \cup {dict} /\ O = DOMAIN table
  OBVIOUS
<1>9. Apart(T, R, O, table) /\ dict \in R \ O /\ dict # 0 /\ Cardinality(Free(T)) = Cardinality(Free(table)) - 1
  BY <1>2, <1>7, <1>8, OpenBegins
<1>10. Cardinality(Free(T)) >= g[Len(ws)]
  <2>1. Cardinality(Free(table)) \in Nat
    BY FreeCount
  <2>2. QED
    BY <1>6, <1>9, <2>1
<1>11. Taught(s, T, dict, ws, Len(ws))
  BY <1>3, <1>4, <1>6, <1>9, <1>10, OpenedTells
<1>12. Spelt(T, dict) = {}
  <2>1. T[dict] = emptytable(1) /\ dict \in DOMAIN T
    BY <1>2 DEF OpenTables, table_new
  <2>2. Held(T[dict]) = {}
    BY <2>1, EmptyTable
  <2>3. QED
    BY <2>1, <2>2, NoneSpelt
<1>13. ToSet(ws) = {ws[j] : j \in 1 .. Len(ws)}
  BY <1>4, LenProperties DEF ToSet
<1>14. (s.ok <=> \A w \in ToSet(ws) : IsWord(w)) /\ (s.ok => Spelt(s.T, dict) = ToSet(ws) \ {<<>>})
  <2>1. (s.ok <=> \A j \in 1 .. Len(ws) : IsWord(ws[j]))
    BY <1>11 DEF Taught
  <2>2. s.ok => Spelt(s.T, dict) = Spelt(T, dict) \cup ({ws[j] : j \in 1 .. Len(ws)} \ {<<>>})
    BY <1>11 DEF Taught
  <2>3. (\A w \in ToSet(ws) : IsWord(w)) <=> \A j \in 1 .. Len(ws) : IsWord(ws[j])
    BY <1>13
  <2>4. QED
    BY <1>12, <1>13, <2>1, <2>2, <2>3
<1>15. IF s.ok THEN table' = s.T /\ g_dict' = dict /\ old' = old \cup ({g_dict} \ {0})
       ELSE table' = _dict_close(s.T, dict) /\ UNCHANGED <<g_dict, old>>
  BY <1>1, <1>2, <1>3, Zenon DEF dict_open, OpenTables
<1>16. Dictionaries'
  BY OpenKeeps
<1>17. CASE s.ok
  <2>1. table' = s.T /\ g_dict' = dict
    BY <1>15, <1>17
  <2>2. Tables(table') /\ Forest(table', Roots') /\ g_dict' \in DOMAIN table'
    BY <1>9, <1>16, <2>1 DEF Dictionaries
  <2>3. SpelledOf(table', g_dict') = Spelt(table', g_dict')
    BY <2>2, SpelledSpelt
  <2>4. Spelled' = Spelt(s.T, dict)
    BY <2>1, <2>3, SpelledPrimed
  <2>5. QED
    BY <1>14, <1>17, <2>4
<1>18. CASE ~ s.ok
  <2>1. table' = _dict_close(s.T, dict) /\ g_dict' = g_dict
    BY <1>15, <1>18
  <2>2. Growing(s, R, O, table)
    <3>1. PICK f : /\ opened(T, dict, ws) = f[Len(ws)]
                   /\ \A k \in 0 .. Len(ws) : Growing(f[k], R, O, table)
      BY <1>4, <1>6, <1>9, <1>10, OpenedGrows
    <3>2. Len(ws) \in 0 .. Len(ws)
      BY <1>4
    <3>3. QED
      BY <1>3, <3>1, <3>2
  <2>3. Apart(s.T, R, O, table) /\ O \subseteq DOMAIN s.T /\ \A id \in O : s.T[id] = table[id]
    BY <2>2 DEF Growing, Apart
  <2>4. TablesOf(s.T, dict) = DOMAIN s.T \ DOMAIN table
    BY <1>8, <1>9, <2>3, NewTables
  <2>5. DOMAIN s.T \ TablesOf(s.T, dict) = DOMAIN table
    BY <1>8, <2>3, <2>4
  <2>6. table' = [id \in DOMAIN table |-> s.T[id]]
    BY <2>1, <2>5 DEF _dict_close
  <2>7. table = [id \in DOMAIN table |-> table[id]]
    BY DEF Dictionaries, Tables
  <2>8. table' = table
    BY <1>8, <2>3, <2>6, <2>7
  <2>9. Spelled' = Spelled
    BY <2>1, <2>8, SpelledIs, SpelledPrimed
  <2>10. QED
    BY <1>14, <1>18, <2>9
<1>19. QED
  BY <1>17, <1>18

\* The words of the dictionary are those that were given to it: 'Implements', for any
\* characters, words, lists and number of tables. Words may be the beginning of others and come in
\* any order, a word with an element that is no character adds nothing, and a list
\* with such a word leaves the dictionary as it was (lua-crab.c:199-272).
THEOREM Refinement == Spec => Implements
<1>1. Init => WF!Init
  <2>1. SUFFICES ASSUME Init PROVE Spelled = {}
    BY DEF WF!Init
  <2>2. QED
    BY <2>1 DEF Init, Spelled
<1>2. Dictionaries /\ [Next]_vars => [WF!Next]_Spelled
  <2>1. SUFFICES ASSUME Dictionaries, [Next]_vars PROVE [WF!Next]_Spelled
    OBVIOUS
  <2>2. ASSUME NEW ws \in Lists, dict_open(ws) PROVE [WF!Next]_Spelled
    <3>1. IF \A w \in ToSet(ws) : IsWord(w) THEN Spelled' = ToSet(ws) \ {<<>>} ELSE Spelled' = Spelled
      BY <2>1, <2>2, OpenSeen
    <3>2. CASE \A w \in ToSet(ws) : IsWord(w)
      <4>1. ToSet(ws) \in {ToSet(l) : l \in {m \in Lists : \A w \in ToSet(m) : IsWord(w)}}
        BY <3>2
      <4>2. WF!Open(ToSet(ws))
        BY <3>1, <3>2 DEF WF!Open
      <4>3. QED
        BY <4>1, <4>2 DEF WF!Next
    <3>3. CASE ~ \A w \in ToSet(ws) : IsWord(w)
      BY <3>1, <3>3
    <3>4. QED
      BY <3>2, <3>3
  <2>3. ASSUME NEW w \in Words, dict_insert(w) PROVE [WF!Next]_Spelled
    <3>1. Spelled' = Spelled \cup OneWord(w)
      BY <2>1, <2>3, InsertSeen
    <3>2. CASE IsWord(w)
      <4>1. WF!Insert(w)
        BY <3>1, <3>2 DEF WF!Insert, OneWord
      <4>2. QED
        BY <3>2, <4>1 DEF WF!Next
    <3>3. CASE ~ IsWord(w)
      BY <3>1, <3>3 DEF OneWord
    <3>4. QED
      BY <3>2, <3>3
  <2>4. CASE UNCHANGED vars
    <3>1. table' = table /\ g_dict' = g_dict
      BY <2>4 DEF vars
    <3>2. Spelled' = Spelled
      BY <3>1, SpelledIs, SpelledPrimed
    <3>3. QED
      BY <3>2
  <2>5. QED
    BY <2>1, <2>2, <2>3, <2>4 DEF Next
<1>3. QED
  BY <1>1, <1>2, DictionariesInductive, PTL DEF Spec, Implements, WF!Spec

-----------------------------------------------------------------------------
(* The longest word at a place of a message                                  *)

\* e is the last character of the longest word of W in msg at place j, 0 if there is none.
Ending(W, msg, j, e) ==
  /\ e \in Nat
  /\ e = 0 \/ \E w \in W : Occurs(w, msg, j) /\ e = j + Len(w) - 1
  /\ \A w \in W : Occurs(w, msg, j) => j + Len(w) - 1 <= e

LEMMA OccursOne ==
  ASSUME NEW msg \in Seq(Nat), NEW j \in Nat \ {0}, NEW k
  PROVE  Occurs(<<k>>, msg, j) <=> j <= Len(msg) /\ msg[j] = k
<1>1. PICK w : w = <<k>>
  OBVIOUS
<1>2. Len(w) = 1 /\ w[1] = k /\ 1 .. 1 = {1} /\ j + 1 - 1 = j
  BY <1>1
<1>3. Occurs(w, msg, j) <=> j <= Len(msg) /\ msg[j] = k
  BY <1>2 DEF Occurs
<1>4. QED
  BY <1>1, <1>3

LEMMA OccursMore ==
  ASSUME NEW msg \in Seq(Nat), NEW j \in Nat \ {0}, NEW k \in Nat, NEW v \in Seq(Nat), NEW w, w = <<k>> \o v
  PROVE  Occurs(w, msg, j) <=> j <= Len(msg) /\ msg[j] = k /\ Occurs(v, msg, j + 1)
<1>1. PICK n : n = Len(v)
  OBVIOUS
<1>2. n \in Nat /\ Len(w) = n + 1 /\ w[1] = k /\ \A i \in 1 .. n : w[i + 1] = v[i]
  BY <1>1
<1>3. Len(msg) \in Nat
  OBVIOUS
<1>4. ASSUME Occurs(w, msg, j) PROVE j <= Len(msg) /\ msg[j] = k /\ Occurs(v, msg, j + 1)
  <2>1. j + (n + 1) - 1 <= Len(msg) /\ \A i \in 1 .. n + 1 : msg[j + i - 1] = w[i]
    BY <1>2, <1>4 DEF Occurs
  <2>2. j <= Len(msg)
    BY <1>2, <1>3, <2>1
  <2>3. 1 \in 1 .. n + 1 /\ j + 1 - 1 = j
    BY <1>2
  <2>4. msg[j] = k
    BY <1>2, <2>1, <2>3
  <2>5. ASSUME NEW i \in 1 .. n PROVE msg[(j + 1) + i - 1] = v[i]
    <3>1. i + 1 \in 1 .. n + 1 /\ j + (i + 1) - 1 = (j + 1) + i - 1
      BY <1>2
    <3>2. msg[j + (i + 1) - 1] = w[i + 1]
      BY <2>1, <3>1
    <3>3. QED
      BY <1>2, <3>1, <3>2
  <2>6. (j + 1) + n - 1 <= Len(msg)
    BY <1>2, <1>3, <2>1
  <2>7. Occurs(v, msg, j + 1)
    BY <1>1, <2>5, <2>6 DEF Occurs
  <2>8. QED
    BY <2>2, <2>4, <2>7
<1>5. ASSUME j <= Len(msg), msg[j] = k, Occurs(v, msg, j + 1) PROVE Occurs(w, msg, j)
  <2>1. (j + 1) + n - 1 <= Len(msg) /\ \A i \in 1 .. n : msg[(j + 1) + i - 1] = v[i]
    BY <1>1, <1>5 DEF Occurs
  <2>2. ASSUME NEW i \in 1 .. n + 1 PROVE msg[j + i - 1] = w[i]
    <3>1. CASE i = 1
      <4>1. j + i - 1 = j
        BY <3>1
      <4>2. QED
        BY <1>2, <1>5, <3>1, <4>1
    <3>2. CASE i # 1
      <4>1. PICK l : l = i - 1
        OBVIOUS
      <4>2. l \in 1 .. n /\ i = l + 1 /\ (j + 1) + l - 1 = j + i - 1
        BY <1>2, <3>2, <4>1
      <4>3. msg[(j + 1) + l - 1] = v[l] /\ w[l + 1] = v[l]
        BY <1>2, <2>1, <4>2
      <4>4. QED
        BY <4>2, <4>3
    <3>3. QED
      BY <3>1, <3>2
  <2>3. j + (n + 1) - 1 <= Len(msg)
    BY <1>2, <1>3, <2>1
  <2>4. QED
    BY <1>2, <2>2, <2>3 DEF Occurs
<1>6. QED
  BY <1>4, <1>5

\* The words are those that entry h begins.
Tells(T, msg, j, h, w) ==
  \/ h[2] = "o" /\ w = <<h[1]>>
  \/ h[3] # 0 /\ \E v \in Spelt(T, h[3]) : Occurs(v, msg, j + 1) /\ w = <<h[1]>> \o v

LEMMA WordsAt ==
  ASSUME NEW T, NEW R, Tables(T), Forest(T, R), NEW id \in DOMAIN T,
         NEW msg \in Seq(Nat), NEW j \in Nat \ {0}, NEW w
  PROVE  w \in Spelt(T, id) /\ Occurs(w, msg, j)
         <=> j <= Len(msg) /\ \E h \in Held(T[id]) : h[1] = msg[j] /\ Tells(T, msg, j, h, w)
<1>1. PICK b : b = [x \in DOMAIN T |-> Spelt(T, x)]
  OBVIOUS
<1>2. w \in Spelt(T, id) <=> \E h \in Held(T[id]) : Gives(h, b, w)
  <2>1. Following(T, b)
    BY <1>1, SpeltFollows
  <2>2. b[id] = Follow(T, b, id) /\ b[id] = Spelt(T, id)
    BY <1>1, <2>1 DEF Following
  <2>3. QED
    BY <2>2, FollowIs
<1>3. ASSUME NEW h \in Held(T[id])
      PROVE  Gives(h, b, w) /\ Occurs(w, msg, j) <=> j <= Len(msg) /\ h[1] = msg[j] /\ Tells(T, msg, j, h, w)
  <2>1. h[1] \in Nat /\ (h[3] # 0 => h[3] \in DOMAIN T)
    BY HeldTypes
  <2>2. PICK k, y : k = h[1] /\ y = h[3]
    OBVIOUS
  <2>3. y # 0 => b[y] = Spelt(T, y)
    BY <1>1, <2>1, <2>2
  <2>4. w = <<k>> => (Occurs(w, msg, j) <=> j <= Len(msg) /\ k = msg[j])
    BY OccursOne
  <2>5. ASSUME NEW v \in Spelt(T, y), w = <<k>> \o v
        PROVE  Occurs(w, msg, j) <=> j <= Len(msg) /\ k = msg[j] /\ Occurs(v, msg, j + 1)
    <3>1. v \in Seq(Nat)
      BY DEF Spelt
    <3>2. Occurs(w, msg, j) <=> j <= Len(msg) /\ msg[j] = k /\ Occurs(v, msg, j + 1)
      <4>1. k \in Nat
        BY <2>1, <2>2
      <4>2. QED
        BY <2>5, <3>1, <4>1, OccursMore
    <3>3. QED
      BY <3>2
  <2>6. Gives(h, b, w) <=> \/ h[2] = "o" /\ w = <<k>>
                           \/ y # 0 /\ \E v \in Spelt(T, y) : w = <<k>> \o v
    BY <2>2, <2>3 DEF Gives
  <2>7. Tells(T, msg, j, h, w) <=>
          \/ h[2] = "o" /\ w = <<k>>
          \/ y # 0 /\ \E v \in Spelt(T, y) : Occurs(v, msg, j + 1) /\ w = <<k>> \o v
    BY <2>2 DEF Tells
  <2>8. QED
    BY <2>2, <2>4, <2>5, <2>6, <2>7, Zenon
<1>4. QED
  BY <1>2, <1>3

\* Words have characters.
Worded(W) == \A w \in W : Len(w) \in Nat \ {0}

LEMMA SpeltWorded ==
  ASSUME NEW T, NEW d
  PROVE  Worded(Spelt(T, d))
BY DEF Worded, Spelt, Spells

LEMMA OneEnding ==
  ASSUME NEW W, Worded(W), NEW msg, NEW j \in Nat \ {0}, NEW a, NEW b, Ending(W, msg, j, a), Ending(W, msg, j, b)
  PROVE  a = b
<1>1. ASSUME NEW x, NEW y, Ending(W, msg, j, x), Ending(W, msg, j, y) PROVE x <= y
  <2>1. CASE x = 0
    BY <1>1, <2>1 DEF Ending
  <2>2. CASE x # 0
    <3>1. PICK w \in W : Occurs(w, msg, j) /\ x = j + Len(w) - 1
      BY <1>1, <2>2 DEF Ending
    <3>2. QED
      BY <1>1, <3>1 DEF Ending
  <2>3. QED
    BY <2>1, <2>2
<1>2. a <= b /\ b <= a
  BY <1>1
<1>3. a \in Nat /\ b \in Nat
  BY DEF Ending
<1>4. QED
  BY <1>2, <1>3

LEMMA SomeEnding ==
  ASSUME NEW W, Worded(W), NEW msg \in Seq(Nat), NEW j \in Nat \ {0}
  PROVE  \E e : Ending(W, msg, j, e)
<1>1. PICK R : R = {0} \cup {j + Len(w) - 1 : w \in {v \in W : Occurs(v, msg, j)}}
  OBVIOUS
<1>2. PICK n : n = Len(msg)
  OBVIOUS
<1>3. n \in Nat /\ n \in Int
  BY <1>2
<1>4. ASSUME NEW w \in W, Occurs(w, msg, j) PROVE j + Len(w) - 1 \in 0 .. n
  <2>1. j + Len(w) - 1 <= n /\ Len(w) \in Nat \ {0}
    BY <1>2, <1>4 DEF Occurs, Worded
  <2>2. QED
    BY <1>3, <2>1
<1>5. R \in SUBSET (-1 .. n) /\ R # {} /\ R \subseteq Nat
  <2>1. \A x \in R : x \in 0 .. n
    BY <1>1, <1>3, <1>4
  <2>2. \A x \in R : x \in -1 .. n /\ x \in Nat
    BY <1>3, <2>1
  <2>3. 0 \in R
    BY <1>1
  <2>4. QED
    BY <2>2, <2>3
<1>6. PICK e : e = Max(R)
  OBVIOUS
<1>7. e \in R /\ \A x \in R : e >= x
  BY <1>3, <1>5, <1>6, Greatest
<1>8. e = 0 \/ \E w \in W : Occurs(w, msg, j) /\ e = j + Len(w) - 1
  BY <1>1, <1>7
<1>9. ASSUME NEW w \in W, Occurs(w, msg, j) PROVE j + Len(w) - 1 <= e
  <2>1. j + Len(w) - 1 \in R
    BY <1>1, <1>9
  <2>2. j + Len(w) - 1 \in Nat /\ e \in Nat
    BY <1>5, <1>7, <2>1
  <2>3. QED
    BY <1>7, <2>1, <2>2
<1>10. e \in Nat
  BY <1>5, <1>7
<1>11. QED
  BY <1>8, <1>9, <1>10 DEF Ending

\* What Match returns in table id at place j; g is what it returns at the next place.
MatchAt(T, msg, j, id, g) ==
  IF j > Len(msg) THEN 0
  ELSE LET n == table_get(T[id], msg[j])
           node == T[id].node[n]
           longer == IF node.value = 0 THEN 0 ELSE g[node.value]
       IN IF n = -1 THEN 0
          ELSE IF longer > 0 THEN longer
          ELSE IF node.flag = "o" THEN j ELSE 0
Matching(T, msg, a) ==
  a = [j \in 1 .. Len(msg) + 1 |-> [id \in DOMAIN T |-> MatchAt(T, msg, j, id, a[j + 1])]]

\* The words of W at j are <<k>> and those that go on with one of V.
Begins(W, msg, j, V, k, o, y) ==
  \A w : w \in W /\ Occurs(w, msg, j) <=>
           \/ o /\ w = <<k>>
           \/ y # 0 /\ \E v \in V : Occurs(v, msg, j + 1) /\ w = <<k>> \o v
NextEnds(V, msg, j, y, l) == IF y = 0 THEN l = 0 ELSE Ending(V, msg, j + 1, l)
EndOf(l, o, j) == IF l > 0 THEN l ELSE IF o THEN j ELSE 0

\* They end where those do, or with <<k>>.
LEMMA EndsHere ==
  ASSUME NEW W, NEW msg \in Seq(Nat), NEW j \in Nat \ {0}, j <= Len(msg), NEW V, Worded(V), V \subseteq Seq(Nat),
         NEW k, NEW o \in BOOLEAN, NEW y,
         Begins(W, msg, j, V, k, o, y), NEW l, NextEnds(V, msg, j, y, l), NEW e, e = EndOf(l, o, j)
  PROVE  Ending(W, msg, j, e)
<1>a. \A w : w \in W /\ Occurs(w, msg, j) <=>
               \/ o /\ w = <<k>>
               \/ y # 0 /\ \E v \in V : Occurs(v, msg, j + 1) /\ w = <<k>> \o v
  BY DEF Begins
<1>b. (IF y = 0 THEN l = 0 ELSE Ending(V, msg, j + 1, l)) /\ e = IF l > 0 THEN l ELSE IF o THEN j ELSE 0
  BY DEF NextEnds, EndOf
<1>1. \A v \in V : Len(<<k>> \o v) = Len(v) + 1 /\ Len(v) \in Nat \ {0}
  BY DEF Worded
<1>2. Len(<<k>>) = 1
  OBVIOUS
<1>3. l \in Nat
  BY <1>b DEF Ending
<1>4. e \in Nat /\ l <= e
  BY <1>b, <1>3
<1>5. e = 0 \/ \E w \in W : Occurs(w, msg, j) /\ e = j + Len(w) - 1
  <2>1. CASE l > 0
    <3>1. y # 0 /\ e = l
      BY <1>b, <2>1
    <3>2. PICK v \in V : Occurs(v, msg, j + 1) /\ l = (j + 1) + Len(v) - 1
      BY <1>b, <2>1, <3>1 DEF Ending
    <3>3. PICK w : w = <<k>> \o v
      OBVIOUS
    <3>4. w \in W /\ Occurs(w, msg, j)
      BY <1>a, <3>1, <3>2, <3>3
    <3>5. e = j + Len(w) - 1
      BY <1>1, <3>1, <3>2, <3>3
    <3>6. QED
      BY <3>4, <3>5
  <2>2. CASE ~ (l > 0) /\ o
    <3>1. PICK w : w = <<k>>
      OBVIOUS
    <3>2. w \in W /\ Occurs(w, msg, j)
      BY <1>a, <2>2, <3>1
    <3>3. e = j + Len(w) - 1
      BY <1>b, <1>2, <2>2, <3>1
    <3>4. QED
      BY <3>2, <3>3
  <2>3. CASE ~ (l > 0) /\ ~ o
    BY <1>b, <2>3
  <2>4. QED
    BY <2>1, <2>2, <2>3
<1>6. ASSUME NEW w \in W, Occurs(w, msg, j) PROVE j + Len(w) - 1 <= e
  <2>1. CASE o /\ w = <<k>>
    <3>1. e >= j
      <4>1. CASE l > 0
        <5>1. y # 0 /\ e = l
          BY <1>b, <4>1
        <5>2. PICK v \in V : l = (j + 1) + Len(v) - 1
          BY <1>b, <4>1, <5>1 DEF Ending
        <5>3. QED
          BY <1>1, <5>1, <5>2
      <4>2. CASE ~ (l > 0)
        BY <1>b, <2>1, <4>2
      <4>3. QED
        BY <4>1, <4>2
    <3>2. Len(w) = 1
      BY <1>2, <2>1, Zenon
    <3>3. QED
      BY <1>4, <3>1, <3>2
  <2>2. CASE y # 0 /\ \E v \in V : Occurs(v, msg, j + 1) /\ w = <<k>> \o v
    <3>1. PICK v \in V : Occurs(v, msg, j + 1) /\ w = <<k>> \o v
      BY <2>2
    <3>2. (j + 1) + Len(v) - 1 <= l
      BY <1>b, <2>2, <3>1 DEF Ending
    <3>3. Len(w) = Len(v) + 1 /\ Len(v) \in Nat
      BY <1>1, <3>1
    <3>4. QED
      BY <1>3, <1>4, <3>2, <3>3
  <2>3. QED
    BY <1>a, <1>6, <2>1, <2>2
<1>7. QED
  BY <1>4, <1>5, <1>6 DEF Ending

LEMMA MatchStep ==
  ASSUME NEW T, NEW R, Tables(T), Forest(T, R), NEW id \in DOMAIN T, NEW msg \in Seq(Nat), NEW j \in Nat \ {0},
         NEW g, j <= Len(msg) => \A y \in DOMAIN T : Ending(Spelt(T, y), msg, j + 1, g[y]),
         NEW e, e = MatchAt(T, msg, j, id, g)
  PROVE  Ending(Spelt(T, id), msg, j, e)
<1>1. PICK W, t, key : W = Spelt(T, id) /\ t = T[id] /\ key = msg[j]
  OBVIOUS
<1>2. Len(msg) \in Nat /\ Table(t)
  BY <1>1, TableNames
<1>3. \A w : w \in W /\ Occurs(w, msg, j)
             <=> j <= Len(msg) /\ \E h \in Held(t) : h[1] = key /\ Tells(T, msg, j, h, w)
  BY <1>1, WordsAt
<1>4. CASE j > Len(msg)
  <2>1. e = 0
    BY <1>4 DEF MatchAt
  <2>2. \A w \in W : ~ Occurs(w, msg, j)
    BY <1>2, <1>3, <1>4
  <2>3. QED
    BY <1>1, <2>1, <2>2 DEF Ending
<1>5. CASE j <= Len(msg)
  <2>1. PICK n : n = table_get(t, key)
    OBVIOUS
  <2>2. key \in Nat
    BY <1>1, <1>2, <1>5
  <2>3. \/ n \in UsedIn(t) /\ t.node[n].key = key
        \/ n = -1 /\ \A i \in UsedIn(t) : t.node[i].key # key
    BY <1>2, <2>1, <2>2, GetIs
  <2>4. PICK f, y, l : f = t.node[n].flag /\ y = t.node[n].value /\ l = IF y = 0 THEN 0 ELSE g[y]
    OBVIOUS
  <2>5. e = IF n = -1 THEN 0 ELSE IF l > 0 THEN l ELSE IF f = "o" THEN j ELSE 0
    <3>1. ~ (j > Len(msg))
      BY <1>2, <1>5
    <3>2. e = LET node == T[id].node[table_get(T[id], msg[j])]
                  longer == IF node.value = 0 THEN 0 ELSE g[node.value]
              IN IF table_get(T[id], msg[j]) = -1 THEN 0
                 ELSE IF longer > 0 THEN longer
                 ELSE IF node.flag = "o" THEN j ELSE 0
      BY <3>1 DEF MatchAt
    <3>3. QED
      BY <1>1, <2>1, <2>4, <3>2, Zenon
  <2>6. CASE n = -1 /\ \A i \in UsedIn(t) : t.node[i].key # key
    <3>1. \A h \in Held(t) : h[1] # key
      BY <1>2, <2>6, KeysHeld
    <3>2. \A w \in W : ~ Occurs(w, msg, j)
      BY <1>3, <3>1
    <3>3. e = 0
      BY <2>5, <2>6
    <3>4. QED
      BY <1>1, <3>2, <3>3 DEF Ending
  <2>7. CASE n \in UsedIn(t) /\ t.node[n].key = key
    <3>1. n # -1
      BY <1>2, <2>7, UsedNode, TableDomain
    <3>2. PICK h : h = Label(t.node[n])
      OBVIOUS
    <3>3. h \in Held(t) /\ h[1] = key /\ h[2] = f /\ h[3] = y
      BY <2>4, <2>7, <3>2 DEF Held, Label
    <3>4. \A a \in Held(t) : a[1] = key => a = h
      BY <1>2, <3>3, HeldKeys
    <3>5. \A w : w \in W /\ Occurs(w, msg, j) <=> Tells(T, msg, j, h, w)
      BY <1>3, <1>5, <3>3, <3>4
    <3>6. PICK V, o : V = Spelt(T, y) /\ o = (f = "o")
      OBVIOUS
    <3>7. Begins(W, msg, j, V, key, o, y)
      BY <3>3, <3>5, <3>6 DEF Tells, Begins
    <3>8. Worded(V) /\ V \subseteq Seq(Nat) /\ o \in BOOLEAN
      BY <3>6, SpeltWorded DEF Spelt
    <3>9. NextEnds(V, msg, j, y, l)
      <4>1. CASE y = 0
        BY <2>4, <4>1 DEF NextEnds
      <4>2. CASE y # 0
        <5>1. y \in DOMAIN T
          BY <1>1, <3>3, <4>2, HeldTypes
        <5>2. QED
          BY <1>5, <2>4, <3>6, <4>2, <5>1 DEF NextEnds
      <4>3. QED
        BY <4>1, <4>2
    <3>10. e = EndOf(l, o, j)
      BY <2>5, <3>1, <3>6 DEF EndOf
    <3>11. Ending(W, msg, j, e)
      BY <1>5, <3>7, <3>8, <3>9, <3>10, EndsHere
    <3>12. QED
      BY <1>1, <3>11
  <2>8. QED
    BY <2>3, <2>6, <2>7
<1>6. QED
  BY <1>2, <1>4, <1>5

\* Match finds the longest word.
LEMMA MatchingIs ==
  ASSUME NEW T, NEW R, Tables(T), Forest(T, R), NEW msg \in Seq(Nat), NEW a, Matching(T, msg, a)
  PROVE  \A j \in 1 .. Len(msg) + 1 : \A id \in DOMAIN T : Ending(Spelt(T, id), msg, j, a[j][id])
<1>1. PICK n : n = Len(msg)
  OBVIOUS
<1>2. n \in Nat
  BY <1>1
<1>3. \A j \in 1 .. n + 1 : \A id \in DOMAIN T : a[j][id] = MatchAt(T, msg, j, id, a[j + 1])
  <2>1. PICK b : b = [j \in 1 .. n + 1 |-> [id \in DOMAIN T |-> MatchAt(T, msg, j, id, a[j + 1])]]
    OBVIOUS
  <2>2. a = b
    BY <1>1, <2>1 DEF Matching
  <2>3. ASSUME NEW j \in 1 .. n + 1, NEW id \in DOMAIN T PROVE a[j][id] = MatchAt(T, msg, j, id, a[j + 1])
    <3>1. b[j] = [x \in DOMAIN T |-> MatchAt(T, msg, j, x, a[j + 1])]
      BY <2>1, Zenon
    <3>2. b[j][id] = MatchAt(T, msg, j, id, a[j + 1])
      BY <3>1, Zenon
    <3>3. QED
      BY <2>2, <3>2, Zenon
  <2>4. QED
    BY <2>3
<1> DEFINE Right(j) == \A id \in DOMAIN T : Ending(Spelt(T, id), msg, j, a[j][id])
           S == {m \in Nat : m <= n => Right(n + 1 - m)}
<1>4. ASSUME NEW j \in 1 .. n + 1, j <= n => Right(j + 1) PROVE Right(j)
  <2>1. SUFFICES ASSUME NEW id \in DOMAIN T PROVE Ending(Spelt(T, id), msg, j, a[j][id])
    OBVIOUS
  <2>2. PICK g, e : g = a[j + 1] /\ e = a[j][id]
    OBVIOUS
  <2>3. e = MatchAt(T, msg, j, id, g)
    BY <1>3, <2>2
  <2>4. j <= Len(msg) => \A y \in DOMAIN T : Ending(Spelt(T, y), msg, j + 1, g[y])
    BY <1>1, <1>4, <2>2
  <2>5. j \in Nat \ {0}
    OBVIOUS
  <2>6. Ending(Spelt(T, id), msg, j, e)
    BY <2>3, <2>4, <2>5, MatchStep
  <2>7. QED
    BY <2>2, <2>6
<1>5. 0 \in S
  <2>1. n + 1 - 0 = n + 1 /\ n + 1 \in 1 .. n + 1 /\ ~ (n + 1 <= n)
    BY <1>2
  <2>2. Right(n + 1)
    BY <1>4, <2>1
  <2>3. QED
    BY <2>1, <2>2
<1>6. ASSUME NEW m \in Nat, m \in S PROVE m + 1 \in S
  <2>1. SUFFICES ASSUME m + 1 <= n PROVE Right(n + 1 - (m + 1))
    OBVIOUS
  <2>2. PICK j : j = n + 1 - (m + 1)
    OBVIOUS
  <2>3. j \in 1 .. n + 1 /\ j + 1 = n + 1 - m /\ m <= n
    BY <1>2, <2>1, <2>2
  <2>4. Right(j + 1)
    BY <1>6, <2>3
  <2>5. Right(j)
    BY <1>4, <2>3, <2>4
  <2>6. QED
    BY <2>2, <2>5
<1>7. ASSUME NEW j \in 1 .. n + 1 PROVE Right(j)
  <2>1. PICK m : m = n + 1 - j
    OBVIOUS
  <2>2. m \in Nat /\ m <= n /\ n + 1 - m = j
    BY <1>2, <2>1
  <2>3. m \in S
    <3> HIDE DEF S
    <3>1. Nat \subseteq S
      BY <1>5, <1>6, AllNumbers
    <3>2. QED
      BY <2>2, <3>1
  <2>4. QED
    BY <2>2, <2>3
<1>8. QED
  BY <1>1, <1>7

LEMMA MatchingExists ==
  ASSUME NEW T, NEW R, Tables(T), Forest(T, R), NEW msg \in Seq(Nat)
  PROVE  \E a : Matching(T, msg, a)
<1>1. PICK n : n = Len(msg)
  OBVIOUS
<1>2. n \in Nat
  BY <1>1
<1> DEFINE E(j, id) == CHOOSE e : Ending(Spelt(T, id), msg, j, e)
<1>3. ASSUME NEW j \in Nat \ {0}, NEW id \in DOMAIN T PROVE Ending(Spelt(T, id), msg, j, E(j, id))
  <2>1. \E e : Ending(Spelt(T, id), msg, j, e)
    BY SpeltWorded, SomeEnding
  <2>2. QED
    BY <2>1
<1> HIDE DEF E
<1>4. PICK a : a = [j \in 1 .. n + 1 |-> [id \in DOMAIN T |-> E(j, id)]]
  OBVIOUS
<1>5. \A j \in 1 .. n + 1 : \A id \in DOMAIN T : a[j][id] = E(j, id)
  <2>1. ASSUME NEW j \in 1 .. n + 1, NEW id \in DOMAIN T PROVE a[j][id] = E(j, id)
    <3>1. a[j] = [x \in DOMAIN T |-> E(j, x)]
      BY <1>4, Zenon
    <3>2. QED
      BY <3>1, Zenon
  <2>2. QED
    BY <2>1
<1>6. ASSUME NEW j \in 1 .. n + 1, NEW id \in DOMAIN T PROVE E(j, id) = MatchAt(T, msg, j, id, a[j + 1])
  <2>1. PICK g, e : g = a[j + 1] /\ e = MatchAt(T, msg, j, id, g)
    OBVIOUS
  <2>2. j \in Nat \ {0}
    OBVIOUS
  <2>3. ASSUME j <= n, NEW y \in DOMAIN T PROVE Ending(Spelt(T, y), msg, j + 1, g[y])
    <3>1. j + 1 \in 1 .. n + 1 /\ j + 1 \in Nat \ {0}
      BY <1>2, <2>3
    <3>2. g[y] = E(j + 1, y)
      BY <1>5, <2>1, <3>1
    <3>3. QED
      BY <1>3, <3>1, <3>2
  <2>4. Ending(Spelt(T, id), msg, j, e)
    BY <1>1, <2>1, <2>2, <2>3, MatchStep
  <2>5. Ending(Spelt(T, id), msg, j, E(j, id))
    BY <1>3, <2>2
  <2>6. e = E(j, id)
    BY <2>2, <2>4, <2>5, SpeltWorded, OneEnding
  <2>7. QED
    BY <2>1, <2>6
<1>7. a = [j \in 1 .. n + 1 |-> [id \in DOMAIN T |-> MatchAt(T, msg, j, id, a[j + 1])]]
  <2> DEFINE b == [j \in 1 .. n + 1 |-> [id \in DOMAIN T |-> MatchAt(T, msg, j, id, a[j + 1])]]
  <2>1. ASSUME NEW j \in 1 .. n + 1
        PROVE  [id \in DOMAIN T |-> E(j, id)] = [id \in DOMAIN T |-> MatchAt(T, msg, j, id, a[j + 1])]
    BY <1>6
  <2>2. [j \in 1 .. n + 1 |-> [id \in DOMAIN T |-> E(j, id)]] = b
    BY <2>1
  <2>3. QED
    BY <1>4, <2>2
<1>8. QED
  BY <1>1, <1>7 DEF Matching

-----------------------------------------------------------------------------
(* The filter                                                                *)

LEMMA MatchIs ==
  ASSUME Dictionaries, g_dict # 0, NEW msg \in Seq(Nat), NEW i \in 1 .. Len(msg) + 1
  PROVE  Ending(Spelled, msg, i, Match(msg, i))
<1>1. PICK a : a = CHOOSE b : Matching(table, msg, b)
  OBVIOUS
<1>2. Match(msg, i) = a[i][g_dict]
  BY <1>1 DEF Match, Matching, MatchAt
<1>3. Tables(table) /\ \E R : Forest(table, R)
  BY DEF Dictionaries
<1>4. PICK R : Forest(table, R)
  BY <1>3
<1>5. Matching(table, msg, a)
  <2>1. \E b : Matching(table, msg, b)
    BY <1>3, <1>4, MatchingExists
  <2>2. QED
    BY <1>1, <2>1
<1>6. \A j \in 1 .. Len(msg) + 1 : \A id \in DOMAIN table : Ending(Spelt(table, id), msg, j, a[j][id])
  BY <1>3, <1>4, <1>5, MatchingIs
<1>7. g_dict \in DOMAIN table
  BY DEF Dictionaries
<1>8. Ending(Spelt(table, g_dict), msg, i, a[i][g_dict])
  BY <1>6, <1>7
<1>9. Spelled = Spelt(table, g_dict)
  <2>1. SpelledOf(table, g_dict) = Spelt(table, g_dict)
    BY <1>3, <1>4, <1>7, SpelledSpelt
  <2>2. QED
    BY <2>1, SpelledIs
<1>10. QED
  BY <1>2, <1>8, <1>9, Zenon

LEMMA LongestIs ==
  ASSUME NEW W, Worded(W), NEW msg \in Seq(Nat), NEW i \in Nat \ {0}, NEW e, Ending(W, msg, i, e)
  PROVE  /\ Longest(W, msg, i) = IF e = 0 THEN 0 ELSE e - i + 1
         /\ e = 0 \/ e \in i .. Len(msg)
<1>1. PICK X : X = Lengths(W, msg, i)
  OBVIOUS
<1>2. PICK n : n = IF e = 0 THEN 0 ELSE e - i + 1
  OBVIOUS
<1>3. X = {0} \cup {Len(w) : w \in {v \in W : Occurs(v, msg, i)}}
  BY <1>1 DEF Lengths
<1>4. e = 0 \/ e \in i .. Len(msg)
  <2>1. CASE e # 0
    <3>1. PICK w \in W : Occurs(w, msg, i) /\ e = i + Len(w) - 1
      BY <2>1 DEF Ending
    <3>2. Len(w) \in Nat \ {0} /\ i + Len(w) - 1 <= Len(msg)
      BY <3>1 DEF Worded, Occurs
    <3>3. QED
      BY <3>1, <3>2
  <2>2. QED
    BY <2>1
<1>5. n \in X
  <2>1. CASE e = 0
    BY <1>2, <1>3, <2>1
  <2>2. CASE e # 0
    <3>1. PICK w \in W : Occurs(w, msg, i) /\ e = i + Len(w) - 1
      BY <2>2 DEF Ending
    <3>2. Len(w) \in Nat \ {0}
      BY DEF Worded
    <3>3. n = Len(w)
      BY <1>2, <2>2, <3>1, <3>2
    <3>4. QED
      BY <1>3, <3>1, <3>3
  <2>3. QED
    BY <2>1, <2>2
<1>6. n \in Nat
  BY <1>2, <1>4 DEF Ending
<1>7. ASSUME NEW m \in X PROVE m \in Nat /\ m <= n
  <2>1. CASE m = 0
    BY <1>6, <2>1
  <2>2. CASE m # 0
    <3>1. PICK w \in W : Occurs(w, msg, i) /\ m = Len(w)
      BY <1>3, <1>7, <2>2
    <3>2. Len(w) \in Nat \ {0}
      BY DEF Worded
    <3>3. i + Len(w) - 1 <= e /\ e \in Nat
      BY <3>1 DEF Ending
    <3>4. QED
      BY <1>2, <3>1, <3>2, <3>3
  <2>3. QED
    BY <2>1, <2>2
<1>8. Longest(W, msg, i) = CHOOSE k \in X : \A m \in X : m <= k
  BY <1>1 DEF Longest
<1>9. (CHOOSE k \in X : \A m \in X : m <= k) = n
  <2>1. \E k \in X : \A m \in X : m <= k
    BY <1>5, <1>7
  <2>2. PICK k : k = CHOOSE x \in X : \A m \in X : m <= x
    OBVIOUS
  <2>3. k \in X /\ \A m \in X : m <= k
    BY <2>1, <2>2
  <2>4. k <= n /\ n <= k /\ k \in Nat
    BY <1>5, <1>7, <2>3
  <2>5. QED
    BY <1>6, <2>2, <2>4
<1>10. QED
  BY <1>2, <1>4, <1>8, <1>9, Zenon

-----------------------------------------------------------------------------
(* The places searched                                                       *)

\* e[i] is the last character of the longest word at place i, 0 if there is none.
EndsOf(n, e) == n \in Nat /\ \A i \in 1 .. n : e[i] = 0 \/ e[i] \in i .. n
After(e, i) == IF e[i] = 0 THEN i + 1 ELSE e[i] + 1
Onward(n, e, S) == \A i \in S : i <= n => After(e, i) \in S

\* The places looked at from place i on.
PlacesFrom(n, e, i) ==
  {j \in 1 .. n : \A S \in SUBSET (1 .. n + 1) : i \in S /\ Onward(n, e, S) => j \in S}
\* The characters of the words there.
Spans(e, P) == {k \in Nat : \E i \in P : i <= k /\ k <= e[i]}

LEMMA AfterIs ==
  ASSUME NEW n, NEW e, EndsOf(n, e), NEW i \in 1 .. n
  PROVE  /\ After(e, i) \in 1 .. n + 1 /\ After(e, i) > i
         /\ n \in Nat /\ n + 1 \in Nat /\ e[i] \in Nat /\ (e[i] > 0 => e[i] >= i)
BY DEF EndsOf, After

LEMMA PlacesNext ==
  ASSUME NEW n, NEW e, EndsOf(n, e), NEW i \in 1 .. n
  PROVE  PlacesFrom(n, e, i) = {i} \cup PlacesFrom(n, e, After(e, i))
<1>1. PICK x, P, Q : x = After(e, i) /\ P = PlacesFrom(n, e, i) /\ Q = PlacesFrom(n, e, x)
  OBVIOUS
<1>2. x \in 1 .. n + 1 /\ x > i /\ n \in Nat
  BY <1>1, AfterIs
<1>3. ASSUME NEW j \in P, j # i PROVE j \in Q
  <2>1. j \in 1 .. n /\ \A S \in SUBSET (1 .. n + 1) : i \in S /\ Onward(n, e, S) => j \in S
    BY <1>1, <1>3 DEF PlacesFrom
  <2>2. ASSUME NEW S \in SUBSET (1 .. n + 1), x \in S, Onward(n, e, S) PROVE j \in S
    <3>1. PICK U : U = S \cup {i}
      OBVIOUS
    <3>2. U \in SUBSET (1 .. n + 1) /\ i \in U
      BY <1>2, <3>1
    <3>3. Onward(n, e, U)
      BY <1>1, <2>2, <3>1 DEF Onward
    <3>4. j \in U
      BY <2>1, <3>2, <3>3
    <3>5. QED
      BY <1>3, <3>1, <3>4
  <2>3. QED
    BY <1>1, <2>1, <2>2 DEF PlacesFrom
<1>4. ASSUME NEW j \in Q PROVE j \in P
  <2>1. j \in 1 .. n /\ \A S \in SUBSET (1 .. n + 1) : x \in S /\ Onward(n, e, S) => j \in S
    BY <1>1, <1>4 DEF PlacesFrom
  <2>2. ASSUME NEW S \in SUBSET (1 .. n + 1), i \in S, Onward(n, e, S) PROVE j \in S
    <3>1. x \in S
      BY <1>1, <1>2, <2>2 DEF Onward
    <3>2. QED
      BY <2>1, <2>2, <3>1
  <2>3. QED
    BY <1>1, <2>1, <2>2 DEF PlacesFrom
<1>5. i \in P
  BY <1>1 DEF PlacesFrom
<1>6. P = {i} \cup Q
  BY <1>3, <1>4, <1>5
<1>7. QED
  BY <1>1, <1>6

LEMMA PlacesEnd ==
  ASSUME NEW n, NEW e, EndsOf(n, e)
  PROVE  PlacesFrom(n, e, n + 1) = {}
<1>1. n \in Nat
  BY DEF EndsOf
<1>2. PICK S : S = {n + 1}
  OBVIOUS
<1>3. S \in SUBSET (1 .. n + 1) /\ n + 1 \in S /\ Onward(n, e, S)
  BY <1>1, <1>2 DEF Onward
<1>4. ASSUME NEW j \in PlacesFrom(n, e, n + 1) PROVE FALSE
  <2>1. j \in 1 .. n /\ j \in S
    BY <1>3, <1>4 DEF PlacesFrom
  <2>2. QED
    BY <1>1, <1>2, <2>1
<1>5. QED
  BY <1>4

\* The places looked at are the first one and those after another.
Places(n, e, P) ==
  /\ P \subseteq 1 .. n
  /\ n > 0 => 1 \in P
  /\ \A i \in P : After(e, i) <= n => After(e, i) \in P
  /\ \A i \in P : i = 1 \/ \E j \in P : After(e, j) = i

LEMMA PlacesAre ==
  ASSUME NEW n, NEW e, EndsOf(n, e)
  PROVE  Places(n, e, PlacesFrom(n, e, 1))
<1>1. PICK P : P = PlacesFrom(n, e, 1)
  OBVIOUS
<1>2. n \in Nat /\ P \subseteq 1 .. n
  BY <1>1 DEF PlacesFrom, EndsOf
<1>3. n > 0 => 1 \in P
  BY <1>1, <1>2 DEF PlacesFrom
<1>4. ASSUME NEW i \in P, After(e, i) <= n PROVE After(e, i) \in P
  <2>1. PICK x : x = After(e, i)
    OBVIOUS
  <2>2. x \in 1 .. n
    <3>1. x \in 1 .. n + 1 /\ x <= n
      BY <1>2, <1>4, <2>1, AfterIs
    <3>2. QED
      BY <1>2, <3>1
  <2>3. ASSUME NEW S \in SUBSET (1 .. n + 1), 1 \in S, Onward(n, e, S) PROVE x \in S
    <3>1. i \in S /\ i <= n
      BY <1>1, <1>2, <2>3 DEF PlacesFrom
    <3>2. QED
      BY <2>1, <2>3, <3>1 DEF Onward
  <2>4. QED
    BY <1>1, <2>1, <2>2, <2>3 DEF PlacesFrom
<1>5. ASSUME NEW i \in P, i # 1, \A j \in P : After(e, j) # i PROVE FALSE
  <2>1. PICK S : S = (P \cup {1, n + 1}) \ {i}
    OBVIOUS
  <2>2. S \in SUBSET (1 .. n + 1) /\ 1 \in S /\ i # n + 1 /\ i \notin S
    BY <1>2, <1>5, <2>1
  <2>3. ASSUME NEW x \in S, x <= n PROVE After(e, x) \in S
    <3>1. x \in P /\ x \in 1 .. n
      BY <1>2, <1>3, <2>1, <2>2, <2>3
    <3>2. PICK y : y = After(e, x)
      OBVIOUS
    <3>3. y \in 1 .. n + 1 /\ y # i
      BY <1>5, <3>1, <3>2, AfterIs
    <3>4. y \in P \cup {n + 1}
      BY <1>2, <1>4, <3>1, <3>2, <3>3
    <3>5. QED
      BY <2>1, <3>2, <3>3, <3>4
  <2>4. i \in S
    BY <1>1, <2>2, <2>3 DEF Onward, PlacesFrom
  <2>5. QED
    BY <2>2, <2>4
<1>6. Places(n, e, P)
  BY <1>2, <1>3, <1>4, <1>5 DEF Places
<1>7. QED
  BY <1>1, <1>6

\* e has the ends of the longest words of W in msg.
Longests(W, msg, e) == \A i \in 1 .. Len(msg) : Ending(W, msg, i, e[i])

\* The place the search goes on at after place i, and the function that tells
\* which places it looks at.
Onwards(W, msg, i) == IF Longest(W, msg, i) = 0 THEN i + 1 ELSE i + Longest(W, msg, i)
Placing(W, msg, f) ==
  f = [i \in 1 .. Len(msg) |-> i = 1 \/ \E j \in 1 .. i - 1 : f[j] /\ Onwards(W, msg, j) = i]

LEMMA LongestsEnd ==
  ASSUME NEW W, Worded(W), NEW msg \in Seq(Nat), NEW e, Longests(W, msg, e)
  PROVE  /\ EndsOf(Len(msg), e)
         /\ \A i \in 1 .. Len(msg) :
              /\ Onwards(W, msg, i) = After(e, i)
              /\ Longest(W, msg, i) = IF e[i] = 0 THEN 0 ELSE e[i] - i + 1
<1>1. ASSUME NEW i \in 1 .. Len(msg)
      PROVE  /\ e[i] \in Nat /\ (e[i] = 0 \/ e[i] \in i .. Len(msg))
             /\ Longest(W, msg, i) = IF e[i] = 0 THEN 0 ELSE e[i] - i + 1
  <2>1. PICK x : x = e[i]
    OBVIOUS
  <2>2. Ending(W, msg, i, x) /\ i \in Nat \ {0}
    BY <2>1 DEF Longests
  <2>3. /\ Longest(W, msg, i) = IF x = 0 THEN 0 ELSE x - i + 1
        /\ x = 0 \/ x \in i .. Len(msg)
    BY <2>2, LongestIs
  <2>4. x \in Nat
    BY <2>2 DEF Ending
  <2>5. QED
    BY <2>1, <2>3, <2>4
<1>2. ASSUME NEW i \in 1 .. Len(msg) PROVE Onwards(W, msg, i) = After(e, i)
  <2>1. PICK x, l : x = e[i] /\ l = Longest(W, msg, i)
    OBVIOUS
  <2>2. l = (IF x = 0 THEN 0 ELSE x - i + 1) /\ (x = 0 \/ x \in i .. Len(msg)) /\ x \in Nat
    BY <1>1, <2>1
  <2>3. (IF l = 0 THEN i + 1 ELSE i + l) = IF x = 0 THEN i + 1 ELSE x + 1
    BY <2>2
  <2>4. QED
    BY <2>1, <2>3 DEF Onwards, After
<1>3. EndsOf(Len(msg), e)
  BY <1>1 DEF EndsOf
<1>4. QED
  BY <1>1, <1>2, <1>3

LEMMA PlacingExists ==
  ASSUME NEW W, Worded(W), NEW msg \in Seq(Nat), NEW e, Longests(W, msg, e)
  PROVE  \E f : Placing(W, msg, f)
<1>1. PICK n, P : n = Len(msg) /\ P = PlacesFrom(n, e, 1)
  OBVIOUS
<1>2. EndsOf(n, e) /\ \A i \in 1 .. n : Onwards(W, msg, i) = After(e, i)
  BY <1>1, LongestsEnd
<1>3. Places(n, e, P) /\ n \in Nat
  BY <1>1, <1>2, PlacesAre DEF EndsOf
<1>4. PICK f : f = [i \in 1 .. n |-> i \in P]
  OBVIOUS
<1>5. ASSUME NEW i \in 1 .. n
      PROVE  i \in P <=> i = 1 \/ \E j \in 1 .. i - 1 : j \in P /\ Onwards(W, msg, j) = i
  <2>1. CASE i = 1
    <3>1. 1 \in P
      BY <1>3 DEF Places
    <3>2. QED
      BY <2>1, <3>1
  <2>2. CASE i # 1
    <3>1. ASSUME i \in P PROVE \E j \in 1 .. i - 1 : j \in P /\ Onwards(W, msg, j) = i
      <4>1. PICK j \in P : After(e, j) = i
        BY <1>3, <2>2, <3>1 DEF Places
      <4>2. j \in 1 .. n
        BY <1>3 DEF Places
      <4>3. After(e, j) > j
        BY <1>2, <4>2, AfterIs
      <4>4. j \in 1 .. i - 1
        BY <4>1, <4>2, <4>3
      <4>5. QED
        BY <1>2, <4>1, <4>2, <4>4
    <3>2. ASSUME NEW j \in 1 .. i - 1, j \in P, Onwards(W, msg, j) = i PROVE i \in P
      <4>1. j \in 1 .. n /\ i <= n
        BY <1>3
      <4>2. After(e, j) = i
        BY <1>2, <3>2, <4>1
      <4>3. QED
        BY <1>3, <3>2, <4>1, <4>2 DEF Places
    <3>3. QED
      BY <2>2, <3>1, <3>2
  <2>3. QED
    BY <2>1, <2>2
<1>6. ASSUME NEW i \in 1 .. n
      PROVE  (i \in P) = (i = 1 \/ \E j \in 1 .. i - 1 : f[j] /\ Onwards(W, msg, j) = i)
  <2>1. ASSUME NEW j \in 1 .. i - 1 PROVE f[j] = (j \in P)
    <3>1. j \in 1 .. n
      BY <1>3
    <3>2. QED
      BY <1>4, <3>1, Zenon
  <2>2. (\E j \in 1 .. i - 1 : f[j] /\ Onwards(W, msg, j) = i)
        <=> \E j \in 1 .. i - 1 : j \in P /\ Onwards(W, msg, j) = i
    BY <2>1, Zenon
  <2>3. i \in P <=> i = 1 \/ \E j \in 1 .. i - 1 : j \in P /\ Onwards(W, msg, j) = i
    BY <1>5
  <2>4. i \in P <=> i = 1 \/ \E j \in 1 .. i - 1 : f[j] /\ Onwards(W, msg, j) = i
    BY <2>2, <2>3, Zenon
  <2>5. QED
    BY <2>4
<1>7. [i \in 1 .. n |-> i \in P]
      = [i \in 1 .. n |-> i = 1 \/ \E j \in 1 .. i - 1 : f[j] /\ Onwards(W, msg, j) = i]
  BY <1>6, Zenon
<1>8. Placing(W, msg, f)
  BY <1>1, <1>4, <1>7, Zenon DEF Placing
<1>9. QED
  BY <1>8

LEMMA SearchedIs ==
  ASSUME NEW W, Worded(W), NEW msg \in Seq(Nat), NEW e, Longests(W, msg, e)
  PROVE  Searched(W, msg) = PlacesFrom(Len(msg), e, 1)
<1>1. PICK n, P : n = Len(msg) /\ P = PlacesFrom(n, e, 1)
  OBVIOUS
<1>2. PICK f : f = CHOOSE g : Placing(W, msg, g)
  OBVIOUS
<1>3. EndsOf(n, e) /\ \A i \in 1 .. n : Onwards(W, msg, i) = After(e, i)
  BY <1>1, LongestsEnd
<1>4. Places(n, e, P) /\ n \in Nat
  BY <1>1, <1>3, PlacesAre DEF EndsOf
<1>5. Searched(W, msg) = {i \in 1 .. n : f[i]}
  BY <1>1, <1>2 DEF Searched, Placing, Onwards
<1>6. Placing(W, msg, f)
  <2>1. \E g : Placing(W, msg, g)
    BY PlacingExists
  <2>2. QED
    BY <1>2, <2>1
<1>7. ASSUME NEW i \in 1 .. n
      PROVE  f[i] <=> i = 1 \/ \E j \in 1 .. i - 1 : f[j] /\ After(e, j) = i
  <2>1. f[i] = (i = 1 \/ \E j \in 1 .. i - 1 : f[j] /\ Onwards(W, msg, j) = i)
    BY <1>1, <1>6, Zenon DEF Placing
  <2>2. \A j \in 1 .. i - 1 : j \in 1 .. n
    BY <1>4
  <2>3. (\E j \in 1 .. i - 1 : f[j] /\ Onwards(W, msg, j) = i)
        <=> \E j \in 1 .. i - 1 : f[j] /\ After(e, j) = i
    BY <1>3, <2>2, Zenon
  <2>4. QED
    BY <2>1, <2>3, Zenon
<1> DEFINE Right(i) == i \in 1 .. n => (f[i] <=> i \in P)
           S == {m \in Nat : \A i \in 0 .. m : Right(i)}
<1>8. 0 \in S
  <2>1. Right(0)
    OBVIOUS
  <2> HIDE DEF Right
  <2>2. QED
    BY <2>1
<1>9. ASSUME NEW m \in Nat, m \in S PROVE m + 1 \in S
  <2>1. PICK i : i = m + 1
    OBVIOUS
  <2>2. ASSUME i \in 1 .. n, NEW j \in 1 .. i - 1 PROVE f[j] <=> j \in P
    <3>1. j \in 0 .. m /\ j \in 1 .. n
      BY <1>4, <2>1, <2>2
    <3>2. Right(j)
      BY <1>9, <3>1
    <3>3. QED
      BY <3>1, <3>2
  <2>3. ASSUME i \in 1 .. n PROVE f[i] <=> i \in P
    <3>1. f[i] <=> i = 1 \/ \E j \in 1 .. i - 1 : f[j] /\ After(e, j) = i
      BY <1>7, <2>3, Zenon
    <3>2. (\E j \in 1 .. i - 1 : f[j] /\ After(e, j) = i) <=> \E j \in 1 .. i - 1 : j \in P /\ After(e, j) = i
      BY <2>2, <2>3, Zenon
    <3>3. i \in P <=> i = 1 \/ \E j \in 1 .. i - 1 : j \in P /\ After(e, j) = i
      <4>1. P \subseteq 1 .. n /\ 1 \in P
        BY <1>4, <2>3 DEF Places
      <4>2. ASSUME i \in P, i # 1 PROVE \E j \in 1 .. i - 1 : j \in P /\ After(e, j) = i
        <5>1. PICK j \in P : After(e, j) = i
          BY <1>4, <4>2 DEF Places
        <5>2. After(e, j) > j /\ j \in 1 .. n
          BY <1>3, <4>1, AfterIs
        <5>3. j \in 1 .. i - 1
          BY <1>4, <2>3, <5>1, <5>2
        <5>4. QED
          BY <5>1, <5>3
      <4>3. ASSUME NEW j \in 1 .. i - 1, j \in P, After(e, j) = i PROVE i \in P
        BY <1>4, <2>3, <4>3 DEF Places
      <4>4. QED
        BY <4>1, <4>2, <4>3
    <3>4. QED
      BY <3>1, <3>2, <3>3, Zenon
  <2>4. Right(i)
    BY <2>3, Zenon
  <2>5. \A k \in 0 .. m : Right(k)
    BY <1>9
  <2> HIDE DEF Right
  <2>6. \A k \in 0 .. m + 1 : k \in 0 .. m \/ k = i
    BY <2>1
  <2>7. \A k \in 0 .. m + 1 : Right(k)
    BY <2>4, <2>5, <2>6, Zenon
  <2>8. QED
    BY <2>7
<1>10. ASSUME NEW i \in 1 .. n PROVE f[i] <=> i \in P
  <2>1. i \in S
    <3> HIDE DEF S
    <3>1. Nat \subseteq S
      BY <1>8, <1>9, AllNumbers
    <3>2. QED
      BY <3>1
  <2>2. i \in 0 .. i
    OBVIOUS
  <2>3. QED
    BY <2>1, <2>2, Zenon
<1>11. {i \in 1 .. n : f[i]} = P
  <2>1. P \subseteq 1 .. n
    BY <1>4 DEF Places
  <2>2. \A i : i \in {j \in 1 .. n : f[j]} <=> i \in P
    BY <1>10, <2>1, Zenon
  <2>3. QED
    BY <2>2, Zenon
<1>12. QED
  BY <1>1, <1>5, <1>11, Zenon

-----------------------------------------------------------------------------
(* The places starred out                                                    *)

\* The characters from place i on; g tells those from a later place on.
SpansAt(n, e, i, g) == IF i = n + 1 THEN {} ELSE i .. e[i] \cup g[After(e, i)]
Spanning(n, e, f) == f = [i \in 1 .. n + 1 |-> SpansAt(n, e, i, f)]

LEMMA SpansOne ==
  ASSUME NEW n, NEW e, EndsOf(n, e), NEW i \in 1 .. n
  PROVE  Spans(e, PlacesFrom(n, e, i)) = i .. e[i] \cup Spans(e, PlacesFrom(n, e, After(e, i)))
<1>1. PICK x, P, Q : x = After(e, i) /\ P = PlacesFrom(n, e, i) /\ Q = PlacesFrom(n, e, x)
  OBVIOUS
<1>2. P = {i} \cup Q
  BY <1>1, PlacesNext
<1>3. n \in Nat /\ e[i] \in Nat
  BY AfterIs
<1>4. \A k : k \in i .. e[i] <=> k \in Nat /\ i <= k /\ k <= e[i]
  BY <1>3
<1>5. \A k : k \in Spans(e, P) <=> k \in i .. e[i] \/ k \in Spans(e, Q)
  BY <1>2, <1>4 DEF Spans
<1>6. QED
  BY <1>1, <1>5

LEMMA SpanningExists ==
  ASSUME NEW n, NEW e, EndsOf(n, e)
  PROVE  \E f : Spanning(n, e, f)
<1>2. PICK f : f = [i \in 1 .. n + 1 |-> Spans(e, PlacesFrom(n, e, i))]
  OBVIOUS
<1>3. n \in Nat
  BY DEF EndsOf
<1>4. ASSUME NEW i \in 1 .. n + 1 PROVE Spans(e, PlacesFrom(n, e, i)) = SpansAt(n, e, i, f)
  <2>1. SpansAt(n, e, i, f) = IF i = n + 1 THEN {} ELSE i .. e[i] \cup f[After(e, i)]
    BY DEF SpansAt
  <2>2. CASE i = n + 1
    <3>1. PlacesFrom(n, e, i) = {}
      BY <2>2, PlacesEnd
    <3>2. Spans(e, {}) = {}
      BY DEF Spans
    <3>3. QED
      BY <2>1, <2>2, <3>1, <3>2
  <2>3. CASE i # n + 1
    <3>1. i \in 1 .. n
      BY <1>3, <2>3
    <3>2. PICK x : x = After(e, i)
      OBVIOUS
    <3>3. x \in 1 .. n + 1
      BY <3>1, <3>2, AfterIs
    <3>4. f[x] = Spans(e, PlacesFrom(n, e, x))
      BY <1>2, <3>3, Zenon
    <3>5. Spans(e, PlacesFrom(n, e, i)) = i .. e[i] \cup Spans(e, PlacesFrom(n, e, x))
      BY <3>1, <3>2, SpansOne
    <3>6. QED
      BY <2>1, <2>3, <3>2, <3>4, <3>5, Zenon
  <2>4. QED
    BY <2>2, <2>3
<1>5. [i \in 1 .. n + 1 |-> Spans(e, PlacesFrom(n, e, i))] = [i \in 1 .. n + 1 |-> SpansAt(n, e, i, f)]
  BY <1>4, Zenon
<1>6. Spanning(n, e, f)
  BY <1>2, <1>5, Zenon DEF Spanning
<1>7. QED
  BY <1>6

LEMMA SpanningIs ==
  ASSUME NEW n, NEW e, EndsOf(n, e), NEW f, Spanning(n, e, f)
  PROVE  \A i \in 1 .. n + 1 : f[i] = Spans(e, PlacesFrom(n, e, i))
<1>2. n \in Nat
  BY DEF EndsOf
<1>3. ASSUME NEW i \in 1 .. n + 1
      PROVE  f[i] = IF i = n + 1 THEN {} ELSE i .. e[i] \cup f[After(e, i)]
  <2>1. f[i] = SpansAt(n, e, i, f)
    BY Zenon DEF Spanning
  <2>2. QED
    BY <2>1, Zenon DEF SpansAt
<1> DEFINE Right(i) == i \in 1 .. n + 1 => f[i] = Spans(e, PlacesFrom(n, e, i))
           S == {m \in Nat : \A k \in 0 .. m : Right(n + 1 - k)}
<1>4. Right(n + 1)
  <2>1. n + 1 \in 1 .. n + 1
    BY <1>2
  <2>2. f[n + 1] = {}
    BY <1>3, <2>1
  <2>3. PlacesFrom(n, e, n + 1) = {}
    BY PlacesEnd
  <2>4. Spans(e, {}) = {}
    BY DEF Spans
  <2>5. QED
    BY <2>2, <2>3, <2>4
<1>5. ASSUME NEW i \in 1 .. n, \A j \in i + 1 .. n + 1 : Right(j) PROVE Right(i)
  <2>1. PICK x : x = After(e, i)
    OBVIOUS
  <2>2. x \in 1 .. n + 1 /\ x > i
    BY <2>1, AfterIs
  <2>3. x \in i + 1 .. n + 1
    BY <1>2, <2>2
  <2>4. f[x] = Spans(e, PlacesFrom(n, e, x))
    BY <1>5, <2>2, <2>3
  <2>5. i \in 1 .. n + 1 /\ i # n + 1
    BY <1>2
  <2>6. f[i] = i .. e[i] \cup f[x]
    BY <1>3, <2>1, <2>5
  <2>7. Spans(e, PlacesFrom(n, e, i)) = i .. e[i] \cup Spans(e, PlacesFrom(n, e, x))
    BY <2>1, SpansOne
  <2>8. QED
    BY <2>4, <2>6, <2>7
<1> HIDE DEF Right
<1>6. 0 \in S
  <2>1. \A k \in 0 .. 0 : n + 1 - k = n + 1
    BY <1>2
  <2>2. QED
    BY <1>4, <2>1
<1>7. ASSUME NEW m \in Nat, m \in S PROVE m + 1 \in S
  <2>1. PICK i : i = n + 1 - (m + 1)
    OBVIOUS
  <2>2. i \in Int /\ i <= n
    BY <1>2, <2>1
  <2>3. ASSUME NEW j \in i + 1 .. n + 1 PROVE Right(j)
    <3>1. PICK k : k = n + 1 - j
      OBVIOUS
    <3>2. k \in 0 .. m /\ n + 1 - k = j
      BY <1>2, <2>1, <3>1
    <3>3. Right(n + 1 - k)
      BY <1>7, <3>2
    <3>4. QED
      BY <3>2, <3>3
  <2>4. Right(i)
    <3>1. CASE i \in 1 .. n
      BY <1>5, <2>3, <3>1
    <3>2. CASE i \notin 1 .. n
      <4>1. i \notin 1 .. n + 1
        BY <1>2, <2>2, <3>2
      <4>2. QED
        BY <4>1 DEF Right
    <3>3. QED
      BY <3>1, <3>2
  <2>5. \A k \in 0 .. m : Right(n + 1 - k)
    BY <1>7
  <2>6. \A k \in 0 .. m + 1 : k \in 0 .. m \/ k = m + 1
    OBVIOUS
  <2>7. \A k \in 0 .. m + 1 : Right(n + 1 - k)
    BY <2>1, <2>4, <2>5, <2>6
  <2>8. QED
    BY <2>7
<1>8. ASSUME NEW i \in 1 .. n + 1 PROVE f[i] = Spans(e, PlacesFrom(n, e, i))
  <2>1. PICK m : m = n + 1 - i
    OBVIOUS
  <2>2. m \in Nat /\ n + 1 - m = i /\ m \in 0 .. m
    BY <1>2, <2>1
  <2>3. m \in S
    <3> HIDE DEF S
    <3>1. Nat \subseteq S
      BY <1>6, <1>7, AllNumbers
    <3>2. QED
      BY <2>2, <3>1
  <2>4. Right(i)
    BY <2>2, <2>3
  <2>5. QED
    BY <2>4 DEF Right
<1>9. QED
  BY <1>8

\* Exactly the characters in X are to be starred out.
StarsOut(W, msg, X) ==
  /\ Starred(W, msg) = [k \in 1 .. Len(msg) |-> IF k \in X THEN Star ELSE msg[k]]
  /\ AnyStarred(W, msg) = (X # {})

LEMMA StarredIs ==
  ASSUME NEW W, Worded(W), NEW msg \in Seq(Nat), NEW e, Longests(W, msg, e)
  PROVE  StarsOut(W, msg, Spans(e, PlacesFrom(Len(msg), e, 1)))
<1>1. PICK n : n = Len(msg)
  OBVIOUS
<1>3. n \in Nat /\ DOMAIN msg = 1 .. n
  BY <1>1
<1>4. Longests(W, msg, e) /\ EndsOf(n, e)
  BY <1>1, LongestsEnd
<1>5. PICK P, X : P = PlacesFrom(n, e, 1) /\ X = Spans(e, P)
  OBVIOUS
<1>7. Searched(W, msg) = P
  BY <1>1, <1>4, <1>5, SearchedIs
<1>8. ASSUME NEW i \in P
      PROVE  /\ i \in 1 .. n /\ e[i] \in Nat /\ (e[i] = 0 \/ e[i] \in i .. n)
             /\ Longest(W, msg, i) = IF e[i] = 0 THEN 0 ELSE e[i] - i + 1
  <2>1. i \in 1 .. n
    BY <1>5 DEF PlacesFrom
  <2>2. /\ EndsOf(Len(msg), e)
        /\ \A k \in 1 .. Len(msg) :
             /\ Onwards(W, msg, k) = After(e, k)
             /\ Longest(W, msg, k) = IF e[k] = 0 THEN 0 ELSE e[k] - k + 1
    BY <1>4, LongestsEnd
  <2>3. e[i] \in Nat
    BY <1>4, <2>1, AfterIs
  <2>4. QED
    BY <1>1, <1>4, <2>1, <2>2, <2>3 DEF EndsOf
<1>9. ASSUME NEW k \in 1 .. n, NEW i \in P
      PROVE  i <= k /\ k <= e[i] <=> i <= k /\ k < i + Longest(W, msg, i)
  <2>1. PICK x, l : x = e[i] /\ l = Longest(W, msg, i)
    OBVIOUS
  <2>2. i \in 1 .. n /\ x \in Nat /\ (x = 0 \/ x \in i .. n) /\ l = IF x = 0 THEN 0 ELSE x - i + 1
    BY <1>8, <2>1
  <2>3. i <= k /\ k <= x <=> i <= k /\ k < i + l
    BY <1>3, <2>2
  <2>4. QED
    BY <2>1, <2>3
<1>10. ASSUME NEW k \in 1 .. n
       PROVE  k \in X <=> \E i \in P : i <= k /\ k < i + Longest(W, msg, i)
  <2>1. k \in X <=> \E i \in P : i <= k /\ k <= e[i]
    BY <1>5 DEF Spans
  <2>2. QED
    BY <1>9, <2>1, Zenon
<1>11. Starred(W, msg) = [k \in 1 .. n |-> IF k \in X THEN Star ELSE msg[k]]
  <2>2. Starred(W, msg)
        = [k \in 1 .. n |->
             IF \E i \in P : i <= k /\ k < i + Longest(W, msg, i) THEN Star ELSE msg[k]]
    BY <1>1, <1>7, Zenon DEF Starred
  <2>3. ASSUME NEW k \in 1 .. n
        PROVE  (IF k \in X THEN Star ELSE msg[k])
               = IF \E i \in P : i <= k /\ k < i + Longest(W, msg, i) THEN Star ELSE msg[k]
    BY <1>10, Zenon
  <2>4. [k \in 1 .. n |-> IF k \in X THEN Star ELSE msg[k]]
        = [k \in 1 .. n |->
             IF \E i \in P : i <= k /\ k < i + Longest(W, msg, i) THEN Star ELSE msg[k]]
    BY <2>3, Zenon
  <2>5. QED
    BY <2>2, <2>4, Zenon
<1>12. AnyStarred(W, msg) = (X # {})
  <2>2. AnyStarred(W, msg) <=> \E i \in P : Longest(W, msg, i) > 0
    BY <1>7 DEF AnyStarred
  <2>3. ASSUME X # {} PROVE \E i \in P : Longest(W, msg, i) > 0
    <3>1. PICK k : k \in Nat /\ \E i \in P : i <= k /\ k <= e[i]
      BY <1>5, <2>3 DEF Spans
    <3>2. PICK i \in P : i <= k /\ k <= e[i]
      BY <3>1
    <3>3. PICK x, l : x = e[i] /\ l = Longest(W, msg, i)
      OBVIOUS
    <3>4. i \in 1 .. n /\ x \in Nat /\ l = IF x = 0 THEN 0 ELSE x - i + 1
      BY <1>8, <3>3
    <3>5. l > 0
      BY <1>3, <3>1, <3>2, <3>3, <3>4
    <3>6. QED
      BY <3>3, <3>5
  <2>4. ASSUME NEW i \in P, Longest(W, msg, i) > 0 PROVE X # {}
    <3>1. PICK x, l : x = e[i] /\ l = Longest(W, msg, i)
      OBVIOUS
    <3>2. /\ i \in 1 .. n /\ x \in Nat /\ (x = 0 \/ x \in i .. n) /\ l > 0
          /\ l = IF x = 0 THEN 0 ELSE x - i + 1
      BY <1>8, <2>4, <3>1
    <3>3. i \in Nat /\ i <= i /\ i <= x
      BY <1>3, <3>2
    <3>4. i \in X
      BY <1>5, <3>1, <3>3 DEF Spans
    <3>5. QED
      BY <3>4
  <2>5. X # {} <=> AnyStarred(W, msg)
    BY <2>2, <2>3, <2>4, Zenon
  <2>6. AnyStarred(W, msg) \in BOOLEAN
    BY DEF AnyStarred
  <2>7. QED
    BY <2>5, <2>6
<1>13. QED
  BY <1>1, <1>5, <1>11, <1>12, Zenon DEF StarsOut

\* 'stars' at place i; g is what it returns at another place.
StarsAt(msg, i, g) ==
  IF i > Len(msg) THEN {}
  ELSE LET last == Match(msg, i)
       IN IF last > 0 THEN i .. last \cup g[last + 1] ELSE g[i + 1]
Starring(msg, f) == f = [i \in 1 .. Len(msg) + 1 |-> StarsAt(msg, i, f)]

\* e has what Match returns.
Matches(msg, e) == e = [i \in 1 .. Len(msg) |-> Match(msg, i)]

LEMMA MatchesLongest ==
  ASSUME Dictionaries, g_dict # 0, NEW msg \in Seq(Nat), NEW e, Matches(msg, e)
  PROVE  Worded(Spelled) /\ Longests(Spelled, msg, e) /\ EndsOf(Len(msg), e)
<1>1. ASSUME NEW i \in 1 .. Len(msg) PROVE Ending(Spelled, msg, i, e[i])
  <2>1. e[i] = Match(msg, i)
    BY DEF Matches
  <2>2. i \in 1 .. Len(msg) + 1
    <3>1. Len(msg) \in Nat
      OBVIOUS
    <3>2. QED
      BY <3>1
  <2>3. Ending(Spelled, msg, i, Match(msg, i))
    BY <2>2, MatchIs
  <2>4. QED
    BY <2>1, <2>3, Zenon
<1>2. Longests(Spelled, msg, e)
  BY <1>1 DEF Longests
<1>3. Worded(Spelled)
  <2>1. PICK R : Forest(table, R)
    BY DEF Dictionaries
  <2>2. Tables(table) /\ g_dict \in DOMAIN table
    BY DEF Dictionaries
  <2>3. SpelledOf(table, g_dict) = Spelt(table, g_dict)
    BY <2>1, <2>2, SpelledSpelt
  <2>4. Spelled = Spelt(table, g_dict)
    BY <2>3, SpelledIs
  <2>5. Worded(Spelt(table, g_dict))
    BY SpeltWorded
  <2>6. QED
    BY <2>4, <2>5, Zenon
<1>4. PICK W : W = Spelled
  OBVIOUS
<1>5. EndsOf(Len(msg), e)
  <2>1. Worded(W) /\ Longests(W, msg, e)
    BY <1>2, <1>3, <1>4, Zenon
  <2>2. QED
    BY <2>1, LongestsEnd
<1>6. QED
  BY <1>2, <1>3, <1>5

LEMMA StarsAtIs ==
  ASSUME NEW msg \in Seq(Nat), NEW e, Matches(msg, e), EndsOf(Len(msg), e), NEW g, NEW i \in 1 .. Len(msg) + 1
  PROVE  StarsAt(msg, i, g) = SpansAt(Len(msg), e, i, g)
<1>1. PICK n : n = Len(msg)
  OBVIOUS
<1>2. n \in Nat
  BY <1>1
<1>3. CASE i = n + 1
  <2>1. i > n
    BY <1>2, <1>3
  <2>2. StarsAt(msg, i, g) = {}
    BY <1>1, <2>1 DEF StarsAt
  <2>3. QED
    BY <1>1, <1>3, <2>2 DEF SpansAt
<1>4. CASE i # n + 1
  <2>1. i \in 1 .. n /\ ~ (i > n)
    BY <1>1, <1>2, <1>4
  <2>2. PICK x : x = e[i]
    OBVIOUS
  <2>3. x = Match(msg, i)
    BY <1>1, <2>1, <2>2 DEF Matches
  <2>4. x = 0 \/ x \in i .. n
    BY <1>1, <2>1, <2>2 DEF EndsOf
  <2>5. StarsAt(msg, i, g) = IF x > 0 THEN i .. x \cup g[x + 1] ELSE g[i + 1]
    <3>1. ~ (i > Len(msg))
      BY <1>1, <2>1, Zenon
    <3>2. StarsAt(msg, i, g) = IF Match(msg, i) > 0 THEN i .. Match(msg, i) \cup g[Match(msg, i) + 1] ELSE g[i + 1]
      BY <3>1, Zenon DEF StarsAt
    <3>3. QED
      BY <2>3, <3>2, Zenon
  <2>6. CASE x = 0
    <3>1. i .. x = {} /\ After(e, i) = i + 1
      BY <2>1, <2>2, <2>6 DEF After
    <3>2. StarsAt(msg, i, g) = g[i + 1]
      BY <2>5, <2>6
    <3>3. QED
      BY <1>1, <1>4, <2>2, <3>1, <3>2 DEF SpansAt
  <2>7. CASE x # 0
    <3>1. x > 0 /\ After(e, i) = x + 1
      BY <2>1, <2>2, <2>4, <2>7 DEF After
    <3>2. StarsAt(msg, i, g) = i .. x \cup g[x + 1]
      BY <2>5, <3>1
    <3>3. QED
      BY <1>1, <1>4, <2>2, <3>1, <3>2 DEF SpansAt
  <2>8. QED
    BY <2>6, <2>7
<1>5. QED
  BY <1>3, <1>4

LEMMA StarsAre ==
  ASSUME NEW msg \in Seq(Nat), NEW e, Matches(msg, e), EndsOf(Len(msg), e)
  PROVE  stars(msg) = Spans(e, PlacesFrom(Len(msg), e, 1))
<1>1. PICK f, n : f = (CHOOSE g : Starring(msg, g)) /\ n = Len(msg)
  OBVIOUS
<1>2. stars(msg) = f[1]
  BY <1>1 DEF stars, Starring, StarsAt
<1>3. ASSUME NEW g PROVE Starring(msg, g) <=> Spanning(n, e, g)
  <2>1. \A i \in 1 .. n + 1 : StarsAt(msg, i, g) = SpansAt(n, e, i, g)
    BY <1>1, StarsAtIs
  <2>2. [i \in 1 .. n + 1 |-> StarsAt(msg, i, g)] = [i \in 1 .. n + 1 |-> SpansAt(n, e, i, g)]
    BY <2>1, Zenon
  <2>3. QED
    BY <1>1, <2>2, Zenon DEF Starring, Spanning
<1>4. Spanning(n, e, f)
  <2>1. \E g : Spanning(n, e, g)
    BY <1>1, SpanningExists
  <2>2. \E g : Starring(msg, g)
    BY <1>3, <2>1
  <2>3. Starring(msg, f)
    BY <1>1, <2>2
  <2>4. QED
    BY <1>3, <2>3
<1>5. \A i \in 1 .. n + 1 : f[i] = Spans(e, PlacesFrom(n, e, i))
  BY <1>1, <1>4, SpanningIs
<1>6. 1 \in 1 .. n + 1
  <2>1. n \in Nat
    BY <1>1
  <2>2. QED
    BY <2>1
<1>7. QED
  BY <1>1, <1>2, <1>5, <1>6, Zenon

LEMMA Filtered ==
  ASSUME Dictionaries, g_dict # 0, NEW msg \in Seq(Nat)
  PROVE  /\ dict_filter(msg).msg = Starred(Spelled, msg)
         /\ dict_filter(msg).flag = AnyStarred(Spelled, msg)
<1>1. PICK n, e, W : n = Len(msg) /\ e = [i \in 1 .. Len(msg) |-> Match(msg, i)] /\ W = Spelled
  OBVIOUS
<1>2. Matches(msg, e)
  BY <1>1 DEF Matches
<1>3. DOMAIN msg = 1 .. n
  BY <1>1
<1>4. Worded(W) /\ Longests(W, msg, e) /\ EndsOf(n, e)
  <2>1. Worded(Spelled) /\ Longests(Spelled, msg, e) /\ EndsOf(Len(msg), e)
    BY <1>2, MatchesLongest
  <2>2. QED
    BY <1>1, <2>1, Zenon
<1>5. PICK X : X = Spans(e, PlacesFrom(n, e, 1))
  OBVIOUS
<1>6. stars(msg) = X
  BY <1>1, <1>2, <1>4, <1>5, StarsAre
<1>7. /\ Starred(W, msg) = [k \in 1 .. n |-> IF k \in X THEN Star ELSE msg[k]]
      /\ AnyStarred(W, msg) = (X # {})
  <2>1. StarsOut(W, msg, X)
    BY <1>1, <1>4, <1>5, StarredIs
  <2>2. QED
    BY <1>1, <2>1 DEF StarsOut
<1>8. dict_filter(msg).msg = [k \in 1 .. n |-> IF k \in X THEN Star ELSE msg[k]] /\ dict_filter(msg).flag = (X # {})
  BY <1>3, <1>6 DEF dict_filter
<1>9. QED
  BY <1>1, <1>7, <1>8, Zenon

\* Every message comes out with the longest word of the dictionary starred out at each place
\* searched, and the flag says whether there was one: 'FiltersWords', whatever words the dictionary
\* was given before, in whatever order, and however long they and the message are. The search backs
\* up to the last terminator it met, and goes on after it (lua-crab.c:286-318).
THEOREM MessagesFiltered == Spec => []FiltersWords
<1>1. Dictionaries => FiltersWords
  <2>1. SUFFICES ASSUME Dictionaries, g_dict # 0, NEW msg \in Messages
                 PROVE  /\ dict_filter(msg).msg = Starred(Spelled, msg)
                        /\ dict_filter(msg).flag = AnyStarred(Spelled, msg)
    BY DEF FiltersWords
  <2>2. msg \in Seq(Nat)
    BY CrabAssumption
  <2>3. QED
    BY <2>1, <2>2, Filtered
<1>2. QED
  BY <1>1, DictionariesInductive, PTL DEF Spec
=============================================================================
