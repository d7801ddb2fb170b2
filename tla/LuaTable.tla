------------------------------ MODULE LuaTable ------------------------------
(* Tables (ltable.c): an array part, and a hash part whose entries are       *)
(* chained through relative links, with Brent's variation: an entry that is  *)
(* not in its main position gives way to one that is. Positions count from 1.*)
(* A key is an integer, an object known by its address, or a float, given by *)
(* twice its value; a key whose object may be gone is dead.                  *)
EXTENDS Integers, Sequences, FiniteSets, SequencesExt, FiniteSetsExt

CONSTANTS
  Keys,         \* the keys that the program uses
  Values,       \* the values it stores
  Nil,          \* nil, as a key and as a value
  MaxInteger    \* greatest integer (LUA_MAXINTEGER)

VARIABLES
  t,      \* [array, node, lastfree]; lastfree is 0 for the dummy node
  map,    \* what the program assigned to every key
  at,     \* the last key of the program's traversal, Nil at its start
  seen    \* the keys that the traversal delivered

tvars == <<t, map, at, seen>>

I(n) == <<"int", n>>
O(a) == <<"obj", a>>
Dead(a) == <<"dead", a>>
copies(x, n) == <<>> \o [i \in 1..n |-> x]
ceillog2(n) == CHOOSE e \in 0..n : 2 ^ e >= n /\ (e = 0 \/ 2 ^ (e - 1) < n)

\* The key that stands for a key of the program (luaV_tointeger).
normal(key) == IF key[1] = "flt" /\ key[2] % 2 = 0 THEN I(key[2] \div 2) ELSE key

sizearray(tb) == Len(tb.array)
sizenode(tb) == Len(tb.node)
isdummy(tb) == tb.lastfree = 0
emptynode == [key |-> Nil, val |-> Nil, next |-> 0]

mainposition(tb, key) ==
  LET odd == IF sizenode(tb) = 1 THEN 1 ELSE sizenode(tb) - 1
  IN 1 + (IF key[1] = "int" THEN key[2] % sizenode(tb) ELSE key[2] % odd)

\* The nodes linked from position n on.
RECURSIVE Chain(_, _)
Chain(tb, n) ==
  <<n>> \o (IF tb.node[n].next = 0 THEN <<>> ELSE Chain(tb, n + tb.node[n].next))
Found(tb, key, Same(_)) ==
  SelectSeq(Chain(tb, mainposition(tb, key)), LAMBDA n : Same(tb.node[n].key))

\* Cells: an element of the array, a node, or no cell at all.
NoCell == <<"none", 0>>
valueat(tb, cell) ==
  CASE cell[1] = "array" -> tb.array[cell[2]] [] cell[1] = "node" -> tb.node[cell[2]].val
    [] OTHER -> Nil
put(tb, cell, v) ==
  IF cell[1] = "array" THEN [tb EXCEPT !.array[cell[2]] = v] ELSE [tb EXCEPT !.node[cell[2]].val = v]

inarray(tb, key) == key[1] = "int" /\ key[2] \in 1..sizearray(tb)
luaH_get(tb, key0) ==
  LET key == normal(key0)
      found == Found(tb, key, LAMBDA k : k = key)
  IN IF inarray(tb, key) THEN <<"array", key[2]>>
     ELSE IF found = <<>> THEN NoCell ELSE <<"node", found[1]>>

-----------------------------------------------------------------------------
(* Growing *)

\* The size of the array part for the integer keys ns: the greatest power of two such
\* that more than half of it is in use.
computesizes(ns) ==
  LET below(p) == Cardinality({n \in ns : n <= p})
      sizes == {2 ^ e : e \in 0..Cardinality(ns)}
      tried == {p \in sizes : \A q \in sizes : q <= p => Cardinality(ns) > q \div 2}
  IN Max({0} \cup {p \in tried : below(p) > p \div 2})

arrayindexes(tb, ek) ==
  {n \in 1..sizearray(tb) : tb.array[n] # Nil}
  \cup {k[2] : k \in {key \in {tb.node[n].key : n \in {m \in 1..sizenode(tb) : tb.node[m].val # Nil}}
                              \cup {ek} : key[1] = "int" /\ key[2] > 0}}
totaluse(tb) == Cardinality({n \in 1..sizearray(tb) : tb.array[n] # Nil})
                + Cardinality({n \in 1..sizenode(tb) : tb.node[n].val # Nil})

setarrayvector(tb, size) ==
  [tb EXCEPT !.array = <<>> \o [n \in 1..size |-> IF n \in DOMAIN tb.array THEN tb.array[n] ELSE Nil]]
setnodevector(tb, size) ==
  IF size = 0 THEN [tb EXCEPT !.node = <<emptynode>>, !.lastfree = 0]
  ELSE [tb EXCEPT !.node = copies(emptynode, 2 ^ ceillog2(size)), !.lastfree = 2 ^ ceillog2(size) + 1]

\* The last free node below lastfree: its position (0 when there is none) and the table.
getfreepos(tb) ==
  LET free == {n \in 1..(tb.lastfree - 1) : tb.node[n].key = Nil}
      f == IF free = {} THEN 1 ELSE Max(free)
  IN IF isdummy(tb) THEN <<0, tb>>
     ELSE <<IF free = {} THEN 0 ELSE f, [tb EXCEPT !.lastfree = f]>>

RECURSIVE luaH_newkey(_, _)
luaH_set(tb, key) ==
  LET cell == luaH_get(tb, key) IN IF cell # NoCell THEN <<cell, tb>> ELSE luaH_newkey(tb, key)
reinsert(tb, entry) == LET r == luaH_set(tb, entry[1]) IN put(r[2], r[1], entry[2])

luaH_resize(tb, nasize, nhsize) ==
  LET grown == setnodevector(setarrayvector(tb, nasize), nhsize)
      elements == [n \in 1..sizearray(tb) |-> <<I(n), tb.array[n]>>]
      vanishing == SubSeq(elements, nasize + 1, sizearray(tb))
      nodes == [n \in 1..sizenode(tb) |-> <<tb.node[n].key, tb.node[n].val>>]
  IN FoldLeft(reinsert, grown, SelectSeq(vanishing \o Reverse(nodes), LAMBDA e : e[2] # Nil))

\* Room for every key in use and one more. When the new nodes cannot be had, the array
\* goes back to its size.
rehash(tb, ek) ==
  LET ns == arrayindexes(tb, ek)
      asize == computesizes(ns)
      na == Cardinality({n \in ns : n <= asize})
  IN luaH_resize(tb, asize, totaluse(tb) + 1 - na)

\* The node at mp goes to f. Its predecessor in its chain follows it.
before(tb, mp) ==
  LET chain == Chain(tb, mainposition(tb, tb.node[mp].key))
  IN chain[CHOOSE i \in DOMAIN chain : i < Len(chain) /\ chain[i + 1] = mp]
moved_Unchained(tb, mp, f) ==
  [tb EXCEPT !.node[before(tb, mp)].next = f - before(tb, mp),
             !.node[f] = [tb.node[mp] EXCEPT !.next = 0],
             !.node[mp] = [@ EXCEPT !.next = 0, !.val = Nil]]
moved(tb, mp, f) ==
  [tb EXCEPT !.node[before(tb, mp)].next = f - before(tb, mp),
             !.node[f] = [tb.node[mp] EXCEPT !.next = IF @ # 0 THEN @ + (mp - f) ELSE 0],
             !.node[mp] = [@ EXCEPT !.next = 0, !.val = Nil]]

\* f joins the chain of mp, just behind it.
chained(tb, mp, f) ==
  [tb EXCEPT !.node[f].next = IF tb.node[mp].next # 0 THEN mp + tb.node[mp].next - f ELSE @,
             !.node[mp].next = f - mp]

luaH_newkey(tb, key0) ==
  LET key == normal(key0)
      mp == mainposition(tb, key)
      taken == tb.node[mp].val # Nil \/ isdummy(tb)
      free == getfreepos(tb)
      f == free[1]
      g == free[2]
      home == mainposition(tb, tb.node[mp].key) = mp
      at_(x, n) == <<<<"node", n>>, [x EXCEPT !.node[n].key = key]>>
  IN IF ~ taken THEN at_(tb, mp)
     ELSE IF f = 0 THEN luaH_set(rehash(g, key), key)
     ELSE IF home THEN at_(chained(g, mp, f), f)
     ELSE at_(moved(g, mp, f), mp)

\* Setting a key needs memory for nodes.
rehashes(tb, key0) ==
  LET key == normal(key0)
  IN /\ luaH_get(tb, key) = NoCell
     /\ tb.node[mainposition(tb, key)].val # Nil \/ isdummy(tb)
     /\ getfreepos(tb)[1] = 0

-----------------------------------------------------------------------------
(* Traversal and length *)

\* A dead key still marks where the traversal was.
matches_Live(k, key) == k = key
matches(k, key) == k = key \/ (key[1] = "obj" /\ k = Dead(key[2]))
\* -1 when the key is not in the table ("invalid key to 'next'").
findindex(tb, key) ==
  LET found == Found(tb, key, LAMBDA k : matches(k, key))
  IN IF key = Nil THEN 0 ELSE IF inarray(tb, key) THEN key[2]
     ELSE IF found = <<>> THEN -1 ELSE sizearray(tb) + found[1]

\* The next key, Nil at the end.
luaH_next(tb, key) ==
  LET i == findindex(tb, key)
      n == sizearray(tb)
      rest == {j \in (i + 1)..(n + sizenode(tb)) :
                 (IF j <= n THEN tb.array[j] ELSE tb.node[j - n].val) # Nil}
  IN IF rest = {} THEN Nil ELSE IF Min(rest) <= n THEN I(Min(rest)) ELSE tb.node[Min(rest) - n].key

luaH_getint(tb, n) == valueat(tb, luaH_get(tb, I(n)))
\* Between i, present or 0, and j, absent, by halves.
RECURSIVE binsearch(_, _, _)
binsearch(tb, i, j) ==
  LET m == (i + j) \div 2
  IN IF j - i <= 1 THEN i
     ELSE IF luaH_getint(tb, m) = Nil THEN binsearch(tb, i, m) ELSE binsearch(tb, m, j)
linear(tb) == Min({n \in 1..(MaxInteger + 1) : luaH_getint(tb, n) = Nil}) - 1
RECURSIVE unbound_search(_, _, _)
unbound_search(tb, i, j) ==
  IF luaH_getint(tb, j) = Nil THEN binsearch(tb, i, j)
  ELSE IF j > MaxInteger \div 2 THEN linear(tb)
  ELSE unbound_search(tb, j, j * 2)
luaH_getn(tb) ==
  LET j == sizearray(tb)
  IN IF j > 0 /\ tb.array[j] = Nil THEN binsearch(tb, 0, j)
     ELSE IF isdummy(tb) THEN j
     ELSE unbound_search(tb, j, j + 1)

-----------------------------------------------------------------------------
(* The program *)

luaH_new == [array |-> <<>>, node |-> <<emptynode>>, lastfree |-> 0]
Normal == {normal(key) : key \in Keys}
TInit == t = luaH_new /\ map = [k \in Normal |-> Nil] /\ at = Nil /\ seen = {}

\* A program that creates an entry during a traversal gives the traversal up.
traversal(key) ==
  IF valueat(t, luaH_get(t, key)) = Nil THEN at' = Nil /\ seen' = {} ELSE UNCHANGED <<at, seen>>

Set(key, v) ==
  /\ LET r == luaH_set(t, key) IN t' = put(r[2], r[1], v)
  /\ map' = [map EXCEPT ![normal(key)] = v]
  /\ traversal(key)
SetFails(key) ==
  /\ rehashes(t, key)
  /\ t' = getfreepos(t)[2]
  /\ UNCHANGED map
  /\ traversal(key)

next ==
  LET key == IF findindex(t, at) = -1 THEN <<"error", 0>> ELSE luaH_next(t, at)
  IN /\ at' = key
     /\ seen' = IF key = Nil THEN {} ELSE seen \cup {key}
     /\ UNCHANGED <<t, map>>

\* The collector visits the table before the object a is marked (removeentry of lgc.c).
removeentry(a) ==
  /\ \E n \in 1..sizenode(t) : t.node[n].key = O(a) /\ t.node[n].val = Nil
  /\ t' = [t EXCEPT !.node = [n \in DOMAIN @ |->
             IF @[n].key = O(a) /\ @[n].val = Nil THEN [@[n] EXCEPT !.key = Dead(a)] ELSE @[n]]]
  /\ UNCHANGED <<map, at, seen>>

TNext ==
  \/ \E key \in Keys : \/ \E v \in Values \cup {Nil} : Set(key, v)
                       \/ SetFails(key)
  \/ next
  \/ \E key \in Keys : key[1] = "obj" /\ removeentry(key[2])

-----------------------------------------------------------------------------
Map == INSTANCE TableMap WITH Key <- Normal, Value <- Values, Start <- Nil
\* The table is a map whose traversal neither misses nor repeats an entry, and always
\* finds where it was, even when entries are cleared and their keys die on the way.
IsMap == Map!Spec

\* Whatever moved, grew or failed inside the table, a key has the value it was given.
Lookup == \A k \in Normal : valueat(t, luaH_get(t, k)) = map[k]

\* The length is a border: t[n] is there and t[n + 1] is not.
Border == LET n == luaH_getn(t)
          IN /\ n = 0 \/ luaH_getint(t, n) # Nil
             /\ n = MaxInteger \/ luaH_getint(t, n + 1) = Nil
=============================================================================
