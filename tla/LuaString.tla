------------------------------ MODULE LuaString ------------------------------
(* Short strings (lstring.c): one object for each content, found through the *)
(* string table, which grows and shrinks, and the cache of luaS_new; with a  *)
(* collector, which frees what the program holds no more, one at a time.     *)
EXTENDS Integers, Sequences, FiniteSets, SequencesExt, FiniteSetsExt

CONSTANTS
  Objects,       \* addresses of strings: 1..n
  Hash,          \* the hash of every content
  MEMERRMSG,     \* the content of the string that is never collected
  Sizes,         \* initial sizes of the table (MINSTRTABSIZE)
  Rows,          \* rows of the cache (STRCACHE_N)
  Nothing        \* no content

ASSUME StringAssumption ==
  /\ IsFiniteSet(Objects) /\ Objects \subseteq Nat /\ 1 \in Objects
  /\ \A c \in DOMAIN Hash : Hash[c] \in Nat
  /\ MEMERRMSG \in DOMAIN Hash /\ Nothing \notin DOMAIN Hash
  /\ Sizes \subseteq Nat \ {0}

VARIABLES
  g,       \* [hash, content, color, cache, gcstate, unswept]; chains count from 1; a color is
           \* "white" (the current one), "dead" (the other white), "black" or "free"
  held     \* strings that the program holds

strvars == <<g, held>>

size(s) == Len(s.hash)
nuse(s) == Cardinality({o \in Objects : s.color[o] # "free"})
lmod(h, n) == 1 + (h % n)
position(s, o, n) == lmod(Hash[s.content[o]], n)
STRCACHE_M == 2

\* The chains of n lists that get the strings in their order, each at the head of its list.
rehashed(s, n) ==
  LET nodes == FlattenSeq(s.hash)
      lists[k \in 0..Len(nodes)] ==
        IF k = 0 THEN [i \in 1..n |-> <<>>]
        ELSE [lists[k - 1] EXCEPT ![position(s, nodes[k], n)] = <<nodes[k]>> \o @]
  IN lists[Len(nodes)]
luaS_resize(s, n) == [s EXCEPT !.hash = rehashed(s, n)]
luaS_remove(s, o) == [s EXCEPT !.hash[position(s, o, size(s))] = RemoveFirst(@, o)]

\* The memory-error message, which is the first string and stays gray.
msg == 1
cleared_Dead(s, o) == IF s.color[o] = "dead" THEN msg ELSE o
cleared(s, o) == IF s.color[o] = "white" THEN msg ELSE o
luaS_clearcache(s) == [s EXCEPT !.cache = [r \in Rows |-> [j \in 1..STRCACHE_M |-> cleared(s, @[r][j])]]]

luaS_init(n) ==
  [hash |-> [i \in 1..n |-> IF i = lmod(Hash[MEMERRMSG], n) THEN <<msg>> ELSE <<>>],
   content |-> [o \in Objects |-> IF o = msg THEN MEMERRMSG ELSE Nothing],
   color |-> [o \in Objects |-> IF o = msg THEN "black" ELSE "free"],
   cache |-> [r \in Rows |-> [j \in 1..STRCACHE_M |-> msg]],
   gcstate |-> "propagate", unswept |-> {}]

-----------------------------------------------------------------------------
(* The collector *)

\* The end of the atomic phase: what is held is marked, the colours are exchanged.
atomic(s, roots) ==
  LET c == luaS_clearcache([s EXCEPT !.color = [o \in Objects |-> IF o \in roots THEN "black" ELSE @[o]]])
  IN [c EXCEPT !.color = [o \in Objects |-> IF @[o] = "white" THEN "dead" ELSE @[o]],
               !.gcstate = "sweep", !.unswept = {o \in Objects : c.color[o] # "free"} \ {msg}]
sweep(s, o) ==
  LET t == [s EXCEPT !.unswept = @ \ {o}]
  IN IF s.color[o] = "dead" THEN [luaS_remove(t, o) EXCEPT !.color[o] = "free", !.content[o] = Nothing]
     ELSE [t EXCEPT !.color[o] = "white"]
checkSizes(s) == IF nuse(s) < size(s) \div 4 THEN luaS_resize(s, size(s) \div 2) ELSE s
swept(s) ==
  LET list == SetToSeq(s.unswept)
      after[k \in 0..Len(list)] == IF k = 0 THEN s ELSE sweep(after[k - 1], list[k])
  IN after[Len(list)]
\* An emergency collection: what was marked is swept to white, and all begins anew. The
\* table keeps its size.
luaC_fullgc(s) ==
  LET white == IF s.gcstate = "sweep" THEN swept(s)
               ELSE [s EXCEPT !.color = [o \in Objects |-> IF @[o] = "free" \/ o = msg THEN @[o] ELSE "white"]]
      done == swept(atomic(white, held))
  IN [done EXCEPT !.gcstate = "propagate"]

-----------------------------------------------------------------------------
(* Strings that the program asks for. An allocation may start an emergency   *)
(* collection: when the table grows, and when the object is created.         *)

revived_Not(s, o) == s
revived(s, o) == IF s.color[o] = "dead" THEN [s EXCEPT !.color[o] = "white"] ELSE s
collected(s, emergency) == IF emergency THEN luaC_fullgc(s) ELSE s
createstrobj(s, c) ==
  LET o == Min({p \in Objects : s.color[p] = "free"})
      t == [s EXCEPT !.content[o] = c, !.color[o] = "white"]
  IN [s |-> [t EXCEPT !.hash[position(t, o, size(t))] = <<o>> \o @], o |-> o]
internshrstr(s, c, growing, creating) ==
  LET list == s.hash[lmod(Hash[c], size(s))]
      found == SelectInSeq(list, LAMBDA o : s.content[o] = c)
      grown == IF nuse(s) >= size(s) THEN luaS_resize(collected(s, growing), 2 * size(s)) ELSE s
  IN IF found # 0 THEN [s |-> revived(s, list[found]), o |-> list[found]]
     ELSE createstrobj(collected(grown, creating), c)

\* There is memory for another string.
Room(s) == \E o \in Objects : s.color[o] = "free"
luaS_newlstr(c, growing, creating) ==
  LET r == internshrstr(g, c, growing, creating)
  IN /\ Room(g)
     /\ g' = r.s /\ held' = held \cup {r.o}
\* Through the cache, by the address that the content is at.
moved(s, row) == [s EXCEPT !.cache[row] = <<@[1]>> \o SubSeq(@, 1, STRCACHE_M - 1)]
luaS_new(row, c, growing, creating) ==
  LET hit == SelectInSeq(g.cache[row], LAMBDA o : g.content[o] = c)
      r == internshrstr(moved(g, row), c, growing, creating)
  IN IF hit # 0 THEN held' = held \cup {g.cache[row][hit]} /\ UNCHANGED g
     ELSE /\ Room(g)
          /\ g' = [r.s EXCEPT !.cache[row][1] = r.o] /\ held' = held \cup {r.o}
\* When memory runs out, an element was moved in the cache already.
luaS_new_fails(row, c) ==
  /\ \A o \in Objects : g.color[o] # "free" => g.content[o] # c
  /\ g' = luaC_fullgc(moved(g, row))
  /\ UNCHANGED held

drop(o) == o \in held /\ held' = held \ {o} /\ UNCHANGED g
mark(o) == /\ g.gcstate = "propagate" /\ o \in held /\ g.color[o] = "white"
           /\ g' = [g EXCEPT !.color[o] = "black"] /\ UNCHANGED held
endmark == g.gcstate = "propagate" /\ g' = atomic(g, held) /\ UNCHANGED held
sweepstep(o) == o \in g.unswept /\ g' = sweep(g, o) /\ UNCHANGED held
endsweep == /\ g.gcstate = "sweep" /\ g.unswept = {}
            /\ g' = [checkSizes(g) EXCEPT !.gcstate = "propagate"] /\ UNCHANGED held

StrInit == held = {} /\ \E n \in Sizes : g = luaS_init(n)
StrNext ==
  \/ \E c \in DOMAIN Hash, growing, creating \in BOOLEAN :
       \/ luaS_newlstr(c, growing, creating)
       \/ \E row \in Rows : luaS_new(row, c, growing, creating)
  \/ \E row \in Rows, c \in DOMAIN Hash : luaS_new_fails(row, c)
  \/ \E o \in Objects : drop(o) \/ mark(o) \/ sweepstep(o)
  \/ endmark
  \/ endsweep
StrSpec == StrInit /\ [][StrNext]_strvars

-----------------------------------------------------------------------------
Exists(o) == g.color[o] # "free"
Kept == held \cup {msg} \cup UNION {ToSet(g.cache[r]) : r \in Rows}

\* Equal strings are one object, dead or not, however the collector, a resizing and the
\* cache come between their creations; every string is in its chain, once; nothing that the
\* program holds, or that the cache may give out, is or is going to be freed.
OneStringEach ==
  /\ \A o, p \in Objects : Exists(o) /\ g.content[o] = g.content[p] => o = p
  /\ \A n \in 1..size(g) :
       /\ ToSet(g.hash[n]) = {o \in Objects : Exists(o) /\ position(g, o, size(g)) = n}
       /\ IsInjective(g.hash[n])
  /\ \A o \in Kept : g.color[o] \in {"white", "black"}
=============================================================================
