-------------------------------- MODULE Crab --------------------------------
(* The word filter of lua-crab.c: a trie whose nodes are the slots of hash   *)
(* tables. A table keeps its nodes in an array and chains those with the     *)
(* same main position; it doubles when no node is free, which moves every    *)
(* node. A call of the library runs to its end without giving up control.    *)
EXTENDS Integers, FiniteSetsExt, SequencesExt, StarredWords

CONSTANTS
  Runes,      \* the characters of words and messages: numbers
  Bad,        \* an element of a word that is not a number
  Words,      \* the words given to 'insert'
  Lists,      \* the lists of words given to 'open'
  Messages,   \* the messages given to 'filter'
  MaxTables   \* bound: tables are named 1 .. MaxTables

ASSUME CrabAssumption ==
  /\ Runes \subseteq Nat /\ Star \in Nat
  /\ Bad \notin Runes
  /\ Words \subseteq Seq(Runes \cup {Bad})
  /\ Lists \subseteq Seq(Seq(Runes \cup {Bad}))
  /\ Messages \subseteq Seq(Nat)   \* whatever they are, lua_tointeger makes numbers of them
  /\ MaxTables \in Nat

VARIABLES
  table,     \* the tables there are: capacity, nodes, lastfree
  g_dict,    \* the table of the first characters; 0 before the first 'open'
  old        \* the dictionaries that were replaced: never freed

vars == <<table, g_dict, old>>

-----------------------------------------------------------------------------
(* Hash tables. Nodes are numbered from 0; -1 is "no node". *)

initnode == [key |-> 0, next |-> -1, flag |-> "empty", value |-> 0]
tisnil(n) == n.flag = "empty"

emptytable(c) == [capacity |-> c, node |-> [i \in 0 .. c - 1 |-> initnode], lastfree |-> c - 1]
table_new == emptytable(1)

mainposition(t, key) == key % t.capacity

\* The last free node at or before 'lastfree', -1 when there is none.
getfreenode(t) == Max({-1} \cup {i \in 0 .. t.lastfree : tisnil(t.node[i])})

\* The node before node m on the chain that starts at node i, which goes through m.
Before(t, i, m) == LET walk[j \in DOMAIN t.node] ==
                         IF t.node[j].next \in {m, -1} THEN j ELSE walk[t.node[j].next]
                   IN walk[i]

\* Key is put in table t at node 'at'; n is the node that is no longer free.
Placed(t, node, n, key, at) ==
  [t |-> [t EXCEPT !.node = [node EXCEPT ![at].key = key, ![at].flag = "n"],
                   !.lastfree = n],
   at |-> at]

\* table_newkey in a table that has room: the table and the node of the key.
newkey_Unlinked(t, key) ==
  LET mp == mainposition(t, key)
      n == getfreenode(t)
      other == mainposition(t, t.node[mp].key)
  IN IF tisnil(t.node[mp]) THEN Placed(t, t.node, t.lastfree, key, mp)
     ELSE IF other # mp
     THEN Placed(t, [t.node EXCEPT ![n] = t.node[mp], ![mp] = initnode], n, key, mp)
     ELSE Placed(t, [t.node EXCEPT ![n].next = t.node[mp].next, ![mp].next = n], n, key, n)
newkey(t, key) ==
  LET mp == mainposition(t, key)
      n == getfreenode(t)
      other == mainposition(t, t.node[mp].key)
  IN IF tisnil(t.node[mp]) THEN Placed(t, t.node, t.lastfree, key, mp)
     ELSE IF other # mp   \* the node there is not in its main position: move it
     THEN Placed(t, [t.node EXCEPT ![Before(t, other, mp)].next = n,
                                   ![n] = t.node[mp], ![mp] = initnode], n, key, mp)
     ELSE Placed(t, [t.node EXCEPT ![n].next = t.node[mp].next, ![mp].next = n], n, key, n)

\* Node 'from' is put in table t again, with its flag and value.
reinsert_Unmarked(t, from) ==
  LET r == newkey(t, from.key)
  IN [r.t EXCEPT !.node[r.at].value = from.value]
reinsert(t, from) ==
  LET r == newkey(t, from.key)
  IN [r.t EXCEPT !.node[r.at].flag = from.flag, !.node[r.at].value = from.value]

\* All nodes of t in a table of twice its capacity, from the first to the last.
table_expand(t) ==
  LET first[k \in 0 .. t.capacity] ==   \* the first k nodes
        IF k = 0 THEN emptytable(2 * t.capacity)
        ELSE IF tisnil(t.node[k - 1]) THEN first[k - 1]
        ELSE reinsert(first[k - 1], t.node[k - 1])
  IN first[t.capacity]

Full(t, key) == ~ tisnil(t.node[mainposition(t, key)]) /\ getfreenode(t) = -1
table_newkey(t, key) == newkey(IF Full(t, key) THEN table_expand(t) ELSE t, key)

\* The node of the key, or -1: the chain that goes through its main position.
table_get(t, key) ==
  LET walk[i \in DOMAIN t.node] ==
        IF tisnil(t.node[i]) THEN -1
        ELSE IF t.node[i].key = key THEN i
        ELSE IF t.node[i].next < 0 THEN -1
        ELSE walk[t.node[i].next]
  IN walk[mainposition(t, key)]

table_insert(t, key) == LET i == table_get(t, key)
                        IN IF i >= 0 THEN [t |-> t, at |-> i] ELSE table_newkey(t, key)

-----------------------------------------------------------------------------
(* The dictionary. A place is a node of a table: <<table, node>>. *)

Free(T) == (1 .. MaxTables) \ DOMAIN T

\* One step of _dict_insert: from the place of the last character, or the table
\* of first characters, to that of 'rune'.
Step(s, rune) ==
  IF s.ok = FALSE \/ rune = Bad THEN [s EXCEPT !.ok = FALSE]
  ELSE LET last == s.at[2]
           id == IF last = -1 THEN s.at[1] ELSE s.T[s.at[1]].node[last].value
           new == Min(Free(s.T))
           T == IF id # 0 THEN s.T
                ELSE [i \in DOMAIN s.T \cup {new} |->
                        IF i = new THEN table_new
                        ELSE IF i = s.at[1] THEN [s.T[i] EXCEPT !.node[last].value = new]
                        ELSE s.T[i]]
           tmp == IF id # 0 THEN id ELSE new
           r == table_insert(T[tmp], rune)
       IN [ok |-> TRUE, T |-> [T EXCEPT ![tmp] = r.t], at |-> <<tmp, r.at>>]

\* _dict_insert: the word in table 'dict' of the tables T. An element that is
\* not a number stops it half way.
_dict_insert(T, dict, word) ==
  LET after[k \in 0 .. Len(word)] ==   \* the first k characters
        IF k = 0 THEN [ok |-> TRUE, T |-> T, at |-> <<dict, -1>>] ELSE Step(after[k - 1], word[k])
      s == after[Len(word)]
  IN IF s.ok /\ s.at[2] # -1 THEN [s EXCEPT !.T[s.at[1]].node[s.at[2]].flag = "o"] ELSE s

\* The tables of a dictionary: its own, and those below its nodes.
Below(T, S) == {y \in DOMAIN T : \E x \in S : \E i \in DOMAIN T[x].node : T[x].node[i].value = y}
TablesOf(T, dict) ==
  {y \in DOMAIN T : \A S \in SUBSET DOMAIN T : dict \in S /\ Below(T, S) \subseteq S => y \in S}

_dict_close_Root(T, dict) == [id \in DOMAIN T \ {dict} |-> T[id]]
_dict_close(T, dict) == [id \in DOMAIN T \ TablesOf(T, dict) |-> T[id]]

-----------------------------------------------------------------------------
(* The library *)

\* The whole of dict_open's loop, in a new dictionary: it stops at the first
\* word that is not one.
opened(T, dict, ws) ==
  LET after[k \in 0 .. Len(ws)] ==   \* the first k words
        IF k = 0 THEN [ok |-> TRUE, T |-> T, at |-> <<dict, -1>>]
        ELSE IF after[k - 1].ok THEN _dict_insert(after[k - 1].T, dict, ws[k])
        ELSE after[k - 1]
  IN after[Len(ws)]

\* Bound: there are tables enough for the words of ws.
Room(ws) ==
  LET need[k \in 0 .. Len(ws)] == IF k = 0 THEN 0 ELSE need[k - 1] + Max({1, Len(ws[k])}) - 1
  IN Cardinality(Free(table)) > need[Len(ws)]

\* crab.open: a list of words, the new dictionary. Some word may be wrong: then
\* the tables made so far are freed and the old dictionary stays.
dict_open(ws) ==
  LET dict == Min(Free(table))
      s == opened([id \in DOMAIN table \cup {dict} |-> IF id = dict THEN table_new ELSE table[id]],
                  dict, ws)
  IN /\ Room(ws)
     /\ IF s.ok
        THEN /\ table' = s.T
             /\ g_dict' = dict
             /\ old' = old \cup ({g_dict} \ {0})
        ELSE /\ table' = _dict_close(s.T, dict)
             /\ UNCHANGED <<g_dict, old>>

\* crab.insert: one more word. A wrong one leaves what was inserted of it.
dict_insert(w) ==
  /\ g_dict # 0 /\ Room(<<w>>)
  /\ table' = _dict_insert(table, g_dict, w).T
  /\ UNCHANGED <<g_dict, old>>

\* The last character of the longest word of the dictionary at place i of msg, 0
\* when there is none.
Match_First(msg, i) ==
  LET last[j \in 1 .. Len(msg) + 1] == [id \in DOMAIN table |->
        IF j > Len(msg) THEN 0
        ELSE LET n == table_get(table[id], msg[j])
                 node == table[id].node[n]
             IN IF n = -1 THEN 0
                ELSE IF node.flag = "o" THEN j
                ELSE IF node.value = 0 THEN 0 ELSE last[j + 1][node.value]]
  IN last[i][g_dict]
Match(msg, i) ==
  LET last[j \in 1 .. Len(msg) + 1] == [id \in DOMAIN table |->   \* from table id on
        IF j > Len(msg) THEN 0
        ELSE LET n == table_get(table[id], msg[j])
                 node == table[id].node[n]
                 longer == IF node.value = 0 THEN 0 ELSE last[j + 1][node.value]
             IN IF n = -1 THEN 0
                ELSE IF longer > 0 THEN longer
                ELSE IF node.flag = "o" THEN j ELSE 0]
  IN last[i][g_dict]

\* crab.filter: the places of the message that are starred out, from place i on.
\* The message is changed on the way, but only before the place looked at.
stars(msg) ==
  LET from[i \in 1 .. Len(msg) + 1] ==
        IF i > Len(msg) THEN {}
        ELSE LET last == Match(msg, i)
             IN IF last > 0 THEN i .. last \cup from[last + 1] ELSE from[i + 1]
  IN from[1]
dict_filter(msg) ==
  LET S == stars(msg)
  IN [msg |-> [k \in DOMAIN msg |-> IF k \in S THEN Star ELSE msg[k]], flag |-> S # {}]

-----------------------------------------------------------------------------

Init == table = <<>> /\ g_dict = 0 /\ old = {}

Next == \/ \E ws \in Lists : dict_open(ws)
        \/ \E w \in Words : dict_insert(w)
        \/ g_dict # 0 /\ UNCHANGED vars   \* crab.filter changes its message only
Spec == Init /\ [][Next]_vars

-----------------------------------------------------------------------------
(* Properties *)

\* Types.
TypeOK ==
  /\ DOMAIN table \subseteq 1 .. MaxTables
  /\ g_dict \in DOMAIN table \cup {0}
  /\ old \subseteq DOMAIN table
  /\ \A id \in DOMAIN table :
       LET t == table[id]
       IN /\ t.lastfree \in -1 .. t.capacity - 1
          /\ DOMAIN t.node = 0 .. t.capacity - 1
          /\ \A i \in DOMAIN t.node : t.node[i].next \in -1 .. t.capacity - 1
                                     /\ t.node[i].value \in {0} \cup DOMAIN table

\* However keys collide, move and are put in bigger tables, every key of a table
\* is found, once, from its main position, and no node behind 'lastfree' is free.
Found ==
  \A id \in DOMAIN table :
    LET t == table[id]
    IN /\ \A i \in DOMAIN t.node : ~ tisnil(t.node[i]) => table_get(t, t.node[i].key) = i
       /\ \A i \in t.lastfree + 1 .. t.capacity - 1 : ~ tisnil(t.node[i])

\* Tables are well formed and lose none of their keys.
TablesRight == TypeOK /\ Found

\* Every table is in one dictionary, below one node: a table is never shared,
\* and never lost, not even by a call of 'open' that fails half way.
Trie ==
  /\ \A id \in DOMAIN table :
       Cardinality({x \in UNION {{y} \X DOMAIN table[y].node : y \in DOMAIN table} :
                      table[x[1]].node[x[2]].value = id})
         = IF id \in old \cup {g_dict} THEN 0 ELSE 1
  /\ DOMAIN table = UNION {TablesOf(table, d) : d \in old \cup ({g_dict} \ {0})}

\* The words of the dictionary: those its terminators spell.
Spelled ==
  IF g_dict = 0 THEN {} ELSE
  LET below[id \in DOMAIN table] ==
        UNION {LET node == table[id].node[i]
               IN (IF node.flag = "o" THEN {<<node.key>>} ELSE {})
                  \cup (IF node.value = 0 THEN {}
                        ELSE {<<node.key>> \o w : w \in below[node.value]})
               : i \in DOMAIN table[id].node}
  IN below[g_dict]

\* The dictionary holds the words given to it, whatever the order they come in,
\* the words that are the beginning of others, and the calls that fail.
IsWord(w) == Bad \notin ToSet(w)
WF == INSTANCE WordFilter WITH
        words <- Spelled,
        Words <- {w \in Words : IsWord(w)},
        Lists <- {ToSet(ws) : ws \in {l \in Lists : \A w \in ToSet(l) : IsWord(w)}}
Implements == WF!Spec

\* The filter stars out the longest word of the dictionary at each place, from
\* the first character to the last.
FiltersWords ==
  g_dict # 0 => \A msg \in Messages :
    /\ dict_filter(msg).msg = Starred(Spelled, msg)
    /\ dict_filter(msg).flag = AnyStarred(Spelled, msg)
=============================================================================
