------------------------------ MODULE LuaUpval ------------------------------
(* Lua closures and their upvalues (lfunc.c), the operations of the virtual  *)
(* machine and of the API on them, and the part the collector has in them.   *)
(* A captured variable lives in the stack of its thread while its upvalue is *)
(* open, and in the upvalue itself once that is closed. Upvalues are not     *)
(* objects of the collector: closures count their references, and the        *)
(* collector finds an open one in a thread it did not mark only through the  *)
(* list 'twups' and the mark 'touched'.                                      *)
EXTENDS Naturals, FiniteSets, SequencesExt

CONSTANTS
  Nil,          \* no value
  MainThread,   \* g->mainthread
  Coroutines,   \* the other threads there can be
  Closures,     \* the Lua closures there can be
  Protos,       \* the prototypes, nested in that of a function that stays in use
  Desc,         \* Desc[p]: the Upvaldesc of each upvalue of prototype p
  NUpval,       \* bound: upvalues are named 1 .. NUpval
  StackSize,    \* bound: slots of the stack of a thread
  JoinSelf      \* whether a program joins an upvalue with itself

Threads == Coroutines \cup {MainThread}
Values == Closures \cup Threads
Obj == Values \cup Protos
UpVal == 1 .. NUpval

ASSUME UpvalAssumption ==
  /\ NUpval \in Nat /\ StackSize \in Nat \ {0}
  /\ JoinSelf \in BOOLEAN
  /\ \A p \in Protos : Desc[p] \in Seq([instack : BOOLEAN, idx : 1 .. StackSize])

\* Objects have one type.
ASSUME ObjectsAssumption ==
  /\ Nil \notin Obj /\ MainThread \notin Coroutines
  /\ Closures \cap Threads = {} /\ Protos \cap Values = {}

VARIABLES
  \* the program
  stack,      \* stack[th]: the slots of a thread, up to its top
  L,          \* the running thread
  proto,      \* cl->p
  upvals,     \* cl->upvals
  cache,      \* p->cache: the last closure made from a prototype
  \* the upvalues
  at,         \* uv->v: the thread and slot it points to; or Own, Freed
  value,      \* uv->u.value
  refcount,   \* uv->refcount
  touched,    \* uv->u.open.touched
  openupval,  \* L->openupval
  twups,      \* g->twups: the threads with open upvalues
  \* the collector
  gcstate,    \* "pause", "propagate" or "sweep"
  color,      \* 'marked', "free" when there is no such object
  gray,       \* g->gray; a gray thread that is not in it is in g->grayagain
  unswept     \* the objects at or after g->sweepgc

uvs == <<at, value, refcount, touched, openupval, twups>>
code == <<proto, upvals, cache>>
gc == <<gcstate, color, gray, unswept>>
vars == <<stack, L, code, uvs, gc>>

-----------------------------------------------------------------------------
(* Upvalues (lfunc.c) *)

iswhite(o) == color[o] \in {"white", "dead"}
keepinvariant == gcstate = "propagate"
Live(o) == color[o] \notin {"free", "dead"}
Exists(o) == color[o] # "free"

Freed == <<>>    \* there is no such upvalue
Own == <<0>>     \* it is closed: uv->v = &uv->u.value
upisopen(u) == Len(at[u]) = 2
ThreadOf(u) == at[u][1]
LevelOf(u) == at[u][2]

\* *uv->v: the value of the variable.
ValueOf(u) == IF upisopen(u) THEN stack[ThreadOf(u)][LevelOf(u)] ELSE value[u]

\* How many upvalues at the head of an open list are at 'level' or above, when the
\* upvalues point to 'where'.
Above(open, where, level) ==
  CHOOSE n \in 0 .. Len(open) :
    /\ \A i \in 1 .. n : where[open[i]][2] >= level
    /\ n < Len(open) => where[open[n + 1]][2] < level

\* The open upvalues of a thread that luaF_close takes out of its list, and the list
\* that is left.
Closing(th, level) == {openupval[th][i] : i \in 1 .. Above(openupval[th], at, level)}
Lower(th, level) ==
  SubSeq(openupval[th], Above(openupval[th], at, level) + 1, Len(openupval[th]))

luaF_close_NoCopy(th, level) ==
  LET S == Closing(th, level)
      K == {u \in S : refcount[u] > 0}
  IN /\ openupval' = [openupval EXCEPT ![th] = Lower(th, level)]
     /\ at' = [u \in UpVal |-> IF u \in K THEN Own ELSE IF u \in S THEN Freed ELSE at[u]]
     /\ touched' = [u \in UpVal |-> touched[u] /\ u \notin S]
     /\ UNCHANGED value

\* Closes the upvalues of th at 'level' and above: each takes the value of its
\* slot with it (over 'touched': they share a union), unless no closure refers
\* to it any more.
luaF_close(th, level) ==
  LET S == Closing(th, level)
      K == {u \in S : refcount[u] > 0}
  IN /\ openupval' = [openupval EXCEPT ![th] = Lower(th, level)]
     /\ at' = [u \in UpVal |-> IF u \in K THEN Own ELSE IF u \in S THEN Freed ELSE at[u]]
     /\ touched' = [u \in UpVal |-> touched[u] /\ u \notin S]
     /\ value' = [u \in UpVal |-> IF u \in K THEN ValueOf(u) ELSE value[u]]

\* 'markobject' on the values in S.
Marking(S) ==
  LET M == {o \in S \ {Nil} : iswhite(o)}
  IN /\ color' = [o \in Obj |-> IF o \in M THEN "gray" ELSE color[o]]
     /\ gray' = gray \cup M

\* The barrier of closed upvalues that got the values in S.
luaC_upvalbarrier(S) == IF keepinvariant THEN Marking(S) ELSE UNCHANGED <<color, gray>>

\* The upvalue of slot 'level' of th in a state s of the open list and of 'at':
\* the one there is, or a new one put where the order of levels wants it.
luaF_findupval(s, th, level) ==
  LET n == Above(s.open, s.at, level)
      hit == n > 0 /\ s.at[s.open[n]][2] = level
      u == IF hit THEN s.open[n] ELSE Min({x \in UpVal : s.at[x] = Freed})
  IN [open  |-> IF hit THEN s.open ELSE InsertAt(s.open, n + 1, u),
      at    |-> [s.at EXCEPT ![u] = <<th, level>>],
      found |-> Append(s.found, u)]

\* The reference counts when one more closure has the upvalues of us.
Increased(us) == [u \in UpVal |-> refcount[u] + Cardinality({i \in DOMAIN us : us[i] = u})]

\* luaC_upvdeccount on the upvalues of us: the reference counts that are left,
\* and which upvalues are freed with the last reference.
Decreased(us) == [u \in UpVal |-> refcount[u] - Cardinality({i \in DOMAIN us : us[i] = u})]
Orphans(us) == {u \in ToSet(us) : Decreased(us)[u] = 0 /\ ~ upisopen(u)}
luaC_upvdeccount(us) ==
  /\ refcount' = Decreased(us)
  /\ at' = [u \in UpVal |-> IF u \in Orphans(us) THEN Freed ELSE at[u]]
  /\ value' = [u \in UpVal |-> IF u \in Orphans(us) THEN Nil ELSE value[u]]

-----------------------------------------------------------------------------
(* The program. AtHand: what the running thread can name; Running: the       *)
(* closures that can be the running function or be given to the API.         *)

AtHand == ToSet(stack[L])
Running == AtHand \cap Closures
top == Len(stack[L])
Room == top < StackSize
push(x) == stack' = [stack EXCEPT ![L] = Append(@, x)]
NewObj == {o \in Obj : color[o] = "free"}
free == {u \in UpVal : at[u] = Freed}

\* A new local variable, or a temporary.
pushlocal(x) == Room /\ push(x) /\ UNCHANGED <<L, code, uvs, gc>>

\* A local variable is assigned (captured or not: the stack has no barrier).
setlocal(i, x) ==
  /\ stack' = [stack EXCEPT ![L][i] = x]
  /\ UNCHANGED <<L, code, uvs, gc>>

\* lua_newthread
newthread(th) ==
  /\ Room
  /\ color' = [color EXCEPT ![th] = "white"]
  /\ stack' = [stack EXCEPT ![L] = Append(@, th), ![th] = <<>>]
  /\ UNCHANGED <<L, code, uvs, gcstate, gray, unswept>>

\* OP_GETUPVAL, lua_getupvalue
getupval(c, i) == Room /\ push(ValueOf(upvals[c][i])) /\ UNCHANGED <<L, code, uvs, gc>>

\* OP_SETUPVAL, lua_setupvalue: an open upvalue needs no barrier.
setupval(c, i, x) ==
  LET u == upvals[c][i]
  IN /\ IF upisopen(u)
        THEN /\ stack' = [stack EXCEPT ![ThreadOf(u)][LevelOf(u)] = x]
             /\ UNCHANGED <<value, color, gray>>
        ELSE /\ value' = [value EXCEPT ![u] = x]
             /\ luaC_upvalbarrier({x})
             /\ UNCHANGED stack
     /\ UNCHANGED <<L, code, at, refcount, touched, openupval, twups, gcstate, unswept>>

\* The upvalues a closure of p gets when made by a function with frame 'base'
\* and upvalues 'enc' (pushclosure), one after the other.
capture(s, d, enc, base) ==
  IF d.instack THEN luaF_findupval(s, L, base + d.idx)
  ELSE [s EXCEPT !.found = Append(@, enc[d.idx])]
Captured(p, enc, base) ==
  LET step[n \in 0 .. Len(Desc[p])] ==
        IF n = 0 THEN [open |-> openupval[L], at |-> at, found |-> <<>>]
        ELSE capture(step[n - 1], Desc[p][n], enc, base)
  IN step[Len(Desc[p])]

\* Two upvalues that are the same variable: uv->v is the same.
SameVar(u, w) == u = w \/ (upisopen(u) /\ at[u] = at[w])

\* The cached closure of p, when it has the variables the new one would have.
getcached_AnyUpvalues(p, enc, base) == {c \in {cache[p]} \ {Nil} : TRUE}
getcached(p, enc, base) ==
  {c \in {cache[p]} \ {Nil} :
     \A i \in DOMAIN Desc[p] :
        LET d == Desc[p][i]
        IN IF d.instack THEN at[upvals[c][i]] = <<L, base + d.idx>>
           ELSE SameVar(upvals[c][i], enc[d.idx])}

\* A variable p captures from the frame at 'base' is one that frame has.
Capturable(p, enc, base) ==
  \A i \in DOMAIN Desc[p] : LET d == Desc[p][i]
                            IN IF d.instack THEN base + d.idx <= top ELSE d.idx \in DOMAIN enc
NewUpvals(p, base) ==
  {base + Desc[p][i].idx : i \in {j \in DOMAIN Desc[p] : Desc[p][j].instack}}
    \ {LevelOf(openupval[L][i]) : i \in DOMAIN openupval[L]}

pushclosure_CacheBlack(p, c) == cache' = [cache EXCEPT ![p] = c]
pushclosure(p, c) == cache' = IF color[p] = "black" THEN cache ELSE [cache EXCEPT ![p] = c]

\* OP_CLOSURE run by a function with upvalues 'enc': c is the closure pushed.
closure(p, enc, base, c) ==
  /\ Room /\ Capturable(p, enc, base)
  /\ IF getcached(p, enc, base) # {}
     THEN /\ c \in getcached(p, enc, base)
          /\ UNCHANGED <<code, uvs, gc>>
     ELSE LET s == Captured(p, enc, base)
          IN /\ c \in NewObj
             /\ Cardinality(NewUpvals(p, base)) <= Cardinality(free)
             /\ color' = [color EXCEPT ![c] = "white"]
             /\ proto' = [proto EXCEPT ![c] = p]
             /\ upvals' = [upvals EXCEPT ![c] = s.found]
             /\ at' = s.at
             /\ openupval' = [openupval EXCEPT ![L] = s.open]
             /\ touched' = [u \in UpVal |-> touched[u] \/ s.at[u] # at[u]]
             /\ refcount' = Increased(s.found)
             /\ twups' = IF s.open # openupval[L] THEN twups \cup {L} ELSE twups
             /\ pushclosure(p, c)
             /\ UNCHANGED <<value, gcstate, gray, unswept>>
  /\ push(c) /\ UNCHANGED L

\* n upvalues that are not in use.
NewUpvalues(n) == CHOOSE us \in [1 .. n -> free] : \A i, j \in 1 .. n : us[i] = us[j] => i = j

\* lua_load: the main function of a chunk, with prototype p, gets new, closed
\* upvalues (luaF_initupvals).
load(p, c) ==
  LET us == NewUpvalues(Len(Desc[p]))
  IN /\ Room /\ Cardinality(free) >= Len(Desc[p])
     /\ color' = [color EXCEPT ![c] = "white"]
     /\ proto' = [proto EXCEPT ![c] = p]
     /\ upvals' = [upvals EXCEPT ![c] = us]
     /\ at' = [u \in UpVal |-> IF u \in ToSet(us) THEN Own ELSE at[u]]
     /\ value' = [u \in UpVal |-> IF u \in ToSet(us) THEN Nil ELSE value[u]]
     /\ refcount' = [u \in UpVal |-> IF u \in ToSet(us) THEN 1 ELSE refcount[u]]
     /\ push(c)
     /\ UNCHANGED <<L, cache, touched, openupval, twups, gcstate, gray, unswept>>

\* A block, a function or a protected call is left: the variables from 'level'
\* on are closed and their slots given up; r is the value that is returned.
leave(level, r) ==
  /\ luaF_close(L, level)
  /\ luaC_upvalbarrier({ValueOf(u) : u \in {x \in Closing(L, level) : refcount[x] > 0}})
  /\ stack' = [stack EXCEPT ![L] = SubSeq(@, 1, level - 1) \o r]
  /\ UNCHANGED <<L, code, refcount, twups, gcstate, unswept>>

\* Upvalue i of c is made to refer to upvalue j of d: the old one is let go
\* first, which frees it when nobody else refers to it.
lua_upvaluejoin(c, i, d, j) ==
  LET u == upvals[c][i]
      v == upvals[d][j]
  IN /\ u = v => JoinSelf
     /\ upvals' = [upvals EXCEPT ![c][i] = v]
     /\ refcount' = [Decreased(<<u>>) EXCEPT ![v] = @ + 1]
     /\ at' = [x \in UpVal |-> IF x \in Orphans(<<u>>) THEN Freed ELSE at[x]]
     /\ value' = [x \in UpVal |-> IF x \in Orphans(<<u>>) THEN Nil ELSE value[x]]
     /\ touched' = IF upisopen(v) THEN [touched EXCEPT ![v] = TRUE] ELSE touched
     /\ luaC_upvalbarrier(IF upisopen(v) THEN {} ELSE {ValueOf(v)})
     /\ UNCHANGED <<stack, L, proto, cache, openupval, twups, gcstate, unswept>>

\* The running thread changes, taking the values of X along: a coroutine is
\* resumed by the main thread, or gives way to it (yield, its end, or an error
\* in it, which closes nothing).
switch(to, X) ==
  /\ Len(stack[to]) + Len(X) <= StackSize
  /\ L' = to
  /\ stack' = [stack EXCEPT ![to] = @ \o X]
  /\ UNCHANGED <<code, uvs, gc>>
resume(co, X) == L = MainThread /\ co \in AtHand /\ switch(co, X)
yield(X) == L # MainThread /\ switch(MainThread, X)

One == {<<>>} \cup {<<x>> : x \in AtHand \ {Nil}}
Enclosing == {upvals[c] : c \in Running} \cup {<<>>}

mutator ==
  \/ \E x \in AtHand \cup {Nil} : pushlocal(x)
  \/ \E i \in 1 .. top, x \in AtHand \cup {Nil} : setlocal(i, x)
  \/ \E th \in NewObj \cap Coroutines : newthread(th)
  \/ \E c \in Running : \E i \in DOMAIN upvals[c] :
        \/ getupval(c, i)
        \/ \E x \in AtHand \cup {Nil} : setupval(c, i, x)
        \/ \E d \in Running : \E j \in DOMAIN upvals[d] : lua_upvaluejoin(c, i, d, j)
  \/ \E p \in Protos, enc \in Enclosing, base \in 0 .. StackSize, c \in Closures :
        closure(p, enc, base, c)
  \/ \E p \in Protos, c \in NewObj \cap Closures : load(p, c)
  \/ \E level \in 1 .. top, r \in One : leave(level, r)
  \/ \E X \in One : yield(X) \/ \E co \in Coroutines : resume(co, X)

-----------------------------------------------------------------------------
(* The collector *)

Roots == Protos \cup {MainThread}
marked == {o \in Obj : color[o] \in {"gray", "black"}}

\* GCSpause
restartcollection ==
  /\ gcstate = "pause"
  /\ gcstate' = "propagate"
  /\ color' = [o \in Obj |-> IF o \in Roots THEN "gray" ELSE color[o]]
  /\ gray' = Roots
  /\ UNCHANGED <<stack, L, code, uvs, unswept>>

\* The upvalues of a closure: the value of an open one is left to its thread.
OpenOf(c) == {u \in ToSet(upvals[c]) : upisopen(u)}
ClosedOf(c) == ToSet(upvals[c]) \ OpenOf(c)

\* propagatemark on o, an element of the gray list. Threads stay gray and go to
\* 'grayagain'.
propagatemark(o) ==
  LET refs == CASE o \in Threads  -> ToSet(stack[o])
                [] o \in Closures -> {ValueOf(u) : u \in ClosedOf(o)} \cup {proto[o]}
                [] o \in Protos   -> {}
      M == {x \in refs \ {Nil} : iswhite(x)}
  IN /\ gcstate = "propagate" /\ o \in gray
     /\ color' = [x \in Obj |-> IF x = o /\ o \notin Threads THEN "black"
                                ELSE IF x \in M THEN "gray" ELSE color[x]]
     /\ gray' = (gray \ {o}) \cup M
     /\ touched' = IF o \in Closures
                   THEN [u \in UpVal |-> touched[u] \/ u \in OpenOf(o)]
                   ELSE touched
     /\ cache' = IF o \in Protos /\ cache[o] # Nil /\ iswhite(cache[o])
                 THEN [cache EXCEPT ![o] = Nil]
                 ELSE cache
     /\ UNCHANGED <<stack, L, proto, upvals, at, value, refcount, openupval, twups, gcstate, unswept>>

\* remarkupvals: M holds the marked objects. The threads that leave 'twups'.
LeavingTwups(M) == {th \in twups : th \notin M \/ openupval[th] = <<>>}
OpenIn(T) == UNION {ToSet(openupval[th]) : th \in T}
Remarked_None(M) == {}
Remarked_Threads(M) == LeavingTwups(M)
Remarked(M) == {ValueOf(u) : u \in {x \in OpenIn(LeavingTwups(M)) : touched[x]}}

\* What the marks of S reach when they are propagated inside the atomic phase:
\* closures met now mark the values of their open upvalues too. 'done' are the
\* closures traversed before.
AtomicRefs(o) == CASE o \in Threads  -> ToSet(stack[o])
                   [] o \in Closures -> {ValueOf(u) : u \in ToSet(upvals[o])}
                   [] o \in Protos   -> {}
Reach(S, done) ==
  LET closed == {C \in {S \cup X : X \in SUBSET (Values \ S)} :
                   \A o \in C \ done : AtomicRefs(o) \ {Nil} \subseteq C}
  IN {o \in Obj : \A C \in closed : o \in C}

\* The atomic phase: mark the running thread, remark open upvalues, traverse
\* every thread again, flip the white; the sweep starts.
atomic ==
  LET M0 == marked \cup {L}
      M == Reach(M0 \cup (Remarked(M0) \ {Nil}), {o \in Closures : color[o] = "black"})
      out == LeavingTwups(M0)
  IN /\ gcstate = "propagate" /\ gray = {}
     /\ gcstate' = "sweep"
     /\ touched' = [u \in UpVal |-> touched[u] /\ u \notin OpenIn(out)]
     /\ twups' = (twups \ out) \cup {th \in M \cap Threads : openupval[th] # <<>>}
     /\ color' = [o \in Obj |-> IF color[o] = "free" THEN "free"
                                ELSE IF o \notin M THEN "dead"
                                ELSE IF o \in Threads THEN "gray" ELSE "black"]
     /\ unswept' = {o \in Obj : Exists(o)} \ {MainThread}
     /\ UNCHANGED <<stack, L, code, at, value, refcount, openupval, gray>>

\* freeLclosure and luaE_freethread
freeLclosure_KeepsCounts(c) ==
  /\ proto' = [proto EXCEPT ![c] = Nil] /\ upvals' = [upvals EXCEPT ![c] = <<>>]
  /\ UNCHANGED <<refcount, at, value, touched, openupval>>
freeLclosure(c) ==
  /\ proto' = [proto EXCEPT ![c] = Nil] /\ upvals' = [upvals EXCEPT ![c] = <<>>]
  /\ luaC_upvdeccount(upvals[c])
  /\ UNCHANGED <<touched, openupval>>
luaE_freethread(th) ==
  /\ luaF_close(th, 1)
  /\ stack' = [stack EXCEPT ![th] = <<>>]
  /\ UNCHANGED refcount
freeobj(o) == \/ o \in Closures /\ freeLclosure(o) /\ UNCHANGED stack
              \/ o \in Threads /\ luaE_freethread(o) /\ UNCHANGED <<proto, upvals>>

\* sweeplist on o: a dead object is freed, any other turns white.
sweepstep(o) ==
  /\ gcstate = "sweep" /\ o \in unswept
  /\ unswept' = unswept \ {o}
  /\ IF color[o] = "dead"
     THEN color' = [color EXCEPT ![o] = "free"] /\ freeobj(o)
     ELSE /\ color' = [color EXCEPT ![o] = "white"]
          /\ UNCHANGED <<stack, proto, upvals, at, value, refcount, touched, openupval>>
  /\ UNCHANGED <<L, cache, twups, gcstate, gray>>

\* GCSswpend
endcycle ==
  /\ gcstate = "sweep" /\ unswept = {}
  /\ gcstate' = "pause"
  /\ color' = [color EXCEPT ![MainThread] = "white"]
  /\ UNCHANGED <<stack, L, code, uvs, gray, unswept>>

collector == \/ restartcollection \/ atomic \/ endcycle
             \/ \E o \in Obj : propagatemark(o) \/ sweepstep(o)

-----------------------------------------------------------------------------

Init ==
  /\ stack = [th \in Threads |-> <<>>] /\ L = MainThread
  /\ proto = [c \in Closures |-> Nil] /\ upvals = [c \in Closures |-> <<>>]
  /\ cache = [p \in Protos |-> Nil]
  /\ at = [u \in UpVal |-> Freed] /\ value = [u \in UpVal |-> Nil]
  /\ refcount = [u \in UpVal |-> 0] /\ touched = [u \in UpVal |-> FALSE]
  /\ openupval = [th \in Threads |-> <<>>] /\ twups = {}
  /\ gcstate = "pause" /\ gray = {} /\ unswept = {}
  /\ color = [o \in Obj |-> IF o \in Roots THEN "white" ELSE "free"]

Next == mutator \/ collector
Spec == Init /\ [][Next]_vars

-----------------------------------------------------------------------------
(* Properties *)

\* Types.
TypeOK ==
  /\ \A th \in Threads : Len(stack[th]) <= StackSize /\ ToSet(stack[th]) \subseteq Values \cup {Nil}
  /\ L \in Threads
  /\ \A c \in Closures : proto[c] \in Protos \cup {Nil} /\ ToSet(upvals[c]) \subseteq UpVal
  /\ cache \in [Protos -> Closures \cup {Nil}]
  /\ at \in [UpVal -> {Freed, Own} \cup (Threads \X (1 .. StackSize))]
  /\ value \in [UpVal -> Values \cup {Nil}]
  /\ refcount \in [UpVal -> Nat] /\ touched \in [UpVal -> BOOLEAN]
  /\ \A th \in Threads : ToSet(openupval[th]) \subseteq UpVal
  /\ twups \subseteq Threads
  /\ gcstate \in {"pause", "propagate", "sweep"}
  /\ color \in [Obj -> {"free", "white", "dead", "gray", "black"}]
  /\ gray \subseteq Obj /\ unswept \subseteq Obj

\* The places where closures refer to an upvalue.
References(u) == UNION {{c} \X {i \in DOMAIN upvals[c] : upvals[c][i] = u} :
                          c \in {d \in Closures : Exists(d)}}

\* Reference counts are exact, whatever the closures and threads that share an
\* upvalue and the order they go in: a count tells how many closures refer to
\* the upvalue, and one that nobody refers to is open or freed.
Counted ==
  \A u \in UpVal :
    LET n == Cardinality(References(u))
    IN /\ at[u] # Freed => refcount[u] = n
       /\ at[u] = Freed => n = 0
       /\ at[u] = Own => n > 0

\* The list of open upvalues of a thread is in order, holds at most one for a
\* slot, and only for slots that are variables now: a slot given up by a block
\* or a function takes no upvalue of its old variable along.
OpenList ==
  \A th \in Threads :
    /\ \A i \in DOMAIN openupval[th] :
         LET u == openupval[th][i]
         IN /\ upisopen(u) /\ ThreadOf(u) = th /\ LevelOf(u) \in DOMAIN stack[th]
            /\ i > 1 => LevelOf(openupval[th][i - 1]) > LevelOf(u)
    /\ \A u \in UpVal : (upisopen(u) /\ ThreadOf(u) = th) => u \in ToSet(openupval[th])

\* No object in use refers to one that is not: not a thread through its stack,
\* and not a closure through an upvalue, also an open one of a dead thread.
LiveValues ==
  \A o \in Values : Live(o) => \A x \in AtomicRefs(o) \ {Nil} : Live(x)

\* The list of threads with open upvalues holds every thread the collector has
\* to look for them in, and none that is gone.
Twups ==
  \A th \in Threads : /\ Live(th) /\ openupval[th] # <<>> => th \in twups
                      /\ th \in twups => Live(th)

\* A cached closure can be given out again at any time: it is never a dead one.
LiveCache == \A p \in Protos : cache[p] # Nil => Live(cache[p])

\* Counts, lists and types agree, whatever is captured, closed, joined and collected.
Consistent == TypeOK /\ Counted /\ OpenList

\* Nothing that a stack, an upvalue or the cache of a prototype leads to is collected,
\* and no thread the collector has to look at is missing from its list.
NoneLost == LiveValues /\ LiveCache /\ Twups

\* What a closure reads changes only when somebody assigns to the variable:
\* not when the variable is closed, its block is left, its thread ends or is
\* freed, or the slot gets another variable.
Assigns == \/ \E i \in 1 .. top, x \in AtHand \cup {Nil} : setlocal(i, x)
           \/ \E c \in Running : \E i \in DOMAIN upvals[c] :
                \/ \E x \in AtHand \cup {Nil} : setupval(c, i, x)
                \/ \E d \in Running : \E j \in DOMAIN upvals[d] : lua_upvaluejoin(c, i, d, j)
Readings(c) == [i \in DOMAIN upvals[c] |-> ValueOf(upvals[c][i])]
VariablesKept ==
  [][Assigns \/ \A c \in Closures :
       (Live(c) /\ color'[c] # "free" /\ color'[c] # "dead") => Readings(c)' = Readings(c)]_vars

\* The closure a function makes has the variables its prototype names, whether
\* it is a new one or the one in the cache.
RightVariables ==
  [][\A p \in Protos, enc \in Enclosing, base \in 0 .. StackSize, c \in Closures :
       (stack'[L] = Append(stack[L], c) /\ closure(p, enc, base, c)) =>
         \A i \in DOMAIN Desc[p] :
           LET d == Desc[p][i]
               u == upvals'[c][i]
           IN IF d.instack THEN at'[u] = <<L, base + d.idx>> ELSE SameVar(u, enc[d.idx])]_vars

\* No closure refers to a freed upvalue ('refcount' is what tells luaF_close and
\* luaC_upvdeccount that there are "no references").
NoneFreedInUse == \A c \in Closures : \A i \in DOMAIN upvals[c] : at[upvals[c][i]] # Freed

-----------------------------------------------------------------------------
(* Progress *)

\* What the program can still reach.
Held == Reach(Roots \cup {L}, {})
Garbage(o) == o \notin Held /\ Exists(o)

FairSpec == Spec /\ WF_vars(collector)

\* Nothing stays out of the program's reach for ever without being freed: also
\* not a dead thread when a closure on its own stack refers to its variables.
\* (The cache of a prototype may bring a closure back.)
GarbageFreed == \A o \in Closures \cup Coroutines : []<> ~ Garbage(o)
=============================================================================
