------------------------------- MODULE LuaGC -------------------------------
(***************************************************************************)
(* The incremental mark-and-sweep collector of the Lua 5.3 core (lgc.c)    *)
(* interleaved with the program it collects for (the mutator: lapi.c,      *)
(* lvm.c, lstate.c).  One action is one call of 'singlestep', one          *)
(* finalizer, one call of 'luaC_fullgc', or one operation of the program.  *)
(*                                                                         *)
(* Object lists are sets here: 'unswept' is what lies at or after          *)
(* 'sweepgc'.  Colours are relative to 'currentwhite': "white" is the      *)
(* current white, "dead" the other one ('isdead'), so that the flip at the *)
(* end of the atomic phase turns every "white" into "dead".                *)
(*                                                                         *)
(* A definition named after the next one with "_" and a word ("_NoMark")   *)
(* is a bug that one could have; no specification here uses it.            *)
(***************************************************************************)
EXTENDS Naturals, FiniteSets

CONSTANTS
  Tables, Udata, CClosures, Strings,  \* addresses of each type of object
  Coroutines,   \* addresses of the threads other than the main one
  MainThread,   \* g->mainthread
  Registry,     \* the table g->l_registry
  Nil,          \* any value that is not collectable; NULL
  Keys,         \* keys the program uses: objects, and Nil for all other keys
  Modes,        \* weak modes the program gives to tables: sets over {"k","v"}
  Metas,        \* the tables the program uses as metatables
  FinMeta,      \* those of Metas that hold a __gc field
  FullKinds,    \* kinds of full collections: of {"normal", "emergency"}
  StackSize,    \* bound on the objects on one stack
  SweepMax,     \* GCSWEEPMAX: objects swept by one 'sweepstep'
  Overtake,     \* may finalizers run past the object 'sweepgc' points into?
  RemetaAllWeak \* may a table linked in 'allweak' get another metatable?

Threads == Coroutines \cup {MainThread}
Obj == Tables \cup Udata \cup CClosures \cup Strings \cup Threads

GCStates == {"propagate", "atomic", "swpallgc", "swpfinobj", "swptobefnz",
             "swpend", "callfin", "pause"}

ASSUME KindsDisjoint ==
  /\ Tables \cap (Udata \cup CClosures \cup Strings \cup Threads) = {}
  /\ Udata \cap (CClosures \cup Strings \cup Threads) = {}
  /\ CClosures \cap (Strings \cup Threads) = {}
  /\ Strings \cap Threads = {}
  /\ MainThread \notin Coroutines
  /\ Nil \notin Obj
ASSUME ConstantsOK ==
  /\ Registry \in Tables
  /\ Keys \subseteq Obj \cup {Nil}
  /\ Modes \subseteq SUBSET {"k", "v"}
  /\ Metas \subseteq Tables /\ FinMeta \subseteq Metas
  /\ FullKinds \subseteq {"normal", "emergency"}
  /\ StackSize \in Nat
  /\ SweepMax \in Nat \ {0}
  /\ Overtake \in BOOLEAN
  /\ RemetaAllWeak \in BOOLEAN

VARIABLES
  gcstate,    \* g->gcstate
  gckind,     \* g->gckind: "normal" or "emergency"
  full,       \* where luaC_fullgc is: "no", "finish" (the pending cycle), "cycle"
  color,      \* 'marked' of each object; "free" when there is no such object
  gray,       \* g->gray
  grayagain,  \* g->grayagain
  allweak,    \* g->allweak
  unswept,    \* the objects at or after g->sweepgc
  finobj,     \* g->finobj: objects with a finalizer
  tobefnz,    \* g->tobefnz: objects whose finalizer is about to be called
  field,      \* the reference assigned under a forward barrier: the metatable
              \* of a table or userdata, the upvalue of a C closure
  tab,        \* tab[t][k]: the value table t holds under key k
  mode,       \* mode[t]: the __mode of the metatable of t
  stack,      \* stack[th]: the objects on the stack of a thread
  L,          \* the running thread
  mt          \* g->mt[]: the metatable of a basic type

heap == <<field, tab, mode, stack>>
lists == <<gray, grayagain, allweak>>
fin == <<finobj, tobefnz>>
ctl == <<gcstate, gckind, full>>
vars == <<ctl, color, lists, unswept, fin, heap, L, mt>>

-----------------------------------------------------------------------------
(* Colours and phases (lgc.h) *)

iswhite(o) == color[o] \in {"white", "dead"}
isblack(o) == color[o] = "black"
keepinvariant == gcstate \in {"propagate", "atomic"}
issweepphase == gcstate \in {"swpallgc", "swpfinobj", "swptobefnz", "swpend"}

\* An object that exists and is not dead.
Live(o) == color[o] \notin {"free", "dead"}

\* g->allgc: the main thread and the objects of the other lists are not in it.
allgc == {o \in Obj : color[o] # "free"} \ (finobj \cup tobefnz \cup {MainThread})

\* The keys under which table t holds a value.
Used(t) == {k \in Keys : tab[t][k] # Nil}
EmptyTable == [k \in Keys |-> Nil]

\* Every reference an object holds.
Refs(o) ==
  ( {field[o]}
    \cup (IF o \in Threads THEN stack[o] ELSE {})
    \cup (IF o \in Tables THEN Used(o) \cup {tab[o][k] : k \in Keys} ELSE {})
  ) \ {Nil}

-----------------------------------------------------------------------------
(* Marking *)

Whites(S) == {o \in S \cap Obj : iswhite(o)}

\* The objects 'markobject' turns from white for the objects in S: marking a
\* userdata also marks its metatable.
reallymark(S) == Whites(S) \cup Whites({field[u] : u \in Whites(S) \cap Udata})

MarkedColor(S) ==
  [o \in Obj |-> IF o \notin reallymark(S) THEN color[o]
                 ELSE IF o \in Strings \cup Udata THEN "black" ELSE "gray"]
MarkedGray(S) == reallymark(S) \ (Strings \cup Udata)

\* The root set: the main thread, the registry, the metatables of basic types.
Roots == {MainThread, Registry} \cup ({mt} \ {Nil})

\* The keys of table t that keep their value marked, when the objects in C are
\* the marked ones: strings are values, never weak ('iscleared').
HeldKeys(t, C) == IF "k" \in mode[t] THEN C \cup Strings \cup {Nil} ELSE Keys

\* The keys the traversal of t marks.
MarkedKeys(t) == CASE "k" \notin mode[t]  -> Used(t)
                   [] mode[t] = {"k"}     -> Used(t) \cap Strings
                   [] mode[t] = {"k", "v"} -> {}

\* C holds everything the traversal of its members but those of 'skip' marks.
Closed(C, skip) ==
  /\ \A o \in C \ skip : field[o] # Nil => field[o] \in C
  /\ \A th \in (C \cap Threads) \ skip : stack[th] \subseteq C
  /\ \A t \in (C \cap Tables) \ skip :
        /\ MarkedKeys(t) \subseteq C \cup {Nil}
        /\ "v" \notin mode[t] =>
             \A k \in Used(t) \cap HeldKeys(t, C) : tab[t][k] \in C

\* What propagating the marks of S to the end marks: the least closed set.
Reach(S, skip) ==
  LET closed == {C \in {S \cup X : X \in SUBSET (Obj \ S)} : Closed(C, skip)}
  IN  {o \in Obj : \A C \in closed : o \in C}

-----------------------------------------------------------------------------
(* Write barriers *)

luaC_barrier_NoMark(o, v) == UNCHANGED <<color, gray>>

\* A black object o gets a reference to v (forward barrier): mark v, or, when
\* the invariant is not being kept, sweep o now.
luaC_barrier(o, v) ==
  IF v # Nil /\ isblack(o) /\ iswhite(v)
  THEN IF keepinvariant
       THEN /\ color' = MarkedColor({v})
            /\ gray' = gray \cup MarkedGray({v})
       ELSE /\ color' = [color EXCEPT ![o] = "white"]
            /\ UNCHANGED gray
  ELSE UNCHANGED <<color, gray>>

luaC_barrierback_StaysBlack(t, S) ==
  /\ grayagain' = IF isblack(t) /\ Whites(S) # {} THEN grayagain \cup {t} ELSE grayagain
  /\ UNCHANGED color
luaC_barrierback_LinksValue(t, S) ==
  IF isblack(t) /\ Whites(S) # {}
  THEN color' = [color EXCEPT ![t] = "gray"] /\ grayagain' = grayagain \cup S
  ELSE UNCHANGED <<color, grayagain>>

\* A black table t gets references to the objects in S (backward barrier): it
\* is gray again.
luaC_barrierback(t, S) ==
  IF isblack(t) /\ Whites(S) # {}
  THEN /\ color' = [color EXCEPT ![t] = "gray"]
       /\ grayagain' = grayagain \cup {t}
  ELSE UNCHANGED <<color, grayagain>>

-----------------------------------------------------------------------------
(* The collector *)

\* GCSpause: mark the root set and what is still waiting for its finalizer.
RootsToMark == Roots \cup tobefnz
restartcollection ==
  /\ gcstate = "pause"
  /\ color' = MarkedColor(RootsToMark)
  /\ gray' = MarkedGray(RootsToMark)
  /\ grayagain' = {}
  /\ allweak' = {}
  /\ gcstate' = "propagate"
  /\ UNCHANGED <<gckind, full, unswept, fin, heap, L, mt>>

\* What the traversal of o marks now.  The values of an ephemeron table are
\* marked when their key is; 'deep' tells whether it met a key its own
\* traversal had just marked.
HeldValues(t, C) == {tab[t][k] : k \in Keys \cap HeldKeys(t, C)}
traverse(o, deep) ==
  LET marked == {x \in Obj : ~ iswhite(x)}
  IN  IF o \in Threads THEN stack[o]
      ELSE {field[o]} \cup
           (IF o \notin Tables THEN {}
            ELSE MarkedKeys(o) \cup
                 (IF "v" \in mode[o] THEN {}
                  ELSE HeldValues(o, IF deep THEN marked \cup HeldValues(o, marked)
                                     ELSE marked)))

\* Threads and weak tables stay gray, to be traversed again in the atomic phase
\* (the fully weak ones, only cleared).
staysgray(o) == o \in Threads \/ (o \in Tables /\ mode[o] # {})
revisited(o) == o \in Threads \/ (o \in Tables /\ mode[o] \in {{"k"}, {"v"}})

\* GCSpropagate: traverse one gray object.
propagatemark(o) ==
  /\ gcstate = "propagate"
  /\ o \in gray
  /\ \E deep \in BOOLEAN :
       LET S == traverse(o, deep)
       IN /\ color' = IF staysgray(o) THEN MarkedColor(S)
                      ELSE [MarkedColor(S) EXCEPT ![o] = "black"]
          /\ gray' = (gray \ {o}) \cup MarkedGray(S)
  /\ grayagain' = IF revisited(o) THEN grayagain \cup {o} ELSE grayagain
  /\ allweak' = IF o \in Tables /\ mode[o] = {"k", "v"}
                THEN allweak \cup {o} ELSE allweak
  /\ gcstate' = IF gray' = {} THEN "atomic" ELSE "propagate"
  /\ UNCHANGED <<gckind, full, unswept, fin, heap, L, mt>>

sweeplist_FreesNothing(col, fld, tb, S) ==
  /\ color' = [o \in Obj |-> IF o \in S THEN "white" ELSE col[o]]
  /\ field' = fld /\ tab' = tb /\ UNCHANGED <<mode, stack>>

\* Sweep the objects of S: free the dead ones, make the others white.
sweeplist(col, fld, tb, S) ==
  LET freed == {o \in S : col[o] = "dead"}
  IN  /\ color' = [o \in Obj |-> IF o \in freed THEN "free"
                                 ELSE IF o \in S THEN "white" ELSE col[o]]
      /\ field' = [o \in Obj |-> IF o \in freed THEN Nil ELSE fld[o]]
      /\ tab' = [t \in Tables |-> IF t \in freed THEN EmptyTable ELSE tb[t]]
      /\ mode' = [t \in Tables |-> IF t \in freed THEN {} ELSE mode[t]]
      /\ stack' = [th \in Threads |-> IF th \in freed THEN {} ELSE stack[th]]

\* Start the sweep of 'allgc'; the first object is swept at once.
entersweep(col, tb, all) ==
  /\ gcstate' = "swpallgc"
  /\ \E S \in SUBSET all :
       /\ Cardinality(S) = IF all = {} THEN 0 ELSE 1
       /\ sweeplist(col, field, tb, S)
       /\ unswept' = all \ S

clearvalues_KeepsFinalizable(tb, T, M) ==
  [t \in Tables |-> [k \in Keys |->
     IF t \in T /\ tb[t][k] \notin Strings \cup M \cup finobj THEN Nil ELSE tb[t][k]]]
clearkeys_BeingFinalized(tb, T, M) ==
  [t \in Tables |-> [k \in Keys |->
     IF t \in T /\ k \notin Strings \cup (M \ tobefnz') \cup {Nil} THEN Nil ELSE tb[t][k]]]
\* Remove from the weak tables in T the values (keys) that M does not hold.
clearvalues(tb, T, M) ==
  [t \in Tables |-> [k \in Keys |->
     IF t \in T /\ tb[t][k] \notin Strings \cup M THEN Nil ELSE tb[t][k]]]
clearkeys(tb, T, M) ==
  [t \in Tables |-> [k \in Keys |->
     IF t \in T /\ k \notin Strings \cup M \cup {Nil} THEN Nil ELSE tb[t][k]]]

\* The unmarked objects with a finalizer.
separatetobefnz_All(M) == finobj
separatetobefnz(M) == finobj \ M

\* GCSatomic: finish marking, clear the weak tables, flip the white.  Objects
\* already visited, and in no gray list, are not traversed.
MarkedAtAtomic == {o \in Obj : color[o] \in {"gray", "black"}} \cup Roots \cup {L}
visited_NoGrayAgain == {o \in Obj : ~ iswhite(o)} \ gray
visited == {o \in Obj : ~ iswhite(o)} \ (gray \cup grayagain)
resurrect(M, pending) == Reach(M \cup pending, visited)
weaktables(m) == {t \in Tables \ visited : m \in mode[t]} \cup allweak
FlippedColor(M) ==
  [o \in Obj |-> CASE color[o] = "free" -> "free"
                   [] color[o] # "free" /\ o \notin M -> "dead"
                   [] color[o] # "free" /\ o \in M ->
                        IF o \in allweak \/ (o \notin visited /\ staysgray(o))
                        THEN "gray" ELSE "black"]
atomic ==
  /\ gcstate = "atomic"
  /\ LET M1 == Reach(MarkedAtAtomic, visited)
         pending == tobefnz \cup separatetobefnz(M1)
         M2 == resurrect(M1, pending)
         tab1 == clearvalues(tab, weaktables("v") \cap M1, M1)
         tab2 == clearkeys(tab1, weaktables("k") \cap M2, M2)
         tab3 == clearvalues(tab2, weaktables("v") \cap (M2 \ M1), M2)
         strings == Strings \cap
           ( {tab[t][k] : t \in weaktables("v") \cap M1, k \in Keys}
             \cup {tab2[t][k] : t \in weaktables("v") \cap (M2 \ M1), k \in Keys}
             \cup {k \in Keys : \E t \in weaktables("k") \cap M2 : tab1[t][k] # Nil} )
     IN  /\ tobefnz' = pending
         /\ finobj' = finobj \ pending
         /\ entersweep(FlippedColor(M2 \cup strings), tab3, allgc \ pending)
  /\ gray' = {}
  /\ grayagain' = {}
  /\ allweak' = {}
  /\ UNCHANGED <<gckind, full, L, mt>>

\* GCSswp*: sweep up to SweepMax objects; at the end of the list, turn to the
\* next one.
sweepstep(from, to, nextlist) ==
  /\ gcstate = from
  /\ \E S \in SUBSET unswept :
       /\ Cardinality(S) =
            IF Cardinality(unswept) < SweepMax THEN Cardinality(unswept) ELSE SweepMax
       /\ sweeplist(color, field, tab, S)
       /\ IF S = unswept
          THEN gcstate' = to /\ unswept' = nextlist
          ELSE gcstate' = from /\ unswept' = unswept \ S
  /\ UNCHANGED <<gckind, full, lists, fin, L, mt>>

finishsweep_NoMain ==
  /\ gcstate = "swpend"
  /\ gcstate' = "callfin"
  /\ UNCHANGED <<gckind, full, color, lists, unswept, fin, heap, L, mt>>

\* GCSswpend: the main thread is in no list.
finishsweep ==
  /\ gcstate = "swpend"
  /\ color' = [color EXCEPT ![MainThread] = "white"]
  /\ gcstate' = "callfin"
  /\ UNCHANGED <<gckind, full, lists, unswept, fin, heap, L, mt>>

\* GCScallfin with nothing left to finalize: the cycle is over.
nothingtocall_Skips == TRUE
nothingtocall == tobefnz = {} \/ gckind = "emergency"
endcycle ==
  /\ gcstate = "callfin"
  /\ nothingtocall
  /\ gcstate' = "pause"
  /\ full' = IF full = "finish" THEN "cycle" ELSE "no"
  /\ gckind' = IF full = "finish" THEN gckind ELSE "normal"
  /\ UNCHANGED <<color, lists, unswept, fin, heap, L, mt>>

singlestep ==
  \/ restartcollection
  \/ \E o \in Obj : propagatemark(o)
  \/ atomic
  \/ sweepstep("swpallgc", "swpfinobj", finobj)
  \/ sweepstep("swpfinobj", "swptobefnz", tobefnz)
  \/ sweepstep("swptobefnz", "swpend", {})
  \/ finishsweep
  \/ endcycle

\* Code runs outside a full collection, and in the finalizers of one.
MutatorRuns == full = "no" \/ (gcstate = "callfin" /\ gckind = "normal")

\* lua_gc(LUA_GCCOLLECT), or an allocation that failed (kind "emergency").
\* When there may be black objects, everything is swept first.
firststage_OneCycle == "cycle"
firststage == IF gcstate = "pause" THEN "cycle" ELSE "finish"
luaC_fullgc(kind) ==
  /\ MutatorRuns
  /\ gckind' = kind
  /\ full' = firststage
  /\ IF keepinvariant THEN entersweep(color, tab, allgc)
     ELSE UNCHANGED <<gcstate, color, unswept, heap>>
  /\ UNCHANGED <<lists, fin, L, mt>>

\* An object that changes lists while these are swept is swept now.
makewhite_Not(o) == color
makewhite(o) == IF issweepphase THEN [color EXCEPT ![o] = "white"] ELSE color

\* Take object o, the first of 'tobefnz', back to 'allgc' and call its
\* finalizer, if its metatable still has one.  (In "pause", when a finalizer
\* called before o's ran a full collection.)  When 'sweepgc' points into o, the
\* sweep goes on in the list where o now is, not in 'tobefnz'.
SweepInTobefnz == gcstate = "swptobefnz" /\ unswept # {} /\ unswept \subseteq tobefnz
Overtakes(o) == SweepInTobefnz /\ tobefnz \ unswept = {o}
GCTM(o) ==
  /\ gckind = "normal"
  /\ full = "no" \/ gcstate = "callfin"
  /\ o \in tobefnz
  /\ SweepInTobefnz /\ tobefnz \ unswept # {} => o \notin unswept
  /\ Overtakes(o) => Overtake
  /\ tobefnz' = tobefnz \ {o}
  /\ unswept' = IF Overtakes(o) THEN allgc ELSE unswept \ {o}
  /\ color' = makewhite(o)
  /\ stack' = IF field[o] \in FinMeta THEN [stack EXCEPT ![L] = @ \cup {o}] ELSE stack
  /\ UNCHANGED <<ctl, lists, finobj, field, tab, mode, L, mt>>

-----------------------------------------------------------------------------
(* The program *)

\* What the running code has at hand.
AtHand == stack[L] \cup {Registry}

\* Push object o on the stack of the running thread.
Pushed(o) ==
  /\ o \in stack[L] \/ Cardinality(stack[L]) < StackSize
  /\ stack' = [stack EXCEPT ![L] = @ \cup {o}]

\* luaC_newobj, lua_newthread: a new object, anchored on the stack.
luaC_white == "white"
luaC_newobj(o) ==
  /\ MutatorRuns
  /\ color[o] = "free"
  /\ color' = [color EXCEPT ![o] = luaC_white]
  /\ Pushed(o)
  /\ UNCHANGED <<ctl, lists, unswept, fin, field, tab, mode, L, mt>>

\* Push what an object at hand refers to (a field, a key, a metatable, an
\* upvalue); the stack of another thread is out of reach.
push(p, o) ==
  /\ MutatorRuns
  /\ p \in AtHand \ Threads
  /\ o \in Refs(p) \ stack[L]
  /\ Pushed(o)
  /\ UNCHANGED <<ctl, color, lists, unswept, fin, field, tab, mode, L, mt>>

pushbasicmt ==
  /\ MutatorRuns
  /\ mt # Nil
  /\ mt \notin stack[L]
  /\ Pushed(mt)
  /\ UNCHANGED <<ctl, color, lists, unswept, fin, field, tab, mode, L, mt>>

pop(o) ==
  /\ MutatorRuns
  /\ o \in stack[L]
  /\ stack' = [stack EXCEPT ![L] = @ \ {o}]
  /\ UNCHANGED <<ctl, color, lists, unswept, fin, field, tab, mode, L, mt>>

\* t[k] = v.  A new key comes with a barrier of its own (luaH_newkey).
NewRefs(t, k, v) == IF tab[t][k] = Nil THEN {k, v} ELSE {v}
settable(t, k, v) ==
  /\ MutatorRuns
  /\ t \in AtHand \cap Tables
  /\ k \in Keys \cap (AtHand \cup {Nil})
  /\ v \in AtHand \cup {Nil}
  /\ v # tab[t][k]
  /\ tab' = [tab EXCEPT ![t][k] = v]
  /\ luaC_barrierback(t, NewRefs(t, k, v))
  /\ UNCHANGED <<ctl, gray, allweak, unswept, fin, field, mode, stack, L, mt>>

\* The __mode of t's metatable changes.
setmode(t, m) ==
  /\ MutatorRuns
  /\ t \in AtHand \cap Tables
  /\ m \in Modes \ {mode[t]}
  /\ mode' = [mode EXCEPT ![t] = m]
  /\ UNCHANGED <<ctl, color, lists, unswept, fin, field, tab, stack, L, mt>>

\* lua_setupvalue on a C closure.
setupvalue(c, v) ==
  /\ MutatorRuns
  /\ c \in AtHand \cap CClosures
  /\ v \in AtHand \cup {Nil}
  /\ v # field[c]
  /\ field' = [field EXCEPT ![c] = v]
  /\ luaC_barrier(c, v)
  /\ UNCHANGED <<ctl, grayagain, allweak, unswept, fin, tab, mode, stack, L, mt>>

\* What 'sweeptolive' sweeps, when 'sweepgc' points into an object that leaves
\* the list: dead objects up to and with the first that is not, or all.
SweptToLive(o, S) ==
  \/ S = {}
  \/ /\ o \notin unswept
     /\ unswept \subseteq allgc
     /\ \/ S = unswept /\ \A x \in S : color[x] = "dead"
        \/ Cardinality({x \in S : color[x] # "dead"}) = 1

\* The object o is to be moved to 'finobj'.
needsfinalizer(o, m) == m \in FinMeta /\ o \notin finobj \cup tobefnz

\* lua_setmetatable: forward barrier, then luaC_checkfinalizer.
setmetatable(o, m) ==
  /\ MutatorRuns
  /\ o \in AtHand \cap (Tables \cup Udata)
  /\ m \in (AtHand \cap Metas) \cup {Nil}
  /\ m # field[o]
  /\ o \in allweak /\ keepinvariant => RemetaAllWeak
  /\ finobj' = IF needsfinalizer(o, m) THEN finobj \cup {o} ELSE finobj
  /\ IF needsfinalizer(o, m) /\ issweepphase
     THEN /\ \E S \in SUBSET (unswept \ {o}) :
               /\ SweptToLive(o, S)
               /\ sweeplist(makewhite(o), [field EXCEPT ![o] = m], tab, S)
               /\ unswept' = unswept \ ({o} \cup S)
          /\ UNCHANGED gray
     ELSE /\ luaC_barrier(o, m)
          /\ field' = [field EXCEPT ![o] = m]
          /\ UNCHANGED <<unswept, tab, mode, stack>>
  /\ UNCHANGED <<ctl, grayagain, allweak, tobefnz, L, mt>>

\* lua_setmetatable on a basic type: no barrier.
setbasicmt(m) ==
  /\ MutatorRuns
  /\ m \in (AtHand \cap Metas) \cup {Nil}
  /\ m # mt
  /\ mt' = m
  /\ UNCHANGED <<ctl, color, lists, unswept, fin, heap, L>>

\* lua_resume and lua_yield between the main thread and a coroutine on its
\* stack, moving the objects of X from one stack to the other.
switch(to, X) ==
  /\ MutatorRuns
  /\ X \subseteq stack[L] \ {to}
  /\ Cardinality(stack[to] \cup X) <= StackSize
  /\ L' = to
  /\ stack' = [stack EXCEPT ![L] = @ \ X, ![to] = @ \cup X]
  /\ UNCHANGED <<ctl, color, lists, unswept, fin, field, tab, mode, mt>>
resume(co, X) == L = MainThread /\ co \in stack[L] \cap Coroutines /\ switch(co, X)
yield(X) == L # MainThread /\ switch(MainThread, X)

mutator ==
  \/ \E o \in Obj : luaC_newobj(o) \/ pop(o)
  \/ \E p, o \in Obj : push(p, o)
  \/ pushbasicmt
  \/ \E t \in Tables, k \in Keys, v \in Obj \cup {Nil} : settable(t, k, v)
  \/ \E t \in Tables, m \in Modes : setmode(t, m)
  \/ \E c \in CClosures, v \in Obj \cup {Nil} : setupvalue(c, v)
  \/ \E o \in Tables \cup Udata, m \in Metas \cup {Nil} : setmetatable(o, m)
  \/ \E m \in Metas \cup {Nil} : setbasicmt(m)
  \/ \E co \in Coroutines, X \in SUBSET stack[L] : resume(co, X)
  \/ \E X \in SUBSET stack[L] : yield(X)

-----------------------------------------------------------------------------

\* The state after lua_newstate.
Init ==
  /\ gcstate = "pause" /\ gckind = "normal" /\ full = "no"
  /\ color = [o \in Obj |-> IF o \in {MainThread, Registry} THEN "white" ELSE "free"]
  /\ gray = {} /\ grayagain = {} /\ allweak = {} /\ unswept = {}
  /\ finobj = {} /\ tobefnz = {}
  /\ field = [o \in Obj |-> Nil]
  /\ tab = [t \in Tables |-> EmptyTable]
  /\ mode = [t \in Tables |-> {}]
  /\ stack = [th \in Threads |-> {}]
  /\ L = MainThread
  /\ mt = Nil

Next ==
  \/ singlestep
  \/ \E o \in Obj : GCTM(o)
  \/ \E kind \in FullKinds : luaC_fullgc(kind)
  \/ mutator

Spec == Init /\ [][Next]_vars
-----------------------------------------------------------------------------
(* Properties *)

\* Each variable holds a value of its type.
TypeOK ==
  /\ gcstate \in GCStates
  /\ gckind \in {"normal", "emergency"}
  /\ full \in {"no", "finish", "cycle"}
  /\ color \in [Obj -> {"free", "white", "dead", "gray", "black"}]
  /\ gray \subseteq Obj /\ grayagain \subseteq Obj /\ allweak \subseteq Tables
  /\ unswept \subseteq Obj
  /\ finobj \subseteq Tables \cup Udata /\ tobefnz \subseteq Tables \cup Udata
  /\ field \in [Obj -> Obj \cup {Nil}]
  /\ \A u \in Udata : field[u] \in Tables \cup {Nil}
  /\ \A o \in Strings \cup Threads : field[o] = Nil
  /\ tab \in [Tables -> [Keys -> Obj \cup {Nil}]]
  /\ mode \in [Tables -> SUBSET {"k", "v"}]
  /\ stack \in [Threads -> SUBSET Obj]
  /\ L \in Threads
  /\ mt \in Tables \cup {Nil}

\* What the program can use at once, or the collector will hand to a finalizer,
\* has not been collected and is not about to be (lgc.c: restartcollection,
\* atomic, separatetobefnz; lapi.c sets the basic metatables with no barrier).
LiveRoots == \A o \in Roots \cup {L} \cup finobj \cup tobefnz : Live(o)

\* No dangling reference: an object that is not dead refers only to objects
\* that exist and are not dead, through every kind of reference, weak ones too
\* (the barriers of lapi.c and lvm.c, atomic and the sweep of lgc.c).
LiveRefs == \A o \in Obj : Live(o) => \A x \in Refs(o) : Live(x)

\* The invariant stated at lgc.h:19-24, while it must be kept: a black object
\* never points to a white one ...
BlackToWhite ==
  keepinvariant =>
    \A o \in Obj : isblack(o) => \A x \in Refs(o) : ~ iswhite(x)

\* ... and a gray object is in a gray list, to be visited again before the cycle
\* ends.
GrayListed ==
  keepinvariant =>
    \A o \in Obj : color[o] = "gray" => o \in gray \cup grayagain \cup allweak

\* When the sweep ends all objects are white again (lgc.h:57-58), so that the
\* next cycle marks from a clean slate.
WhiteAfterSweep ==
  gcstate \in {"callfin", "pause"} => \A o \in Obj : color[o] \in {"free", "white"}

\* 'sweepgc' stays in the list its state sweeps (lgc.c: sweepstep).
SweptList == CASE gcstate = "swpallgc" -> allgc
               [] gcstate = "swpfinobj" -> finobj
               [] gcstate = "swptobefnz" -> tobefnz
               [] OTHER -> {}

\* What the sweep has still to make white.
ToSweep == unswept \cup
           CASE gcstate = "swpallgc" -> finobj \cup tobefnz \cup {MainThread}
             [] gcstate = "swpfinobj" -> tobefnz \cup {MainThread}
             [] gcstate \in {"swptobefnz", "swpend"} -> {MainThread}
             [] OTHER -> {}

\* The parts of the inductive invariant that no single line of the code states.
\* Dead objects are in front of the sweep, which has no mark behind it.
SweepInv ==
  /\ unswept \subseteq SweptList
  /\ \A o \in Obj : color[o] = "dead" => gcstate = "swpallgc" /\ o \in unswept
  /\ ~ keepinvariant =>
       \A o \in Obj : color[o] \in {"gray", "black"} => o \in ToSweep

\* Threads stay gray; a listed gray object is gray; a fully weak table waits in
\* 'allweak' with its metatable marked.
ListInv ==
  /\ \A th \in Threads : ~ isblack(th)
  /\ keepinvariant =>
       /\ gray \cap allweak = {}
       /\ \A o \in gray \cup allweak : color[o] = "gray"
       /\ \A t \in allweak : field[t] # Nil => ~ iswhite(field[t])

\* An object is in one list, and memory that holds no object holds no reference.
PlaceInv ==
  /\ finobj \cap tobefnz = {}
  /\ \A o \in Obj : color[o] = "free" => Refs(o) = {}

\* The inductive invariant: what lgc.h states, with what every step of the
\* collector and of the program needs to keep it.
IInv == /\ TypeOK /\ LiveRoots /\ LiveRefs /\ BlackToWhite /\ GrayListed
        /\ SweepInv /\ ListInv /\ PlaceInv

\* What the program, and the objects of S, can reach by strong references.  A
\* table already linked in 'allweak' has been taken for a weak one.
InUse(S) == Reach(Roots \cup {L} \cup S \cup ({field[t] : t \in allweak} \ {Nil}), allweak)

\* A finalizer is only called for an object the program cannot reach any more
\* (lgc.c: separatetobefnz, after the marking of 'atomic').
FinalizeOnlyUnreachable ==
  [][\A o \in tobefnz' \ tobefnz : o \notin InUse({})]_vars

\* An entry leaves a weak table in use only when a weak part of it is not a
\* string and cannot be reached; a key, only if no finalizer will reach it
\* either (the comment of 'iscleared', lgc.c:132-138).
WeakEntriesKept ==
  [][gcstate = "atomic" =>
       LET used == InUse({})
           kept == InUse(tobefnz')
       IN  \A t \in Tables \cap used, k \in Keys :
             tab'[t][k] # tab[t][k] =>
               \/ ("v" \in mode[t] \/ t \in allweak) /\ tab[t][k] \notin Strings \cup used
               \/ ("k" \in mode[t] \/ t \in allweak) /\ k \notin Strings \cup kept
    ]_gcstate

\* An object that is going to be finalized is no longer a weak value of a table
\* the program can reach (same comment).
FinalizedNoWeakValue ==
  [][gcstate = "atomic" =>
       \A t \in Tables \cap InUse({}), k \in Keys :
         "v" \in mode[t] => tab'[t][k] \notin tobefnz' \ tobefnz]_vars

\* What is left, but for strings; and of it the keys that a weak table of values may
\* have marked for entries that were then cleared (traverseweakvalue): these stay until
\* the next collection.
Remaining == {o \in Obj : color[o] # "free"} \ Strings
Floating(left) == IF \E t \in Tables \cap left : mode[t] = {"v"} THEN left \cap Keys ELSE {}

\* A full collection with no finalizer in it leaves what can be reached from the
\* roots, the pending finalizers and such keys (lgc.c:1151-1158).
FullCollects ==
  [][full = "cycle" /\ full' = "no" /\ gckind = "emergency" =>
       Remaining = Reach(Roots \cup {L} \cup tobefnz \cup Floating(Remaining), {}) \ Strings]_vars

-----------------------------------------------------------------------------
(* Liveness *)

\* A program that goes on allocating owes the collector its steps (lgc.h:
\* luaC_condGC), and 'luaC_step' and GCScallfin call the pending finalizers.
collector == singlestep \/ \E o \in Obj : GCTM(o)
FairSpec == Spec /\ WF_vars(collector)

\* What references of any kind lead to, from the objects of S.
Held(S) ==
  LET closed == {C \in SUBSET Obj : S \subseteq C /\ \A o \in C : Refs(o) \subseteq C}
  IN  {o \in Obj : \A C \in closed : o \in C}
Garbage(o) == o \notin Held(Roots \cup {L} \cup finobj \cup tobefnz)

\* Garbage is freed: no object floats for ever.
GarbageFreed == \A o \in Obj : Garbage(o) ~> color[o] = "free"

\* An object with a finalizer that cannot be reached any more is finalized, once
\* and for all.
Finalized ==
  \A o \in Tables \cup Udata :
    (o \in finobj /\ o \notin Held(Roots \cup {L} \cup (finobj \ {o}) \cup tobefnz))
      ~> o \notin finobj \cup tobefnz
=============================================================================
