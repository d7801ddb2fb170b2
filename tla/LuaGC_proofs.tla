---------------------------- MODULE LuaGC_proofs ----------------------------
(* The inductive invariant of LuaGC, proved for every heap.                *)
EXTENDS LuaGC, TLAPS

\* The heap keeps its types.
HeapType ==
  /\ field \in [Obj -> Obj \cup {Nil}]
  /\ \A u \in Udata : field[u] \in Tables \cup {Nil}
  /\ \A o \in Strings \cup Threads : field[o] = Nil
  /\ tab \in [Tables -> [Keys -> Obj \cup {Nil}]]
  /\ mode \in [Tables -> SUBSET {"k", "v"}]
  /\ stack \in [Threads -> SUBSET Obj]
ColorType == color \in [Obj -> {"free", "white", "dead", "gray", "black"}]
Kinds == /\ Tables \subseteq Obj /\ Udata \subseteq Obj /\ Strings \subseteq Obj
         /\ Threads \subseteq Obj /\ Nil \notin Obj
         /\ (Tables \cup Udata) \cap (Strings \cup Threads) = {}
         /\ Tables \cap Udata = {} /\ Strings \cap Threads = {}
         /\ Registry \in Tables /\ Metas \subseteq Tables /\ MainThread \in Threads
         /\ CClosures \subseteq Obj /\ CClosures \cap (Tables \cup Udata \cup Strings \cup Threads) = {}

LEMMA KindsOK == Kinds
BY KindsDisjoint, ConstantsOK DEF Kinds, Obj, Threads

\* Marking and sweeping give every object a colour.
LEMMA MarkType ==
  ASSUME TypeOK, NEW S
  PROVE  /\ MarkedColor(S) \in [Obj -> {"free", "white", "dead", "gray", "black"}]
         /\ MarkedGray(S) \subseteq Obj
BY DEF TypeOK, MarkedColor, MarkedGray, reallymark, Whites

LEMMA SweepType ==
  ASSUME TypeOK,
         NEW col \in [Obj -> {"free", "white", "dead", "gray", "black"}],
         NEW fld \in [Obj -> Obj \cup {Nil}],
         \A u \in Udata : fld[u] \in Tables \cup {Nil},
         \A o \in Strings \cup Threads : fld[o] = Nil,
         NEW tb \in [Tables -> [Keys -> Obj \cup {Nil}]],
         NEW S \in SUBSET Obj, sweeplist(col, fld, tb, S)
  PROVE  HeapType' /\ ColorType'
<1> DEFINE freed == {o \in S : col[o] = "dead"}
<1>1. ColorType'
  BY DEF sweeplist, ColorType
<1>2. /\ field' = [o \in Obj |-> IF o \in freed THEN Nil ELSE fld[o]]
      /\ tab' = [t \in Tables |-> IF t \in freed THEN EmptyTable ELSE tb[t]]
      /\ mode' = [t \in Tables |-> IF t \in freed THEN {} ELSE mode[t]]
      /\ stack' = [th \in Threads |-> IF th \in freed THEN {} ELSE stack[th]]
  BY DEF sweeplist
<1> HIDE DEF freed
<1>3. /\ field' \in [Obj -> Obj \cup {Nil}]
      /\ \A u \in Udata : field'[u] \in Tables \cup {Nil}
      /\ \A o \in Strings \cup Threads : field'[o] = Nil
  BY <1>2, KindsOK DEF Kinds
<1>4. tab' \in [Tables -> [Keys -> Obj \cup {Nil}]]
  BY <1>2 DEF EmptyTable
<1>5. mode' \in [Tables -> SUBSET {"k", "v"}] /\ stack' \in [Threads -> SUBSET Obj]
  BY <1>2 DEF TypeOK
<1>6. QED
  BY <1>1, <1>3, <1>4, <1>5 DEF HeapType

LEMMA InitType == Init => TypeOK
BY KindsOK DEF Init, TypeOK, GCStates, EmptyTable, Kinds

\* A table whose dead entries are gone still holds objects, or nothing.
LEMMA ClearType ==
  ASSUME NEW tb \in [Tables -> [Keys -> Obj \cup {Nil}]], NEW T, NEW M
  PROVE  /\ clearvalues(tb, T, M) \in [Tables -> [Keys -> Obj \cup {Nil}]]
         /\ clearkeys(tb, T, M) \in [Tables -> [Keys -> Obj \cup {Nil}]]
BY DEF clearvalues, clearkeys

LEMMA SinglestepType ==
  ASSUME TypeOK, singlestep
  PROVE  TypeOK'
<1> USE DEF GCStates, ctl, lists, fin, heap
<1>1. CASE restartcollection
  BY <1>1, MarkType DEF restartcollection, TypeOK
<1>2. ASSUME NEW o \in Obj, propagatemark(o)
      PROVE  TypeOK'
  <2>1. PICK deep \in BOOLEAN :
          /\ color' = IF staysgray(o) THEN MarkedColor(traverse(o, deep))
                      ELSE [MarkedColor(traverse(o, deep)) EXCEPT ![o] = "black"]
          /\ gray' = (gray \ {o}) \cup MarkedGray(traverse(o, deep))
    BY <1>2 DEF propagatemark
  <2>2. color' \in [Obj -> {"free", "white", "dead", "gray", "black"}]
    BY <2>1, MarkType
  <2>3. gray' \subseteq Obj
    BY <2>1, MarkType DEF TypeOK
  <2>4. QED
    BY <1>2, <2>2, <2>3 DEF propagatemark, TypeOK
<1>3. CASE atomic
  <2> DEFINE M1 == Reach(MarkedAtAtomic, visited)
             pending == tobefnz \cup separatetobefnz(M1)
             M2 == resurrect(M1, pending)
             tab1 == clearvalues(tab, weaktables("v") \cap M1, M1)
             tab2 == clearkeys(tab1, weaktables("k") \cap M2, M2)
             tab3 == clearvalues(tab2, weaktables("v") \cap (M2 \ M1), M2)
             strings == Strings \cap
               ( {tab[t][k] : t \in weaktables("v") \cap M1, k \in Keys}
                 \cup {tab2[t][k] : t \in weaktables("v") \cap (M2 \ M1), k \in Keys}
                 \cup {k \in Keys : \E t \in weaktables("k") \cap M2 : tab1[t][k] # Nil} )
             M == M2 \cup strings
  <2>1. /\ tobefnz' = pending
        /\ finobj' = finobj \ pending
        /\ entersweep(FlippedColor(M), tab3, allgc \ pending)
    BY <1>3 DEF atomic
  <2>2. tab3 \in [Tables -> [Keys -> Obj \cup {Nil}]]
    <3>1. tab1 \in [Tables -> [Keys -> Obj \cup {Nil}]]
      BY ClearType DEF TypeOK
    <3> HIDE DEF tab1
    <3>2. tab2 \in [Tables -> [Keys -> Obj \cup {Nil}]]
      BY <3>1, ClearType
    <3> HIDE DEF tab2
    <3>3. QED
      BY <3>2, ClearType
  <2>3. pending \subseteq Tables \cup Udata /\ finobj' \subseteq Tables \cup Udata
    <3> HIDE DEF M1, tab3, strings, M2
    <3> QED
      BY <2>1 DEF separatetobefnz, TypeOK
  <2> HIDE DEF pending, tab3, M
  <2>4. PICK S \in SUBSET (allgc \ pending) :
          sweeplist(FlippedColor(M), field, tab3, S) /\ unswept' = (allgc \ pending) \ S
    BY <2>1 DEF entersweep
  <2>5. allgc \subseteq Obj
    BY DEF allgc
  <2>6. HeapType' /\ ColorType'
    <3>1. FlippedColor(M) \in [Obj -> {"free", "white", "dead", "gray", "black"}]
      BY DEF FlippedColor
    <3>2. QED
      BY <2>2, <2>4, <2>5, <3>1, SweepType DEF TypeOK
  <2>7. QED
    BY <1>3, <2>1, <2>3, <2>4, <2>5, <2>6
    DEF atomic, entersweep, TypeOK, HeapType, ColorType
<1>4. ASSUME NEW from, NEW to \in GCStates, NEW nextlist \in SUBSET Obj,
             sweepstep(from, to, nextlist)
      PROVE  TypeOK'
  <2>1. PICK S \in SUBSET unswept :
          /\ sweeplist(color, field, tab, S)
          /\ IF S = unswept THEN gcstate' = to /\ unswept' = nextlist
             ELSE gcstate' = from /\ unswept' = unswept \ S
    BY <1>4 DEF sweepstep
  <2>2. HeapType' /\ ColorType'
    BY <2>1, SweepType DEF TypeOK
  <2>3. QED
    BY <1>4, <2>1, <2>2 DEF sweepstep, TypeOK, HeapType, ColorType
<1>5. CASE finishsweep
  BY <1>5 DEF finishsweep, TypeOK
<1>6. CASE endcycle
  BY <1>6 DEF endcycle, TypeOK
<1>7. QED
  BY <1>1, <1>2, <1>3, <1>4, <1>5, <1>6, KindsOK DEF singlestep, TypeOK, Kinds

LEMMA BarrierType ==
  ASSUME TypeOK, NEW o, NEW v, luaC_barrier(o, v)
  PROVE  ColorType' /\ gray' \subseteq Obj
BY MarkType DEF luaC_barrier, ColorType, TypeOK

LEMMA FullgcType ==
  ASSUME TypeOK, NEW kind \in FullKinds, luaC_fullgc(kind)
  PROVE  TypeOK'
<1> USE DEF GCStates, lists, fin, heap
<1>1. kind \in {"normal", "emergency"} /\ full' \in {"no", "finish", "cycle"}
  BY ConstantsOK DEF luaC_fullgc, firststage
<1>2. CASE keepinvariant
  <2>1. PICK S \in SUBSET allgc : sweeplist(color, field, tab, S) /\ unswept' = allgc \ S
    BY <1>2 DEF luaC_fullgc, entersweep
  <2>2. allgc \subseteq Obj
    BY DEF allgc
  <2>3. HeapType' /\ ColorType'
    BY <2>1, <2>2, SweepType DEF TypeOK
  <2>4. QED
    BY <1>1, <1>2, <2>1, <2>2, <2>3
    DEF luaC_fullgc, entersweep, TypeOK, HeapType, ColorType
<1>3. CASE ~ keepinvariant
  BY <1>1, <1>3 DEF luaC_fullgc, TypeOK
<1>4. QED
  BY <1>2, <1>3

LEMMA GCTMType ==
  ASSUME TypeOK, NEW o \in Obj, GCTM(o)
  PROVE  TypeOK'
<1> USE DEF ctl, lists
<1>1. stack' \in [Threads -> SUBSET Obj]
  BY DEF GCTM, TypeOK
<1>2. color' \in [Obj -> {"free", "white", "dead", "gray", "black"}]
  BY DEF GCTM, makewhite, TypeOK
<1>3. unswept' \subseteq Obj
  BY DEF GCTM, allgc, TypeOK
<1>4. QED
  BY <1>1, <1>2, <1>3 DEF GCTM, TypeOK

LEMMA MutatorType ==
  ASSUME TypeOK, mutator
  PROVE  TypeOK'
<1> USE DEF ctl, lists, fin, heap
<1>1. ASSUME NEW o \in Obj, Pushed(o)
      PROVE  stack' \in [Threads -> SUBSET Obj]
  BY <1>1 DEF Pushed, TypeOK
<1>2. ASSUME NEW o \in Obj, luaC_newobj(o)
      PROVE  TypeOK'
  <2>1. color' \in [Obj -> {"free", "white", "dead", "gray", "black"}]
    BY <1>2 DEF luaC_newobj, luaC_white, TypeOK
  <2>2. QED
    BY <1>1, <1>2, <2>1 DEF luaC_newobj, TypeOK
<1>3. ASSUME NEW o \in Obj, pop(o)
      PROVE  TypeOK'
  BY <1>3 DEF pop, TypeOK
<1>4. ASSUME NEW p \in Obj, NEW o \in Obj, push(p, o)
      PROVE  TypeOK'
  BY <1>1, <1>4 DEF push, TypeOK
<1>5. CASE pushbasicmt
  BY <1>1, <1>5, KindsOK DEF pushbasicmt, TypeOK, Kinds
<1>6. ASSUME NEW t \in Tables, NEW k \in Keys, NEW v \in Obj \cup {Nil}, settable(t, k, v)
      PROVE  TypeOK'
  <2>1. tab' \in [Tables -> [Keys -> Obj \cup {Nil}]]
    BY <1>6 DEF settable, TypeOK
  <2>2. /\ color' \in [Obj -> {"free", "white", "dead", "gray", "black"}]
        /\ grayagain' \subseteq Obj
    BY <1>6, KindsOK DEF settable, luaC_barrierback, TypeOK, Kinds
  <2>3. QED
    BY <1>6, <2>1, <2>2 DEF settable, TypeOK
<1>7. ASSUME NEW t \in Tables, NEW m \in Modes, setmode(t, m)
      PROVE  TypeOK'
  BY <1>7, ConstantsOK DEF setmode, TypeOK
<1>8. ASSUME NEW c \in CClosures, NEW v \in Obj \cup {Nil}, setupvalue(c, v)
      PROVE  TypeOK'
  <2>1. field' = [field EXCEPT ![c] = v] /\ luaC_barrier(c, v)
    BY <1>8 DEF setupvalue
  <2>2. ColorType' /\ gray' \subseteq Obj
    BY <2>1, BarrierType
  <2>3. /\ field' \in [Obj -> Obj \cup {Nil}]
        /\ \A u \in Udata : field'[u] \in Tables \cup {Nil}
        /\ \A x \in Strings \cup Threads : field'[x] = Nil
    BY <2>1, KindsOK DEF Kinds, TypeOK
  <2>4. QED
    BY <1>8, <2>2, <2>3 DEF setupvalue, TypeOK, ColorType
<1>9. ASSUME NEW o \in Tables \cup Udata, NEW m \in Metas \cup {Nil}, setmetatable(o, m)
      PROVE  TypeOK'
  <2> DEFINE fld == [field EXCEPT ![o] = m]
  <2>1. /\ fld \in [Obj -> Obj \cup {Nil}]
        /\ \A u \in Udata : fld[u] \in Tables \cup {Nil}
        /\ \A x \in Strings \cup Threads : fld[x] = Nil
    BY KindsOK DEF Kinds, TypeOK
  <2>2. finobj' \subseteq Tables \cup Udata
    BY <1>9 DEF setmetatable, TypeOK
  <2>3. CASE needsfinalizer(o, m) /\ issweepphase
    <3>1. PICK S \in SUBSET unswept :
            sweeplist(makewhite(o), fld, tab, S) /\ unswept' = unswept \ ({o} \cup S)
      BY <1>9, <2>3 DEF setmetatable
    <3>2. makewhite(o) \in [Obj -> {"free", "white", "dead", "gray", "black"}]
      BY DEF makewhite, TypeOK
    <3> HIDE DEF fld
    <3>3. S \subseteq Obj
      BY DEF TypeOK
    <3>4. HeapType' /\ ColorType'
      BY <2>1, <3>1, <3>2, <3>3, SweepType DEF TypeOK
    <3>5. gray' = gray
      BY <1>9, <2>3 DEF setmetatable
    <3>6. QED
      BY <1>9, <2>2, <3>1, <3>4, <3>5 DEF setmetatable, TypeOK, HeapType, ColorType
  <2>4. CASE ~ (needsfinalizer(o, m) /\ issweepphase)
    <3>1. /\ field' = fld /\ luaC_barrier(o, m)
          /\ UNCHANGED <<unswept, tab, mode, stack>>
      BY <1>9, <2>4 DEF setmetatable
    <3> HIDE DEF fld
    <3>2. ColorType' /\ gray' \subseteq Obj
      BY <3>1, BarrierType
    <3>3. QED
      BY <1>9, <2>1, <2>2, <3>1, <3>2 DEF setmetatable, TypeOK, ColorType
  <2>5. QED
    BY <2>3, <2>4
<1>10. ASSUME NEW m \in Metas \cup {Nil}, setbasicmt(m)
       PROVE  TypeOK'
  BY <1>10, KindsOK DEF setbasicmt, TypeOK, Kinds
<1>11. ASSUME NEW to \in Threads, NEW X \in SUBSET stack[L], switch(to, X)
       PROVE  TypeOK'
  BY <1>11 DEF switch, TypeOK
<1>12. ASSUME NEW c \in Coroutines, NEW X \in SUBSET stack[L], resume(c, X)
       PROVE  TypeOK'
  BY <1>11, <1>12 DEF resume, Threads
<1>13. ASSUME NEW X \in SUBSET stack[L], yield(X)
       PROVE  TypeOK'
  BY <1>11, <1>13 DEF yield, Threads
<1>14. QED
  BY <1>2, <1>3, <1>4, <1>5, <1>6, <1>7, <1>8, <1>9, <1>10, <1>12, <1>13 DEF mutator

LEMMA NextType == TypeOK /\ [Next]_vars => TypeOK'
<1>1. ASSUME TypeOK, Next
      PROVE  TypeOK'
  BY <1>1, SinglestepType, GCTMType, FullgcType, MutatorType DEF Next
<1>2. ASSUME TypeOK, UNCHANGED vars
      PROVE  TypeOK'
  BY <1>2 DEF TypeOK, vars, ctl, lists, fin, heap
<1>3. QED
  BY <1>1, <1>2

\* Every variable keeps its type, whatever the heap, the program and the flags:
\* no step of the collector puts a thing that is not an object in a list, a colour
\* it does not know on an object, or a metatable that is not a table.
THEOREM TypeCorrect == Spec => []TypeOK
<1>1. Init => TypeOK
  BY InitType
<1>2. TypeOK /\ [Next]_vars => TypeOK'
  BY NextType
<1>3. QED
  BY <1>1, <1>2, PTL DEF Spec

-----------------------------------------------------------------------------
(* Marking and references *)

\* The parts of the invariant other than the types.
Safe == /\ LiveRoots /\ LiveRefs /\ BlackToWhite /\ GrayListed
        /\ SweepInv /\ ListInv /\ PlaceInv

\* References change only with the heap.
LEMMA SameRefs == UNCHANGED heap => \A o : Refs(o)' = Refs(o)
BY DEF heap, Refs, Used

LEMMA RefsObj == TypeOK => \A o \in Obj : Refs(o) \subseteq Obj
BY ConstantsOK DEF TypeOK, Refs, Used

\* A string holds no reference, a userdata only its metatable.
LEMMA RefsLeaf ==
  TypeOK => /\ \A o \in Strings : Refs(o) = {}
            /\ \A o \in Udata : Refs(o) \subseteq {field[o]}
BY KindsOK DEF Kinds, TypeOK, Refs

\* What marking S does to each colour.
LEMMA MarkFacts ==
  ASSUME TypeOK, NEW S, NEW c, c = MarkedColor(S)
  PROVE  /\ c \in [Obj -> {"free", "white", "dead", "gray", "black"}]
         /\ \A o \in Obj : ~ iswhite(o) => c[o] = color[o]
         /\ \A o \in Obj : c[o] # color[o] => c[o] \in {"gray", "black"}
         /\ \A o \in Obj : o \in S => c[o] \notin {"white", "dead"}
         /\ \A o \in Obj : c[o] = "gray" => color[o] = "gray" \/ o \in MarkedGray(S)
         /\ \A o \in MarkedGray(S) : o \in Obj /\ iswhite(o) /\ c[o] = "gray"
         /\ \A o \in Obj : c[o] = "black" /\ ~ isblack(o) =>
              /\ o \in Strings \cup Udata
              /\ \A x \in Refs(o) : c[x] \notin {"white", "dead"}
<1>1. c = [o \in Obj |-> IF o \notin reallymark(S) THEN color[o]
                        ELSE IF o \in Strings \cup Udata THEN "black" ELSE "gray"]
  BY DEF MarkedColor
<1>2. reallymark(S) \subseteq Obj /\ \A o \in reallymark(S) : iswhite(o)
  BY DEF reallymark, Whites
<1>3. \A o \in Obj : o \in S /\ iswhite(o) => o \in reallymark(S)
  BY DEF reallymark, Whites
<1>4. \A o \in Obj : iswhite(o) <=> color[o] \in {"white", "dead"}
  BY DEF iswhite
<1>5. c \in [Obj -> {"free", "white", "dead", "gray", "black"}]
  BY <1>1 DEF TypeOK
<1>6. \A o \in Obj : ~ iswhite(o) => c[o] = color[o]
  BY <1>1, <1>2
<1>7. \A o \in Obj : c[o] # color[o] => c[o] \in {"gray", "black"}
  BY <1>1
<1>8. \A o \in Obj : o \in S => c[o] \notin {"white", "dead"}
  BY <1>1, <1>3, <1>4
<1>9. \A o \in Obj : c[o] = "gray" => color[o] = "gray" \/ o \in MarkedGray(S)
  BY <1>1 DEF MarkedGray
<1>10. \A o \in MarkedGray(S) : o \in Obj /\ iswhite(o) /\ c[o] = "gray"
  BY <1>1, <1>2 DEF MarkedGray
<1>11. ASSUME NEW o \in Obj, c[o] = "black", ~ isblack(o)
       PROVE  /\ o \in Strings \cup Udata
              /\ \A x \in Refs(o) : c[x] \notin {"white", "dead"}
  <2>1. o \in reallymark(S) /\ o \in Strings \cup Udata
    BY <1>1, <1>11 DEF isblack
  <2>2. CASE o \in Strings
    BY <2>1, <2>2, RefsLeaf
  <2>3. CASE o \in Udata
    <3>1. o \in Whites(S)
      BY <2>1, <2>3, KindsOK DEF reallymark, Whites, Kinds, TypeOK
    <3>2. ASSUME NEW x \in Refs(o)
          PROVE  c[x] \notin {"white", "dead"}
      <4>1. x = field[o] /\ x \in Obj
        BY <2>3, RefsLeaf, RefsObj
      <4>2. iswhite(x) => x \in reallymark(S)
        BY <2>3, <3>1, <4>1 DEF reallymark, Whites
      <4>3. QED
        BY <1>1, <1>4, <4>1, <4>2
    <3>3. QED
      BY <2>1, <3>2
  <2>4. QED
    BY <2>1, <2>2, <2>3
<1>12. QED
  BY <1>5, <1>6, <1>7, <1>8, <1>9, <1>10, <1>11

\* When no object is created or dies and the heap does not change, nothing dangles.
LEMMA KeepLive ==
  ASSUME TypeOK, LiveRefs, UNCHANGED heap, \A o \in Obj : Live(o)' <=> Live(o)
  PROVE  LiveRefs'
<1>1. \A o : Refs(o)' = Refs(o)
  BY SameRefs
<1>2. \A o \in Obj : Refs(o) \subseteq Obj
  BY RefsObj
<1>3. QED
  BY <1>1, <1>2 DEF LiveRefs

LEMMA RootsObj == TypeOK => Roots \cup {L} \cup finobj \cup tobefnz \subseteq Obj
BY KindsOK DEF TypeOK, Roots, Kinds

-----------------------------------------------------------------------------
(* The steps of the collector *)

LEMMA RestartSafe ==
  ASSUME IInv, restartcollection
  PROVE  Safe'
<1> DEFINE S == RootsToMark
<1>1. /\ gcstate = "pause" /\ gcstate' = "propagate"
      /\ color' = MarkedColor(S) /\ gray' = MarkedGray(S)
      /\ grayagain' = {} /\ allweak' = {}
      /\ UNCHANGED <<unswept, finobj, tobefnz, L, mt>> /\ UNCHANGED heap
  BY DEF restartcollection, fin
<1> HIDE DEF S
<1>2. TypeOK /\ LiveRoots /\ LiveRefs /\ SweepInv /\ ListInv /\ PlaceInv
  BY DEF IInv
<1>3. /\ unswept = {}
      /\ \A o \in Obj : color[o] \in {"free", "white"}
  BY <1>1, <1>2 DEF SweepInv, SweptList, ToSweep, TypeOK, keepinvariant
<1>4. /\ \A o \in Obj : ~ iswhite(o) => color'[o] = color[o]
      /\ \A o \in Obj : color'[o] # color[o] => color'[o] \in {"gray", "black"}
      /\ \A o \in Obj : color'[o] = "gray" => color[o] = "gray" \/ o \in gray'
      /\ \A o \in gray' : o \in Obj /\ iswhite(o) /\ color'[o] = "gray"
      /\ \A o \in Obj : color'[o] = "black" /\ ~ isblack(o) =>
              /\ o \in Strings \cup Udata
              /\ \A x \in Refs(o) : color'[x] \notin {"white", "dead"}
  BY <1>1, <1>2, MarkFacts
<1>5. \A o \in Obj : /\ color'[o] = "free" <=> color[o] = "free"
                     /\ color'[o] # "dead" /\ ~ isblack(o)
  BY <1>3, <1>4 DEF iswhite, isblack
<1>6. \A o \in Obj : Live(o)' <=> Live(o)
  BY <1>3, <1>5 DEF Live
<1>7. \A o : Refs(o)' = Refs(o)
  BY <1>1, SameRefs
<1>8. LiveRoots'
  BY <1>1, <1>2, <1>6, RootsObj DEF LiveRoots, Roots
<1>9. LiveRefs'
  BY <1>1, <1>2, <1>6, KeepLive
<1>10. BlackToWhite'
  BY <1>4, <1>5, <1>7 DEF BlackToWhite, isblack, iswhite
<1>11. GrayListed'
  BY <1>3, <1>4 DEF GrayListed
<1>12. SweepInv'
  BY <1>1, <1>3, <1>5 DEF SweepInv, SweptList, keepinvariant
<1>13. ListInv'
  <2>1. \A th \in Threads : ~ isblack(th)'
    BY <1>4, <1>5, KindsOK DEF isblack, Kinds
  <2>2. QED
    BY <1>1, <1>4, <2>1 DEF ListInv
<1>14. PlaceInv'
  BY <1>1, <1>2, <1>5, <1>7 DEF PlaceInv
<1>15. QED
  BY <1>8, <1>9, <1>10, <1>11, <1>12, <1>13, <1>14 DEF Safe

\* The traversal of an object that turns black marks all it refers to.
LEMMA TraverseAll ==
  ASSUME TypeOK, NEW o \in Obj, NEW deep \in BOOLEAN, o \notin Threads
  PROVE  /\ ~ staysgray(o) => Refs(o) \subseteq traverse(o, deep)
         /\ field[o] \in traverse(o, deep)
<1>1. field[o] \in traverse(o, deep)
  BY DEF traverse
<1>2. ASSUME o \in Tables, ~ staysgray(o)
      PROVE  Refs(o) \subseteq traverse(o, deep)
  <2>1. mode[o] = {}
    BY <1>2 DEF staysgray
  <2>2. MarkedKeys(o) = Used(o) /\ \A C : HeldKeys(o, C) = Keys
    BY <2>1 DEF MarkedKeys, HeldKeys
  <2>3. Used(o) \cup {tab[o][k] : k \in Keys} \subseteq traverse(o, deep)
    BY <1>2, <2>1, <2>2 DEF traverse, HeldValues
  <2>4. QED
    BY <1>1, <2>3 DEF Refs
<1>3. ASSUME o \notin Tables
      PROVE  Refs(o) \subseteq traverse(o, deep)
  BY <1>1, <1>3 DEF Refs
<1>4. QED
  BY <1>1, <1>2, <1>3

LEMMA PropagateSafe ==
  ASSUME IInv, NEW o \in Obj, propagatemark(o)
  PROVE  Safe'
<1>1. TypeOK /\ LiveRoots /\ LiveRefs /\ BlackToWhite /\ GrayListed
      /\ SweepInv /\ ListInv /\ PlaceInv
  BY DEF IInv
<1>2. PICK deep \in BOOLEAN :
        /\ color' = IF staysgray(o) THEN MarkedColor(traverse(o, deep))
                    ELSE [MarkedColor(traverse(o, deep)) EXCEPT ![o] = "black"]
        /\ gray' = (gray \ {o}) \cup MarkedGray(traverse(o, deep))
  BY DEF propagatemark
<1> DEFINE S == traverse(o, deep)
           c == MarkedColor(S)
<1>3. /\ gcstate = "propagate" /\ gcstate' \in {"propagate", "atomic"}
      /\ grayagain' = IF revisited(o) THEN grayagain \cup {o} ELSE grayagain
      /\ allweak' = IF o \in Tables /\ mode[o] = {"k", "v"}
                    THEN allweak \cup {o} ELSE allweak
      /\ UNCHANGED <<unswept, finobj, tobefnz, L, mt>> /\ UNCHANGED heap
  BY DEF propagatemark, fin
<1>4. /\ o \in gray /\ color[o] = "gray" /\ o \notin allweak
      /\ gray \cap allweak = {}
      /\ \A x \in gray \cup allweak : color[x] = "gray"
      /\ \A t \in allweak : field[t] # Nil => ~ iswhite(field[t])
  BY <1>1, <1>3 DEF propagatemark, ListInv, keepinvariant
<1>5. /\ unswept = {}
      /\ \A x \in Obj : color[x] # "dead"
  BY <1>1, <1>3 DEF SweepInv, SweptList
<1>6. /\ c \in [Obj -> {"free", "white", "dead", "gray", "black"}]
      /\ \A x \in Obj : ~ iswhite(x) => c[x] = color[x]
      /\ \A x \in Obj : c[x] # color[x] => c[x] \in {"gray", "black"}
      /\ \A x \in Obj : x \in S => c[x] \notin {"white", "dead"}
      /\ \A x \in Obj : c[x] = "gray" => color[x] = "gray" \/ x \in MarkedGray(S)
      /\ \A x \in MarkedGray(S) : x \in Obj /\ iswhite(x) /\ c[x] = "gray"
      /\ \A x \in Obj : c[x] = "black" /\ ~ isblack(x) =>
              /\ x \in Strings \cup Udata
              /\ \A y \in Refs(x) : c[y] \notin {"white", "dead"}
  BY <1>1, MarkFacts
<1>7. /\ c[o] = "gray"
      /\ color' = IF staysgray(o) THEN c ELSE [c EXCEPT ![o] = "black"]
      /\ gray' = (gray \ {o}) \cup MarkedGray(S)
  BY <1>2, <1>4, <1>6 DEF iswhite
<1>8. /\ field[o] \in S \/ o \in Threads
      /\ ~ staysgray(o) => o \notin Threads /\ Refs(o) \subseteq S
  BY <1>1, TraverseAll DEF staysgray
<1> HIDE DEF S, c
<1>9. /\ \A x \in Obj : x # o => color'[x] = c[x]
      /\ staysgray(o) => color'[o] = "gray"
      /\ ~ staysgray(o) => color'[o] = "black"
  BY <1>6, <1>7
<1>10. \A x \in Obj : /\ color'[x] = "free" <=> color[x] = "free"
                      /\ color'[x] # "dead"
                      /\ c[x] \notin {"white", "dead"} => color'[x] \notin {"white", "dead"}
                      /\ ~ iswhite(x) => ~ iswhite(x)'
  BY <1>4, <1>5, <1>6, <1>7, <1>9 DEF iswhite
<1>11. \A x \in Obj : Live(x)' <=> Live(x)
  BY <1>5, <1>10 DEF Live
<1>12. \A x : Refs(x)' = Refs(x)
  BY <1>3, SameRefs
<1>13. \A x \in Obj : Refs(x) \subseteq Obj
  BY <1>1, RefsObj
<1>14. LiveRoots'
  BY <1>1, <1>3, <1>11, RootsObj DEF LiveRoots, Roots
<1>15. LiveRefs'
  BY <1>1, <1>3, <1>11, KeepLive
<1>16. BlackToWhite'
  <2>1. ASSUME NEW x \in Obj, color'[x] = "black", NEW y \in Refs(x)
        PROVE  ~ iswhite(y)'
    <3>1. CASE x = o
      BY <1>6, <1>8, <1>9, <1>10, <1>13, <2>1, <3>1 DEF iswhite
    <3>2. CASE x # o /\ isblack(x)
      BY <1>1, <1>3, <1>10, <1>13, <2>1, <3>2 DEF BlackToWhite, keepinvariant
    <3>3. CASE x # o /\ ~ isblack(x)
      BY <1>6, <1>9, <1>10, <1>13, <2>1, <3>3 DEF iswhite
    <3>4. QED
      BY <3>1, <3>2, <3>3
  <2>2. QED
    BY <1>12, <2>1 DEF BlackToWhite, isblack
<1>17. GrayListed'
  <2>1. ASSUME NEW x \in Obj, color'[x] = "gray"
        PROVE  x \in gray' \cup grayagain' \cup allweak'
    <3>1. CASE x = o
      <4>1. staysgray(o)
        BY <1>9, <2>1, <3>1
      <4>2. ~ revisited(o) => o \in Tables /\ mode[o] = {"k", "v"}
        BY <1>1, <4>1 DEF staysgray, revisited, TypeOK
      <4>3. QED
        BY <1>3, <3>1, <4>2
    <3>2. CASE x # o
      <4>1. color[x] = "gray" \/ x \in MarkedGray(S)
        BY <1>6, <1>9, <2>1, <3>2
      <4>2. color[x] = "gray" => x \in gray \cup grayagain \cup allweak
        BY <1>1, <1>3 DEF GrayListed, keepinvariant
      <4>3. QED
        BY <1>3, <1>7, <3>2, <4>1, <4>2
    <3>3. QED
      BY <3>1, <3>2
  <2>2. QED
    BY <2>1 DEF GrayListed
<1>18. SweepInv'
  BY <1>3, <1>5, <1>10 DEF SweepInv, keepinvariant
<1>19. ListInv'
  <2>1. ASSUME NEW th \in Threads
        PROVE  color'[th] # "black"
    <3>1. th \in Obj /\ th \notin Strings \cup Udata
      BY KindsOK DEF Kinds
    <3>2. color[th] # "black"
      BY <1>1 DEF ListInv, isblack
    <3>3. th = o => color'[th] = "gray"
      BY <1>8, <1>9
    <3>4. QED
      BY <1>6, <1>9, <3>1, <3>2, <3>3 DEF isblack
  <2>2. gray' \cap allweak' = {}
    BY <1>3, <1>4, <1>6, <1>7 DEF iswhite
  <2>3. ASSUME NEW x \in gray' \cup allweak'
        PROVE  color'[x] = "gray"
    <3>1. CASE x = o
      <4>1. x \notin gray'
        BY <1>4, <1>6, <1>7, <3>1 DEF iswhite
      <4>2. x \in Tables /\ mode[x] # {}
        BY <1>3, <1>4, <2>3, <3>1, <4>1
      <4>3. QED
        BY <1>9, <3>1, <4>2 DEF staysgray
    <3>2. CASE x # o
      <4>1. x \in Obj
        BY <1>1, <1>3, <1>6, <1>7, <2>3, <3>2, KindsOK DEF TypeOK, Kinds
      <4>2. x \in gray \cup allweak \/ x \in MarkedGray(S)
        BY <1>3, <1>7, <2>3, <3>2
      <4>3. QED
        BY <1>4, <1>6, <1>9, <3>2, <4>1, <4>2 DEF iswhite
    <3>3. QED
      BY <3>1, <3>2
  <2>4. ASSUME NEW t \in allweak', field'[t] # Nil
        PROVE  ~ iswhite(field[t])'
    <3>1. /\ field'[t] = field[t] /\ t \in Tables
          /\ field[t] \in Obj
      BY <1>1, <1>3, <2>4, KindsOK DEF TypeOK, heap, Kinds
    <3>2. CASE t \in allweak
      BY <1>4, <1>10, <2>4, <3>1, <3>2 DEF iswhite
    <3>3. CASE t = o
      <4>1. field[t] \in S
        BY <1>8, <3>1, <3>3, KindsOK DEF Kinds
      <4>2. QED
        BY <1>6, <1>10, <3>1, <4>1 DEF iswhite
    <3>4. QED
      BY <1>3, <2>4, <3>2, <3>3
  <2>5. QED
    BY <2>1, <2>2, <2>3, <2>4 DEF ListInv, isblack
<1>20. PlaceInv'
  BY <1>1, <1>3, <1>10, <1>12 DEF PlaceInv
<1>21. QED
  BY <1>14, <1>15, <1>16, <1>17, <1>18, <1>19, <1>20 DEF Safe

-----------------------------------------------------------------------------
(* Sweeping *)

\* What o refers to when the fields are fld and the tables tb.
RefsIn(o, fld, tb) ==
  ( {fld[o]}
    \cup (IF o \in Threads THEN stack[o] ELSE {})
    \cup (IF o \in Tables THEN {k \in Keys : tb[o][k] # Nil} \cup {tb[o][k] : k \in Keys} ELSE {})
  ) \ {Nil}

LEMMA RefsInState == \A o : RefsIn(o, field, tab) = Refs(o)
BY DEF RefsIn, Refs, Used

LEMMA SweepColors ==
  ASSUME NEW col \in [Obj -> {"free", "white", "dead", "gray", "black"}],
         NEW fld, NEW tb, NEW S \in SUBSET Obj, sweeplist(col, fld, tb, S)
  PROVE  /\ \A o \in Obj : o \in S /\ col[o] = "dead" => color'[o] = "free"
         /\ \A o \in Obj : o \in S /\ col[o] # "dead" => color'[o] = "white"
         /\ \A o \in Obj : o \notin S => color'[o] = col[o]
BY DEF sweeplist

LEMMA SweepRefs ==
  ASSUME TypeOK, NEW col \in [Obj -> {"free", "white", "dead", "gray", "black"}],
         NEW fld \in [Obj -> Obj \cup {Nil}],
         NEW tb \in [Tables -> [Keys -> Obj \cup {Nil}]],
         NEW S \in SUBSET Obj, sweeplist(col, fld, tb, S), NEW o \in Obj
  PROVE  /\ o \in S /\ col[o] = "dead" => Refs(o)' = {}
         /\ ~ (o \in S /\ col[o] = "dead") => Refs(o)' = RefsIn(o, fld, tb)
<1>1. /\ field' = [x \in Obj |-> IF x \in S /\ col[x] = "dead" THEN Nil ELSE fld[x]]
      /\ tab' = [t \in Tables |-> IF t \in S /\ col[t] = "dead" THEN EmptyTable ELSE tb[t]]
      /\ stack' = [th \in Threads |-> IF th \in S /\ col[th] = "dead" THEN {} ELSE stack[th]]
  BY DEF sweeplist
<1>2. CASE o \in S /\ col[o] = "dead"
  <2>1. /\ field'[o] = Nil
        /\ o \in Threads => stack'[o] = {}
        /\ o \in Tables => \A k \in Keys : tab'[o][k] = Nil
    BY <1>1, <1>2 DEF EmptyTable
  <2>2. QED
    BY <1>2, <2>1 DEF Refs, Used
<1>3. CASE ~ (o \in S /\ col[o] = "dead")
  <2>1. /\ field'[o] = fld[o]
        /\ o \in Threads => stack'[o] = stack[o]
        /\ o \in Tables => tab'[o] = tb[o]
    BY <1>1, <1>3
  <2>2. QED
    BY <1>3, <2>1 DEF Refs, Used, RefsIn
<1>4. QED
  BY <1>2, <1>3

\* Sweeping a part of a heap where nothing dangles leaves one where nothing does.
LEMMA SweepKeeps ==
  ASSUME TypeOK, NEW col \in [Obj -> {"free", "white", "dead", "gray", "black"}],
         NEW fld \in [Obj -> Obj \cup {Nil}],
         NEW tb \in [Tables -> [Keys -> Obj \cup {Nil}]],
         NEW S \in SUBSET Obj, sweeplist(col, fld, tb, S),
         \A o \in S : col[o] # "free",
         \A o \in Obj : col[o] \notin {"free", "dead"} =>
           \A x \in RefsIn(o, fld, tb) : x \in Obj /\ col[x] \notin {"free", "dead"},
         \A o \in Obj : col[o] = "free" => RefsIn(o, fld, tb) = {}
  PROVE  /\ \A o \in Obj : Live(o)' <=> col[o] \notin {"free", "dead"}
         /\ LiveRefs'
         /\ \A o \in Obj : color'[o] = "free" => Refs(o)' = {}
<1>1. /\ \A o \in Obj : o \in S /\ col[o] = "dead" => color'[o] = "free"
      /\ \A o \in Obj : o \in S /\ col[o] # "dead" => color'[o] = "white"
      /\ \A o \in Obj : o \notin S => color'[o] = col[o]
  BY SweepColors
<1>2. \A o \in Obj : Live(o)' <=> col[o] \notin {"free", "dead"}
  BY <1>1 DEF Live
<1>3. \A o \in Obj : /\ o \in S /\ col[o] = "dead" => Refs(o)' = {}
                     /\ ~ (o \in S /\ col[o] = "dead") => Refs(o)' = RefsIn(o, fld, tb)
  BY SweepRefs
<1>4. LiveRefs'
  BY <1>2, <1>3 DEF LiveRefs
<1>5. \A o \in Obj : color'[o] = "free" => Refs(o)' = {}
  BY <1>1, <1>3
<1>6. QED
  BY <1>2, <1>4, <1>5

LEMMA SweepstepSafe ==
  ASSUME IInv, NEW from, NEW to, NEW nextlist, sweepstep(from, to, nextlist),
         \/ from = "swpallgc" /\ to = "swpfinobj" /\ nextlist = finobj
         \/ from = "swpfinobj" /\ to = "swptobefnz" /\ nextlist = tobefnz
         \/ from = "swptobefnz" /\ to = "swpend" /\ nextlist = {}
  PROVE  Safe'
<1>1. TypeOK /\ LiveRoots /\ LiveRefs /\ SweepInv /\ ListInv /\ PlaceInv
  BY DEF IInv
<1>2. PICK S \in SUBSET unswept :
        /\ sweeplist(color, field, tab, S)
        /\ IF S = unswept THEN gcstate' = to /\ unswept' = nextlist
           ELSE gcstate' = from /\ unswept' = unswept \ S
  BY DEF sweepstep
<1>3. gcstate = from /\ UNCHANGED <<gray, grayagain, allweak, finobj, tobefnz, L, mt>>
  BY DEF sweepstep, lists, fin
<1>4. S \in SUBSET Obj /\ color \in [Obj -> {"free", "white", "dead", "gray", "black"}]
      /\ field \in [Obj -> Obj \cup {Nil}] /\ tab \in [Tables -> [Keys -> Obj \cup {Nil}]]
  BY <1>1 DEF TypeOK
<1>5. \A o \in S : color[o] # "free"
  <2>1. unswept \subseteq SweptList
    BY <1>1 DEF SweepInv
  <2>2. \A o \in SweptList : color[o] # "free"
    BY <1>1 DEF SweptList, allgc, LiveRoots, Live
  <2>3. QED
    BY <2>1, <2>2
<1>6. /\ \A o \in Obj : Live(o)' <=> Live(o)
      /\ LiveRefs'
      /\ \A o \in Obj : color'[o] = "free" => Refs(o)' = {}
  BY <1>1, <1>2, <1>4, <1>5, SweepKeeps, RefsInState, RefsObj DEF LiveRefs, Live, PlaceInv
<1>7. /\ \A o \in Obj : o \in S /\ color[o] = "dead" => color'[o] = "free"
      /\ \A o \in Obj : o \in S /\ color[o] # "dead" => color'[o] = "white"
      /\ \A o \in Obj : o \notin S => color'[o] = color[o]
  BY <1>2, <1>4, SweepColors
<1>8. LiveRoots'
  BY <1>1, <1>3, <1>6, RootsObj DEF LiveRoots, Roots
<1>9. ~ keepinvariant' /\ ~ keepinvariant
  BY <1>2, <1>3 DEF keepinvariant
<1>10. SweepInv'
  <2>1. unswept' \subseteq SweptList'
    <3>1. unswept \subseteq SweptList
      BY <1>1 DEF SweepInv
    <3>2. CASE S = unswept
      BY <1>2, <1>3, <3>2 DEF SweptList
    <3>3. CASE S # unswept /\ from = "swpallgc"
      BY <1>2, <1>3, <1>4, <1>7, <3>1, <3>3 DEF SweptList, allgc
    <3>4. CASE S # unswept /\ from # "swpallgc"
      BY <1>2, <1>3, <3>1, <3>4 DEF SweptList
    <3>5. QED
      BY <3>2, <3>3, <3>4
  <2>2. ASSUME NEW o \in Obj, color'[o] = "dead"
        PROVE  gcstate' = "swpallgc" /\ o \in unswept'
    <3>1. o \notin S /\ color[o] = "dead"
      BY <1>7, <2>2
    <3>2. gcstate = "swpallgc" /\ o \in unswept
      BY <1>1, <3>1 DEF SweepInv
    <3>3. QED
      BY <1>2, <1>3, <3>1, <3>2
  <2>3. ASSUME NEW o \in Obj, color'[o] \in {"gray", "black"}
        PROVE  o \in ToSweep'
    <3>1. o \notin S /\ color[o] \in {"gray", "black"}
      BY <1>7, <2>3
    <3>2. o \in ToSweep
      BY <1>1, <1>9, <3>1 DEF SweepInv
    <3>3. QED
      BY <1>2, <1>3, <3>1, <3>2 DEF ToSweep
  <2>4. QED
    BY <2>1, <2>2, <2>3 DEF SweepInv
<1>11. \A th \in Threads : ~ isblack(th)'
  BY <1>1, <1>7, KindsOK DEF ListInv, isblack, Kinds
<1>12. QED
  BY <1>1, <1>3, <1>6, <1>8, <1>9, <1>10, <1>11
  DEF Safe, BlackToWhite, GrayListed, ListInv, PlaceInv

LEMMA FinishsweepSafe ==
  ASSUME IInv, finishsweep
  PROVE  Safe'
<1>1. TypeOK /\ LiveRoots /\ LiveRefs /\ SweepInv /\ ListInv /\ PlaceInv
  BY DEF IInv
<1>2. /\ gcstate = "swpend" /\ gcstate' = "callfin"
      /\ color' = [color EXCEPT ![MainThread] = "white"]
      /\ UNCHANGED <<gray, grayagain, allweak, unswept, finobj, tobefnz, L, mt>>
      /\ UNCHANGED heap
  BY DEF finishsweep, lists, fin
<1>3. MainThread \in Obj /\ Live(MainThread)
  BY <1>1, KindsOK DEF LiveRoots, Roots, Kinds
<1>4. \A o \in Obj : Live(o)' <=> Live(o)
  BY <1>1, <1>2, <1>3 DEF Live, TypeOK
<1>5. LiveRoots' /\ LiveRefs'
  BY <1>1, <1>2, <1>4, KeepLive, RootsObj DEF LiveRoots, Roots
<1>6. SweepInv'
  BY <1>1, <1>2, <1>3 DEF SweepInv, SweptList, ToSweep, TypeOK, keepinvariant
<1>7. \A th \in Threads : ~ isblack(th)'
  BY <1>1, <1>2, KindsOK DEF ListInv, isblack, Kinds, TypeOK
<1>8. PlaceInv'
  BY <1>1, <1>2, <1>3, SameRefs DEF PlaceInv, TypeOK, Live
<1>9. QED
  BY <1>2, <1>5, <1>6, <1>7, <1>8
  DEF Safe, BlackToWhite, GrayListed, ListInv, keepinvariant

\* A step that changes none of what Safe is about, but for leaving one state in
\* which nothing is left to sweep for another.
LEMMA EndcycleSafe ==
  ASSUME IInv, endcycle
  PROVE  Safe'
<1>1. TypeOK /\ LiveRoots /\ LiveRefs /\ SweepInv /\ ListInv /\ PlaceInv
  BY DEF IInv
<1>2. /\ gcstate = "callfin" /\ gcstate' = "pause" /\ UNCHANGED color
      /\ UNCHANGED <<gray, grayagain, allweak, unswept, finobj, tobefnz, L, mt>>
      /\ UNCHANGED heap
  BY DEF endcycle, lists, fin
<1>3. LiveRoots' /\ LiveRefs'
  BY <1>1, <1>2, KeepLive DEF LiveRoots, Roots, Live
<1>4. SweepInv'
  BY <1>1, <1>2 DEF SweepInv, SweptList, ToSweep, keepinvariant
<1>5. PlaceInv'
  BY <1>1, <1>2, SameRefs DEF PlaceInv
<1>6. QED
  BY <1>1, <1>2, <1>3, <1>4, <1>5
  DEF Safe, BlackToWhite, GrayListed, ListInv, keepinvariant, isblack

-----------------------------------------------------------------------------
(* The atomic phase *)

LEMMA ReachBase ==
  ASSUME NEW S \in SUBSET Obj, NEW skip
  PROVE  S \subseteq Reach(S, skip) /\ Reach(S, skip) \subseteq Obj
BY DEF Reach

LEMMA ReachLeast ==
  ASSUME NEW S, NEW skip, NEW C \in SUBSET Obj, S \subseteq C, Closed(C, skip)
  PROVE  Reach(S, skip) \subseteq C
<1>1. C = S \cup (C \ S) /\ C \ S \in SUBSET (Obj \ S)
  OBVIOUS
<1>2. C \in {S \cup X : X \in SUBSET (Obj \ S)}
  BY <1>1
<1>3. QED
  BY <1>2 DEF Reach

\* What the propagation marks is closed: nothing it marked has a reference it
\* should have followed and did not.
LEMMA ReachClosed ==
  ASSUME TypeOK, NEW S, NEW skip
  PROVE  Closed(Reach(S, skip), skip)
<1> DEFINE closed == {C \in {S \cup X : X \in SUBSET (Obj \ S)} : Closed(C, skip)}
           R == {o \in Obj : \A C \in closed : o \in C}
<1>1. Reach(S, skip) = R
  BY DEF Reach
<1>2. \A C \in closed : Closed(C, skip) /\ R \subseteq C
  OBVIOUS
<1>3. \A x \in Obj : (\A C \in closed : x \in C) => x \in R
  OBVIOUS
<1>4. R \subseteq Obj
  OBVIOUS
<1> HIDE DEF closed, R
<1>5. ASSUME NEW o \in R \ skip, field[o] # Nil
      PROVE  field[o] \in R
  <2>1. field[o] \in Obj
    BY <1>4, <1>5 DEF TypeOK
  <2>2. \A C \in closed : field[o] \in C
    BY <1>2, <1>5 DEF Closed
  <2>3. QED
    BY <1>3, <2>1, <2>2
<1>6. ASSUME NEW th \in (R \cap Threads) \ skip
      PROVE  stack[th] \subseteq R
  <2>1. stack[th] \subseteq Obj
    BY <1>6 DEF TypeOK
  <2>2. \A C \in closed : stack[th] \subseteq C
    BY <1>2, <1>6 DEF Closed
  <2>3. QED
    BY <1>3, <2>1, <2>2
<1>7. ASSUME NEW t \in (R \cap Tables) \ skip
      PROVE  MarkedKeys(t) \subseteq R \cup {Nil}
  <2>1. MarkedKeys(t) \subseteq Obj \cup {Nil}
    BY <1>7, ConstantsOK DEF MarkedKeys, Used, TypeOK
  <2>2. \A C \in closed : MarkedKeys(t) \subseteq C \cup {Nil}
    BY <1>2, <1>7 DEF Closed
  <2>3. QED
    BY <1>3, <2>1, <2>2
<1>8. ASSUME NEW t \in (R \cap Tables) \ skip, "v" \notin mode[t],
             NEW k \in Used(t) \cap HeldKeys(t, R)
      PROVE  tab[t][k] \in R
  <2>1. tab[t][k] \in Obj
    BY <1>8 DEF Used, TypeOK
  <2>2. ASSUME NEW C \in closed
        PROVE  tab[t][k] \in C
    <3>1. k \in HeldKeys(t, C)
      BY <1>2, <1>8, <2>2 DEF HeldKeys
    <3>2. QED
      BY <1>2, <1>8, <2>2, <3>1 DEF Closed
  <2>3. QED
    BY <1>3, <2>1, <2>2
<1>9. QED
  BY <1>1, <1>5, <1>6, <1>7, <1>8 DEF Closed

\* The objects that are not dead are closed when nothing dangles.
LEMMA LiveClosed ==
  ASSUME TypeOK, LiveRefs, NEW skip
  PROVE  Closed({o \in Obj : Live(o)}, skip)
<1> DEFINE A == {o \in Obj : Live(o)}
<1>1. \A o \in A : Refs(o) \subseteq A
  BY RefsObj DEF LiveRefs
<1>2. \A o \in A : field[o] # Nil => field[o] \in A
  BY <1>1 DEF Refs
<1>3. \A th \in A \cap Threads : stack[th] \subseteq A
  BY <1>1, KindsOK DEF Refs, TypeOK, Kinds
<1>4. \A t \in A \cap Tables : Used(t) \subseteq A \cup {Nil}
  BY <1>1 DEF Refs
<1>5. \A t \in A \cap Tables, k \in Keys : tab[t][k] # Nil => tab[t][k] \in A
  BY <1>1 DEF Refs
<1>6. \A t \in Tables : MarkedKeys(t) \subseteq Used(t)
  BY DEF MarkedKeys, TypeOK
<1> HIDE DEF A
<1>7. Closed(A, skip)
  BY <1>2, <1>3, <1>4, <1>5, <1>6 DEF Closed, Used
<1>8. QED
  BY <1>7 DEF A

\* What is left in a table after clearing is what was there, but the cleared.
LEMMA ClearFacts ==
  ASSUME NEW tb \in [Tables -> [Keys -> Obj \cup {Nil}]], NEW T, NEW M,
         NEW t \in Tables, NEW k \in Keys
  PROVE  /\ clearvalues(tb, T, M)[t][k] # Nil =>
              /\ clearvalues(tb, T, M)[t][k] = tb[t][k]
              /\ t \in T => tb[t][k] \in Strings \cup M
         /\ clearkeys(tb, T, M)[t][k] # Nil =>
              /\ clearkeys(tb, T, M)[t][k] = tb[t][k]
              /\ t \in T => k \in Strings \cup M \cup {Nil}
BY DEF clearvalues, clearkeys

\* The heart of the matter: what the atomic phase leaves unmarked, nothing it
\* leaves marked refers to.
LEMMA AtomicSafe ==
  ASSUME IInv, atomic
  PROVE  Safe'
<1> DEFINE M1 == Reach(MarkedAtAtomic, visited)
           pending == tobefnz \cup separatetobefnz(M1)
           M2 == resurrect(M1, pending)
           tab1 == clearvalues(tab, weaktables("v") \cap M1, M1)
           tab2 == clearkeys(tab1, weaktables("k") \cap M2, M2)
           tab3 == clearvalues(tab2, weaktables("v") \cap (M2 \ M1), M2)
           strings == Strings \cap
             ( {tab[t][k] : t \in weaktables("v") \cap M1, k \in Keys}
               \cup {tab2[t][k] : t \in weaktables("v") \cap (M2 \ M1), k \in Keys}
               \cup {k \in Keys : \E t \in weaktables("k") \cap M2 : tab1[t][k] # Nil} )
           M == M2 \cup strings
           col == FlippedColor(M)
           A == {o \in Obj : Live(o)}
<1>1. TypeOK /\ LiveRoots /\ LiveRefs /\ BlackToWhite /\ GrayListed
      /\ SweepInv /\ ListInv /\ PlaceInv
  BY DEF IInv
<1>2. /\ gcstate = "atomic"
      /\ tobefnz' = pending
      /\ finobj' = finobj \ pending
      /\ entersweep(col, tab3, allgc \ pending)
      /\ UNCHANGED <<L, mt>>
  BY DEF atomic
<1>3. /\ keepinvariant
      /\ unswept = {}
      /\ \A o \in Obj : color[o] # "dead"
  BY <1>1, <1>2 DEF SweepInv, SweptList, keepinvariant
<1>4. /\ \A o \in A : Refs(o) \subseteq A
      /\ A \subseteq Obj
      /\ \A o \in Obj : o \in A <=> color[o] # "free"
  BY <1>1, <1>3, RefsObj DEF LiveRefs, Live
<1>5. MarkedAtAtomic \subseteq A /\ finobj \cup tobefnz \subseteq A
  BY <1>1, RootsObj DEF MarkedAtAtomic, LiveRoots, Live
<1>6. /\ MarkedAtAtomic \subseteq M1 /\ M1 \subseteq A
      /\ M1 \cup pending \subseteq M2 /\ M2 \subseteq A
      /\ Closed(M2, visited)
  <2>1. MarkedAtAtomic \subseteq M1 /\ M1 \subseteq A
    BY <1>1, <1>4, <1>5, ReachBase, ReachLeast, LiveClosed
  <2> HIDE DEF M1
  <2>2. M1 \cup pending \subseteq A
    BY <1>5, <2>1 DEF separatetobefnz
  <2> HIDE DEF pending
  <2>3. M1 \cup pending \subseteq M2 /\ M2 \subseteq A
    BY <1>1, <1>4, <2>2, ReachBase, ReachLeast, LiveClosed DEF resurrect
  <2>4. Closed(M2, visited)
    BY <1>1, ReachClosed DEF resurrect
  <2>5. QED
    BY <2>1, <2>3, <2>4
<1>7. /\ pending = tobefnz \cup (finobj \ M1)
      /\ MainThread \in M1 /\ Registry \in M1 /\ L \in M1 /\ (mt # Nil => mt \in M1)
      /\ \A o \in Obj : color[o] \in {"gray", "black"} => o \in M1
  BY <1>6 DEF separatetobefnz, MarkedAtAtomic, Roots
<1>8. /\ tab \in [Tables -> [Keys -> Obj \cup {Nil}]]
      /\ tab1 \in [Tables -> [Keys -> Obj \cup {Nil}]]
      /\ tab2 \in [Tables -> [Keys -> Obj \cup {Nil}]]
      /\ tab3 \in [Tables -> [Keys -> Obj \cup {Nil}]]
  <2>1. tab \in [Tables -> [Keys -> Obj \cup {Nil}]]
    BY <1>1 DEF TypeOK
  <2>2. tab1 \in [Tables -> [Keys -> Obj \cup {Nil}]]
    BY <2>1, ClearType
  <2> HIDE DEF tab1
  <2>3. tab2 \in [Tables -> [Keys -> Obj \cup {Nil}]]
    BY <2>2, ClearType
  <2> HIDE DEF tab2
  <2>4. tab3 \in [Tables -> [Keys -> Obj \cup {Nil}]]
    BY <2>3, ClearType
  <2>5. QED
    BY <2>1, <2>2, <2>3, <2>4
<1> HIDE DEF M1, pending, M2
<1>9. ASSUME NEW t \in Tables, NEW k \in Keys, tab3[t][k] # Nil
      PROVE  /\ tab3[t][k] = tab[t][k] /\ tab2[t][k] = tab[t][k] /\ tab1[t][k] = tab[t][k]
             /\ t \in weaktables("v") \cap M1 => tab[t][k] \in Strings \cup M1
             /\ t \in weaktables("v") \cap (M2 \ M1) => tab[t][k] \in Strings \cup M2
             /\ t \in weaktables("k") \cap M2 => k \in Strings \cup M2 \cup {Nil}
  <2>1. /\ tab3[t][k] = tab2[t][k]
        /\ t \in weaktables("v") \cap (M2 \ M1) => tab2[t][k] \in Strings \cup M2
    <3>1. tab3[t][k] # Nil
      BY <1>9
    <3>2. tab2 \in [Tables -> [Keys -> Obj \cup {Nil}]]
      BY <1>8
    <3> HIDE DEF tab2
    <3>3. QED
      BY <3>1, <3>2, ClearFacts
  <2>2. /\ tab2[t][k] = tab1[t][k]
        /\ t \in weaktables("k") \cap M2 => k \in Strings \cup M2 \cup {Nil}
    <3>1. tab2[t][k] # Nil
      BY <1>9, <2>1
    <3>2. tab1 \in [Tables -> [Keys -> Obj \cup {Nil}]]
      BY <1>8
    <3> HIDE DEF tab1
    <3>3. QED
      BY <3>1, <3>2, ClearFacts
  <2>3. /\ tab1[t][k] = tab[t][k]
        /\ t \in weaktables("v") \cap M1 => tab[t][k] \in Strings \cup M1
    <3>1. tab1[t][k] # Nil
      BY <1>9, <2>1, <2>2
    <3>2. tab \in [Tables -> [Keys -> Obj \cup {Nil}]]
      BY <1>8
    <3>3. QED
      BY <3>1, <3>2, ClearFacts
  <2> HIDE DEF tab1, tab2, tab3
  <2>4. QED
    BY <2>1, <2>2, <2>3
<1> HIDE DEF tab3, tab2, tab1
\* The strings of the weak tables are marked when the tables are cleared.
<1>10. ASSUME NEW t \in Tables, NEW k \in Keys, tab3[t][k] # Nil, t \in M2
       PROVE  /\ t \in weaktables("v") => tab[t][k] \in M
              /\ t \in weaktables("k") => k \in M \cup {Nil}
  <2>1. ASSUME t \in weaktables("v") PROVE tab[t][k] \in M
    <3>1. CASE t \in M1
      <4>1. tab[t][k] \in Strings => tab[t][k] \in strings
        BY <2>1, <3>1
      <4>2. QED
        BY <1>6, <1>9, <1>10, <2>1, <3>1, <4>1
    <3>2. CASE t \notin M1
      <4>1. tab2[t][k] \in Strings => tab2[t][k] \in strings
        BY <1>10, <2>1, <3>2
      <4>2. QED
        BY <1>9, <1>10, <2>1, <3>2, <4>1
    <3>3. QED
      BY <3>1, <3>2
  <2>2. ASSUME t \in weaktables("k") PROVE k \in M \cup {Nil}
    <3>1. tab1[t][k] # Nil
      BY <1>9, <1>10
    <3>2. k \in Strings => k \in strings
      BY <1>10, <2>2, <3>1
    <3>3. QED
      BY <1>9, <1>10, <2>2, <3>2
  <2>3. QED
    BY <2>1, <2>2
<1>11. strings \subseteq A /\ strings \subseteq Strings
  <2>1. ASSUME NEW t \in Tables, t \in A, NEW k \in Keys, tab[t][k] # Nil
        PROVE  tab[t][k] \in A /\ k \in A \cup {Nil}
    BY <1>4, <2>1 DEF Refs, Used
  <2>2. /\ M1 \subseteq A /\ M2 \subseteq A
        /\ weaktables("v") \subseteq Tables /\ weaktables("k") \subseteq Tables
    BY <1>1, <1>6 DEF weaktables, TypeOK
  <2>3. \A s \in Strings : s # Nil
    BY KindsOK DEF Kinds
  <2>4. \A t \in Tables, k \in Keys :
          /\ tab2[t][k] # Nil => tab2[t][k] = tab1[t][k]
          /\ tab1[t][k] # Nil => tab1[t][k] = tab[t][k]
    <3>1. ASSUME NEW t \in Tables, NEW k \in Keys, tab2[t][k] # Nil
          PROVE  tab2[t][k] = tab1[t][k]
      <4>1. tab1 \in [Tables -> [Keys -> Obj \cup {Nil}]]
        BY <1>8
      <4>2. QED
        BY <3>1, <4>1, ClearFacts DEF tab2
    <3>2. \A t \in Tables, k \in Keys : tab1[t][k] # Nil => tab1[t][k] = tab[t][k]
      BY <1>8, ClearFacts DEF tab1
    <3>3. QED
      BY <3>1, <3>2
  <2> HIDE DEF A, tab1, tab2, strings
  <2>5. ASSUME NEW x \in strings
        PROVE  x \in A
    <3>1. x \in Strings
      BY DEF strings
    <3>2. CASE \E t \in weaktables("v") \cap M1, k \in Keys : x = tab[t][k]
      BY <2>1, <2>2, <2>3, <3>1, <3>2
    <3>3. CASE \E t \in weaktables("v") \cap (M2 \ M1), k \in Keys : x = tab2[t][k]
      <4>1. PICK t \in weaktables("v") \cap (M2 \ M1), k \in Keys : x = tab2[t][k]
        BY <3>3
      <4>2. t \in Tables /\ t \in A
        BY <2>2
      <4>3. tab2[t][k] # Nil
        BY <2>3, <3>1, <4>1
      <4>4. tab[t][k] # Nil /\ x = tab[t][k]
        BY <2>4, <4>1, <4>2, <4>3
      <4>5. QED
        BY <2>1, <4>2, <4>4
    <3>4. CASE x \in Keys /\ \E t \in weaktables("k") \cap M2 : tab1[t][x] # Nil
      <4>1. PICK t \in weaktables("k") \cap M2 : tab1[t][x] # Nil
        BY <3>4
      <4>2. t \in Tables /\ t \in A
        BY <2>2
      <4>3. tab[t][x] # Nil
        BY <2>4, <3>4, <4>1, <4>2
      <4>4. QED
        BY <2>1, <2>3, <3>1, <3>4, <4>2, <4>3
    <3>5. QED
      BY <3>2, <3>3, <3>4 DEF strings
  <2>6. QED
    BY <2>5 DEF strings
<1> HIDE DEF strings
<1>12. M \subseteq A /\ M \subseteq Obj
  BY <1>4, <1>6, <1>11
<1>13. ASSUME NEW o \in M
       PROVE  RefsIn(o, field, tab3) \subseteq M
  <2>1. o \in Obj /\ o \in A
    BY <1>12, <1>13
  <2>2. /\ RefsIn(o, field, tab3) \subseteq Refs(o)
        /\ Refs(o) \subseteq A
        /\ Nil \notin Refs(o)
    <3>1. o \in Tables => /\ {k \in Keys : tab3[o][k] # Nil} \subseteq Used(o)
                          /\ \A k \in Keys : tab3[o][k] \in {Nil, tab[o][k]}
      BY <1>9 DEF Used
    <3>2. QED
      BY <1>4, <2>1, <3>1 DEF RefsIn, Refs
  <2>3. CASE o \in Strings
    BY <1>1, <2>2, <2>3, RefsLeaf
  <2>4. CASE o \in visited /\ isblack(o)
    <3>1. \A x \in Refs(o) : x \in Obj /\ ~ iswhite(x) /\ color[x] \notin {"free", "dead"}
      BY <1>1, <1>3, <1>4, <2>1, <2>2, <2>4 DEF BlackToWhite, Live
    <3>2. \A x \in Refs(o) : color[x] \in {"gray", "black"}
      BY <1>1, <3>1 DEF iswhite, TypeOK
    <3>3. QED
      BY <1>6, <1>7, <2>2, <3>1, <3>2
  <2>5. CASE o \in visited /\ ~ isblack(o) /\ o \notin Strings
    <3>1. o \in allweak
      <4>1. color[o] = "gray"
        BY <1>1, <1>4, <2>1, <2>5 DEF visited, iswhite, isblack, TypeOK
      <4>2. QED
        BY <1>1, <1>3, <2>1, <2>5, <4>1 DEF GrayListed, visited
    <3>2. /\ o \in Tables /\ o \in M1 /\ o \in M2 /\ o \notin Threads
          /\ o \in weaktables("v") /\ o \in weaktables("k")
      <4>1. o \in Tables /\ color[o] = "gray"
        BY <1>1, <1>3, <3>1 DEF ListInv, TypeOK
      <4>2. QED
        BY <1>6, <1>7, <2>1, <3>1, <4>1, KindsOK DEF weaktables, Kinds
    <3>3. field[o] # Nil => field[o] \in M
      <4>1. field[o] # Nil => field[o] \in Obj /\ ~ iswhite(field[o]) /\ field[o] \in A
        BY <1>1, <1>3, <1>4, <2>1, <3>1 DEF ListInv, TypeOK, Refs
      <4>2. field[o] # Nil => color[field[o]] \in {"gray", "black"}
        BY <1>1, <1>4, <4>1 DEF iswhite, TypeOK
      <4>3. QED
        BY <1>6, <1>7, <4>1, <4>2
    <3>4. \A k \in Keys : tab3[o][k] # Nil => tab3[o][k] \in M /\ k \in M \cup {Nil}
      BY <1>9, <1>10, <3>2
    <3> HIDE DEF M
    <3>5. QED
      BY <3>2, <3>3, <3>4 DEF RefsIn
  <2>6. CASE o \notin visited /\ o \notin Strings
    <3>1. o \in M2
      BY <1>11, <1>13, <2>6
    <3>2. field[o] # Nil => field[o] \in M
      BY <1>6, <2>6, <3>1 DEF Closed
    <3>3. o \in Threads => stack[o] \subseteq M
      BY <1>6, <2>6, <3>1 DEF Closed
    <3>4. ASSUME o \in Tables, NEW k \in Keys, tab3[o][k] # Nil
          PROVE  tab3[o][k] \in M /\ k \in M \cup {Nil}
      <4>1. k \in Used(o) /\ tab3[o][k] = tab[o][k]
        BY <1>9, <3>4 DEF Used
      <4>2. /\ MarkedKeys(o) \subseteq M2 \cup {Nil}
            /\ "v" \notin mode[o] =>
                 \A x \in Used(o) \cap HeldKeys(o, M2) : tab[o][x] \in M2
        BY <1>6, <2>6, <3>1, <3>4 DEF Closed
      <4>3. /\ "v" \in mode[o] => o \in weaktables("v")
            /\ "k" \in mode[o] => o \in weaktables("k")
        BY <2>6, <3>4 DEF weaktables
      <4>4. k \in M \cup {Nil}
        <5>1. "k" \notin mode[o] => k \in MarkedKeys(o)
          BY <4>1 DEF MarkedKeys
        <5>2. QED
          BY <1>10, <3>1, <3>4, <4>2, <4>3, <5>1
      <4>5. "v" \notin mode[o] => k \in HeldKeys(o, M2)
        BY <1>9, <3>1, <3>4, <4>3 DEF HeldKeys
      <4>6. tab3[o][k] \in M
        BY <1>10, <3>1, <3>4, <4>1, <4>2, <4>3, <4>5
      <4>7. QED
        BY <4>4, <4>6
    <3> HIDE DEF M
    <3>5. QED
      BY <3>2, <3>3, <3>4 DEF RefsIn
  <2>7. QED
    BY <2>3, <2>4, <2>5, <2>6
<1> HIDE DEF M
<1>14. /\ col \in [Obj -> {"free", "white", "dead", "gray", "black"}]
       /\ \A o \in Obj : col[o] = "free" <=> color[o] = "free"
       /\ \A o \in Obj : col[o] = "dead" <=> color[o] # "free" /\ o \notin M
       /\ \A o \in Obj : col[o] \notin {"free", "dead"} <=> o \in M
       /\ \A o \in Obj : o \notin visited /\ staysgray(o) => col[o] # "black"
  <2>1. \A o \in Obj : o \in M => color[o] # "free"
    BY <1>4, <1>12
  <2>2. \A o \in Obj : /\ color[o] = "free" => col[o] = "free"
                       /\ color[o] # "free" /\ o \notin M => col[o] = "dead"
                       /\ color[o] # "free" /\ o \in M =>
                            /\ col[o] \in {"gray", "black"}
                            /\ o \notin visited /\ staysgray(o) => col[o] = "gray"
    BY DEF FlippedColor
  <2>3. col = [o \in Obj |-> col[o]]
    BY DEF FlippedColor
  <2> HIDE DEF col
  <2>4. QED
    BY <2>1, <2>2, <2>3
<1> HIDE DEF col
<1>15. PICK S \in SUBSET (allgc \ pending) :
         sweeplist(col, field, tab3, S) /\ unswept' = (allgc \ pending) \ S
  BY <1>2 DEF entersweep
<1>16. gcstate' = "swpallgc"
  BY <1>2 DEF entersweep
<1>17. /\ S \in SUBSET Obj /\ \A o \in S : col[o] # "free"
       /\ field \in [Obj -> Obj \cup {Nil}]
  BY <1>1, <1>14, <1>15 DEF allgc, TypeOK
<1>18. \A o \in Obj : col[o] = "free" => RefsIn(o, field, tab3) = {}
  <2>1. ASSUME NEW o \in Obj, col[o] = "free"
        PROVE  RefsIn(o, field, tab3) = {}
    <3>1. Refs(o) = {}
      BY <1>1, <1>14, <2>1 DEF PlaceInv
    <3>2. o \in Tables => \A k \in Keys : tab3[o][k] # Nil => tab3[o][k] = tab[o][k]
      BY <1>9
    <3>3. QED
      BY <3>1, <3>2 DEF RefsIn, Refs, Used
  <2>2. QED
    BY <2>1
<1>19. /\ \A o \in Obj : Live(o)' <=> o \in M
       /\ LiveRefs'
       /\ \A o \in Obj : color'[o] = "free" => Refs(o)' = {}
  <2>1. \A o \in Obj : col[o] \notin {"free", "dead"} =>
          \A x \in RefsIn(o, field, tab3) : x \in Obj /\ col[x] \notin {"free", "dead"}
    BY <1>12, <1>13, <1>14
  <2>2. /\ TypeOK /\ sweeplist(col, field, tab3, S)
        /\ col \in [Obj -> {"free", "white", "dead", "gray", "black"}]
        /\ tab3 \in [Tables -> [Keys -> Obj \cup {Nil}]]
    BY <1>1, <1>8, <1>14, <1>15
  <2> HIDE DEF A
  <2>3. \A o \in Obj : Live(o)' <=> col[o] \notin {"free", "dead"}
    BY <1>17, <1>18, <2>1, <2>2, SweepKeeps
  <2>4. LiveRefs'
    BY <1>17, <1>18, <2>1, <2>2, SweepKeeps
  <2>5. \A o \in Obj : color'[o] = "free" => Refs(o)' = {}
    BY <1>17, <1>18, <2>1, <2>2, SweepKeeps
  <2>6. QED
    BY <1>14, <2>3, <2>4, <2>5
<1>20. /\ \A o \in Obj : o \in S /\ col[o] = "dead" => color'[o] = "free"
       /\ \A o \in Obj : o \in S /\ col[o] # "dead" => color'[o] = "white"
       /\ \A o \in Obj : o \notin S => color'[o] = col[o]
  BY <1>14, <1>15, <1>17, SweepColors
<1>21. M1 \subseteq M /\ pending \subseteq M /\ finobj \ pending \subseteq M
  BY <1>6, <1>7 DEF M
<1>22. LiveRoots'
  BY <1>2, <1>7, <1>12, <1>19, <1>21 DEF LiveRoots, Roots
<1>23. SweepInv'
  <2>1. unswept' \subseteq SweptList'
    BY <1>2, <1>14, <1>15, <1>16, <1>17, <1>20 DEF SweptList, allgc
  <2>2. \A o \in Obj : o \notin S /\ color[o] # "free" =>
          o \in unswept' \cup finobj' \cup tobefnz' \cup {MainThread}
    BY <1>2, <1>7, <1>15 DEF allgc
  <2>3. ASSUME NEW o \in Obj, color'[o] = "dead"
        PROVE  o \in unswept'
    <3>1. o \notin S /\ color[o] # "free" /\ o \notin M
      BY <1>14, <1>20, <2>3
    <3>2. QED
      BY <1>2, <1>7, <1>21, <2>2, <3>1
  <2>4. ASSUME NEW o \in Obj, color'[o] \in {"gray", "black"}
        PROVE  o \in ToSweep'
    <3>1. o \notin S /\ color[o] # "free"
      BY <1>14, <1>20, <2>4
    <3>2. QED
      BY <1>16, <2>2, <3>1 DEF ToSweep
  <2>5. QED
    BY <1>16, <2>1, <2>3, <2>4 DEF SweepInv
<1>24. ListInv'
  <2>1. ASSUME NEW th \in Threads
        PROVE  color'[th] # "black"
    <3>1. th \in Obj /\ th \notin Tables /\ staysgray(th)
      BY KindsOK DEF Kinds, staysgray
    <3>2. ASSUME th \in visited, th \in M
          PROVE  FALSE
      <4>1. color[th] = "gray"
        BY <1>1, <1>4, <1>12, <3>1, <3>2 DEF visited, iswhite, ListInv, isblack, TypeOK
      <4>2. th \in allweak
        BY <1>1, <1>3, <3>1, <3>2, <4>1 DEF GrayListed, visited
      <4>3. QED
        BY <1>1, <3>1, <4>2 DEF TypeOK
    <3>3. col[th] # "black"
      BY <1>14, <3>1, <3>2
    <3>4. QED
      BY <1>20, <3>1, <3>3
  <2>2. ~ keepinvariant'
    BY <1>16 DEF keepinvariant
  <2>3. QED
    BY <2>1, <2>2 DEF ListInv, isblack
<1>25. PlaceInv'
  BY <1>2, <1>19 DEF PlaceInv
<1>26. ~ keepinvariant'
  BY <1>16 DEF keepinvariant
<1>27. QED
  BY <1>19, <1>22, <1>23, <1>24, <1>25, <1>26 DEF Safe, BlackToWhite, GrayListed

-----------------------------------------------------------------------------
(* Full collections and finalizers *)

\* A full collection started while there may be black objects makes every object
\* white again, in the sweep it enters at once.
LEMMA FullgcSafe ==
  ASSUME IInv, NEW kind, luaC_fullgc(kind)
  PROVE  Safe'
<1>1. TypeOK /\ LiveRoots /\ LiveRefs /\ BlackToWhite /\ GrayListed
      /\ SweepInv /\ ListInv /\ PlaceInv
  BY DEF IInv
<1>2. UNCHANGED <<gray, grayagain, allweak, finobj, tobefnz, L, mt>>
  BY DEF luaC_fullgc, lists, fin
<1>3. CASE keepinvariant
  <2>1. PICK S \in SUBSET allgc :
          sweeplist(color, field, tab, S) /\ unswept' = allgc \ S
    BY <1>3 DEF luaC_fullgc, entersweep
  <2>2. gcstate' = "swpallgc"
    BY <1>3 DEF luaC_fullgc, entersweep
  <2>3. \A o \in Obj : color[o] # "dead"
    BY <1>1, <1>3 DEF SweepInv, keepinvariant
  <2>4. S \in SUBSET Obj /\ color \in [Obj -> {"free", "white", "dead", "gray", "black"}]
        /\ field \in [Obj -> Obj \cup {Nil}] /\ tab \in [Tables -> [Keys -> Obj \cup {Nil}]]
        /\ \A o \in S : color[o] # "free"
    BY <1>1, <2>1 DEF TypeOK, allgc
  <2>5. /\ \A o \in Obj : Live(o)' <=> Live(o)
        /\ LiveRefs'
        /\ \A o \in Obj : color'[o] = "free" => Refs(o)' = {}
    BY <1>1, <2>1, <2>4, SweepKeeps, RefsInState, RefsObj DEF LiveRefs, Live, PlaceInv
  <2>6. \A o \in Obj : color'[o] = IF o \in S THEN "white" ELSE color[o]
    BY <2>1, <2>3, <2>4, SweepColors
  <2>7. LiveRoots'
    BY <1>1, <1>2, <2>5, RootsObj DEF LiveRoots, Roots
  <2>8. allgc' = allgc
    BY <1>2, <2>4, <2>6 DEF allgc
  <2>9. SweepInv'
    <3>1. unswept' \subseteq SweptList'
      BY <2>1, <2>2, <2>8 DEF SweptList
    <3>2. \A o \in Obj : color'[o] # "dead"
      BY <2>3, <2>6
    <3>3. ASSUME NEW o \in Obj, color'[o] \in {"gray", "black"}
          PROVE  o \in ToSweep'
      <4>1. o \notin S /\ color[o] # "free"
        BY <2>6, <3>3
      <4>2. o \in unswept' \cup finobj' \cup tobefnz' \cup {MainThread}
        BY <1>2, <2>1, <4>1 DEF allgc
      <4>3. QED
        BY <2>2, <4>2 DEF ToSweep
    <3>4. QED
      BY <3>1, <3>2, <3>3 DEF SweepInv
  <2>10. \A th \in Threads : ~ isblack(th)'
    BY <1>1, <2>6, KindsOK DEF ListInv, isblack, Kinds
  <2>11. ~ keepinvariant'
    BY <2>2 DEF keepinvariant
  <2>12. QED
    BY <1>1, <1>2, <2>5, <2>7, <2>9, <2>10, <2>11
    DEF Safe, BlackToWhite, GrayListed, ListInv, PlaceInv
<1>4. CASE ~ keepinvariant
  <2>1. UNCHANGED <<gcstate, color, unswept>> /\ UNCHANGED heap
    BY <1>4 DEF luaC_fullgc
  <2>2. LiveRoots' /\ LiveRefs'
    BY <1>1, <1>2, <2>1, KeepLive DEF LiveRoots, Roots, Live
  <2>3. SweepInv'
    BY <1>1, <1>2, <2>1 DEF SweepInv, SweptList, ToSweep, allgc, keepinvariant
  <2>4. PlaceInv'
    BY <1>1, <1>2, <2>1, SameRefs DEF PlaceInv
  <2>5. QED
    BY <1>1, <1>2, <1>4, <2>1, <2>2, <2>3, <2>4
    DEF Safe, BlackToWhite, GrayListed, ListInv, keepinvariant, isblack
<1>5. QED
  BY <1>3, <1>4

\* What changes when only stacks, modes and basic metatables do: threads are
\* never black, so that no barrier is needed.
LEMMA StackSafe ==
  ASSUME IInv, UNCHANGED <<gcstate, color, gray, grayagain, allweak, unswept,
                           finobj, tobefnz, field, tab>>,
         L' \in Obj, Live(L'), mt' # Nil => mt' \in Obj /\ Live(mt'),
         \A th \in Threads : Live(th) => \A x \in stack'[th] \ {Nil} : x \in Obj /\ Live(x),
         \A th \in Threads : color[th] = "free" => stack'[th] \subseteq {Nil}
  PROVE  Safe'
<1>1. TypeOK /\ LiveRoots /\ LiveRefs /\ BlackToWhite /\ GrayListed
      /\ SweepInv /\ ListInv /\ PlaceInv
  BY DEF IInv
<1>2. \A o : /\ o \notin Threads => Refs(o)' = Refs(o)
             /\ o \in Threads => Refs(o)' \subseteq Refs(o) \cup (stack'[o] \ {Nil})
             /\ o \in Threads /\ stack'[o] \subseteq {Nil} => Refs(o)' \subseteq Refs(o)
  BY DEF Refs, Used
<1>3. \A o \in Obj : Live(o)' <=> Live(o)
  BY DEF Live
<1>4. LiveRoots'
  BY <1>1, <1>3, RootsObj DEF LiveRoots, Roots
<1>5. LiveRefs'
  BY <1>1, <1>2, <1>3, RefsObj DEF LiveRefs
<1>6. BlackToWhite'
  BY <1>1, <1>2 DEF BlackToWhite, ListInv, keepinvariant, isblack, iswhite
<1>7. GrayListed' /\ ListInv'
  BY <1>1 DEF GrayListed, ListInv, keepinvariant, isblack, iswhite
<1>8. SweepInv'
  BY <1>1 DEF SweepInv, SweptList, ToSweep, allgc, keepinvariant
<1>9. PlaceInv'
  BY <1>1, <1>2 DEF PlaceInv
<1>10. QED
  BY <1>4, <1>5, <1>6, <1>7, <1>8, <1>9 DEF Safe

\* The program hands its references only on objects that are alive.
LEMMA AtHandLive ==
  IInv => \A x \in AtHand : x # Nil => x \in Obj /\ Live(x)
<1>1. SUFFICES ASSUME TypeOK, LiveRoots, LiveRefs
               PROVE  \A x \in AtHand : x # Nil => x \in Obj /\ Live(x)
  BY DEF IInv
<1>2. L \in Obj /\ Live(L) /\ Registry \in Obj /\ Live(Registry) /\ L \in Threads
  BY <1>1, RootsObj DEF LiveRoots, Roots, TypeOK
<1>3. stack[L] \ {Nil} \subseteq Refs(L)
  BY <1>2 DEF Refs
<1>4. \A x \in Refs(L) : x \in Obj /\ Live(x)
  BY <1>1, <1>2, RefsObj DEF LiveRefs
<1>5. QED
  BY <1>2, <1>3, <1>4 DEF AtHand

\* A push is all that changes what a thread refers to.
LEMMA StackRefs ==
  ASSUME UNCHANGED <<field, tab>>, NEW x, NEW X
  PROVE  /\ x \notin Threads \/ stack'[x] = stack[x] => Refs(x)' = Refs(x)
         /\ stack'[x] \subseteq stack[x] \cup X => Refs(x)' \subseteq Refs(x) \cup X
BY DEF Refs, Used

\* A finalizer that is called while 'tobefnz' is swept does not break the sweep, as
\* long as it does not take the object 'sweepgc' points into.
LEMMA GCTMSafe ==
  ASSUME IInv, ~ Overtake, NEW o \in Obj, GCTM(o)
  PROVE  Safe'
<1>1. TypeOK /\ LiveRoots /\ LiveRefs /\ BlackToWhite /\ GrayListed
      /\ SweepInv /\ ListInv /\ PlaceInv
  BY DEF IInv
<1>2. /\ o \in tobefnz /\ tobefnz' = tobefnz \ {o}
      /\ unswept' = unswept \ {o}
      /\ color' = makewhite(o)
      /\ UNCHANGED <<gcstate, gray, grayagain, allweak, finobj, field, tab, mode, L, mt>>
  BY DEF GCTM, ctl, lists
<1>3. /\ Live(o) /\ L \in Threads
      /\ \A th \in Threads : stack'[th] \subseteq stack[th] \cup {o}
      /\ \A th \in Threads : th # L => stack'[th] = stack[th]
  BY <1>1 DEF LiveRoots, GCTM, TypeOK
<1>4. /\ \A x \in Obj : x # o => color'[x] = color[x]
      /\ issweepphase => color'[o] = "white"
      /\ ~ issweepphase => color'[o] = color[o]
  BY <1>1, <1>2 DEF makewhite, TypeOK
<1>5. \A x \in Obj : Live(x)' <=> Live(x)
  BY <1>3, <1>4 DEF Live
<1>6. /\ \A x : x \notin Threads \/ x # L => Refs(x)' = Refs(x)
      /\ \A x : Refs(x)' \subseteq Refs(x) \cup {o}
  BY <1>2, <1>3, StackRefs
<1>7. L \in Obj /\ Live(L) /\ o # Nil
  BY <1>1, RootsObj, KindsOK DEF LiveRoots, Kinds
<1>8. LiveRoots'
  BY <1>1, <1>2, <1>5, RootsObj DEF LiveRoots, Roots
<1>9. LiveRefs'
  <2>1. ASSUME NEW x \in Obj, Live(x)', NEW y \in Refs(x)'
        PROVE  Live(y)'
    <3>1. y \in Refs(x) \/ y = o
      BY <1>6, <2>1
    <3>2. y \in Refs(x) => y \in Obj /\ Live(y)
      <4>1. Live(x) /\ Refs(x) \subseteq Obj
        BY <1>1, <1>5, <2>1, RefsObj
      <4>2. QED
        BY <1>1, <4>1 DEF LiveRefs
    <3>3. QED
      BY <1>3, <1>5, <3>1, <3>2
  <2>2. QED
    BY <2>1 DEF LiveRefs
<1>10. keepinvariant => ~ issweepphase
  BY DEF keepinvariant, issweepphase
<1>11. BlackToWhite'
  <2>1. ASSUME keepinvariant, NEW x \in Obj, color'[x] = "black", NEW y \in Refs(x)'
        PROVE  ~ iswhite(y)'
    <3>1. isblack(x) /\ x # L
      BY <1>1, <1>3, <1>4, <1>10, <2>1 DEF ListInv, isblack
    <3>2. y \in Refs(x) /\ y \in Obj
      BY <1>1, <1>6, <2>1, <3>1, RefsObj
    <3>3. QED
      BY <1>1, <1>4, <1>10, <2>1, <3>1, <3>2 DEF BlackToWhite, iswhite
  <2>2. QED
    BY <1>2, <2>1 DEF BlackToWhite, isblack, keepinvariant
<1>12. GrayListed' /\ ListInv'
  <2>1. keepinvariant' <=> keepinvariant
    BY <1>2 DEF keepinvariant
  <2>2. keepinvariant => \A x \in Obj : color'[x] = color[x]
    BY <1>4, <1>10
  <2>3. \A th \in Threads : color'[th] # "black"
    BY <1>1, <1>4, KindsOK DEF ListInv, isblack, Kinds
  <2>4. gray \cup allweak \subseteq Obj
    BY <1>1, KindsOK DEF TypeOK, Kinds
  <2>5. \A t \in allweak : field[t] # Nil => field[t] \in Obj
    BY <1>1, <2>4 DEF TypeOK
  <2>6. QED
    BY <1>1, <1>2, <2>1, <2>2, <2>3, <2>4, <2>5
    DEF GrayListed, ListInv, isblack, iswhite
<1>13. SweepInv'
  <2>1. unswept' \subseteq SweptList'
    <3>1. unswept \subseteq SweptList
      BY <1>1 DEF SweepInv
    <3>2. allgc \subseteq allgc'
      BY <1>2, <1>3, <1>4 DEF allgc, Live
    <3>3. QED
      BY <1>2, <3>1, <3>2 DEF SweptList
  <2>2. ASSUME NEW x \in Obj, color'[x] = "dead"
        PROVE  gcstate' = "swpallgc" /\ x \in unswept'
    <3>1. x # o /\ color[x] = "dead"
      BY <1>3, <1>4, <2>2 DEF Live
    <3>2. QED
      BY <1>1, <1>2, <3>1 DEF SweepInv
  <2>3. ASSUME ~ keepinvariant, NEW x \in Obj, color'[x] \in {"gray", "black"}
        PROVE  x \in ToSweep'
    <3>1. color[x] \in {"gray", "black"} /\ (x = o => ~ issweepphase)
      BY <1>4, <2>3
    <3>2. x \in ToSweep
      BY <1>1, <2>3, <3>1 DEF SweepInv
    <3>3. ~ issweepphase => ToSweep = {}
      BY <1>1, <2>3 DEF ToSweep, SweepInv, SweptList, issweepphase, keepinvariant, TypeOK
    <3>4. x # o /\ ToSweep \ {o} \subseteq ToSweep'
      BY <1>2, <3>1, <3>2, <3>3 DEF ToSweep
    <3>5. QED
      BY <3>2, <3>4
  <2>4. QED
    BY <1>2, <2>1, <2>2, <2>3 DEF SweepInv, keepinvariant
<1>14. PlaceInv'
  <2>1. \A x \in Obj : color'[x] = "free" => color[x] = "free" /\ x # L
    BY <1>3, <1>4, <1>7 DEF Live
  <2>2. QED
    BY <1>1, <1>2, <1>6, <2>1 DEF PlaceInv
<1>15. QED
  BY <1>8, <1>9, <1>11, <1>12, <1>13, <1>14 DEF Safe

-----------------------------------------------------------------------------
(* The program *)

\* A new object is white, refers to nothing, and is on the stack.
LEMMA NewobjSafe ==
  ASSUME IInv, NEW o \in Obj, luaC_newobj(o)
  PROVE  Safe'
<1>1. TypeOK /\ LiveRoots /\ LiveRefs /\ BlackToWhite /\ GrayListed
      /\ SweepInv /\ ListInv /\ PlaceInv
  BY DEF IInv
<1>2. /\ color[o] = "free" /\ color' = [color EXCEPT ![o] = "white"]
      /\ stack' = [stack EXCEPT ![L] = @ \cup {o}]
      /\ UNCHANGED <<gcstate, gray, grayagain, allweak, unswept, finobj, tobefnz,
                     field, tab, mode, L, mt>>
  BY DEF luaC_newobj, luaC_white, Pushed, ctl, lists, fin
<1>3. /\ L \in Threads /\ L \in Obj /\ L # o /\ ~ Live(o)
  BY <1>1, <1>2, RootsObj DEF LiveRoots, Live, TypeOK
<1>4. /\ \A x \in Obj : x # o => color'[x] = color[x]
      /\ color'[o] = "white"
  BY <1>1, <1>2 DEF TypeOK
<1>5. \A x \in Obj : Live(x)' <=> Live(x) \/ x = o
  BY <1>4 DEF Live
<1>6. /\ \A x : x \notin Threads \/ x # L => Refs(x)' = Refs(x)
      /\ \A x : Refs(x)' \subseteq Refs(x) \cup {o}
  <2>1. /\ \A th \in Threads : stack'[th] \subseteq stack[th] \cup {o}
        /\ \A th \in Threads : th # L => stack'[th] = stack[th]
    BY <1>1, <1>2 DEF TypeOK
  <2>2. QED
    BY <1>2, <2>1, StackRefs
<1>7. Refs(o) = {}
  BY <1>1, <1>2 DEF PlaceInv
<1>8. LiveRoots'
  BY <1>1, <1>2, <1>5, RootsObj DEF LiveRoots, Roots
<1>9. LiveRefs'
  <2>1. ASSUME NEW x \in Obj, Live(x)', NEW y \in Refs(x)'
        PROVE  Live(y)'
    <3>1. CASE x = o
      BY <1>3, <1>6, <1>7, <2>1, <3>1
    <3>2. CASE x # o /\ y # o
      <4>1. Live(x) /\ y \in Refs(x)
        BY <1>5, <1>6, <2>1, <3>2
      <4>2. y \in Obj
        BY <1>1, <4>1, RefsObj
      <4>3. QED
        BY <1>1, <1>5, <4>1, <4>2 DEF LiveRefs
    <3>3. CASE y = o
      BY <1>5, <3>3
    <3>4. QED
      BY <3>1, <3>2, <3>3
  <2>2. QED
    BY <2>1 DEF LiveRefs
<1>10. keepinvariant' <=> keepinvariant
  BY <1>2 DEF keepinvariant
<1>11. BlackToWhite'
  <2>1. ASSUME keepinvariant, NEW x \in Obj, color'[x] = "black", NEW y \in Refs(x)'
        PROVE  ~ iswhite(y)'
    <3>1. isblack(x) /\ x # L /\ x # o
      BY <1>1, <1>3, <1>4, <2>1 DEF ListInv, isblack
    <3>2. y \in Refs(x) /\ y \in Obj
      BY <1>1, <1>6, <2>1, <3>1, RefsObj
    <3>3. Live(x)
      BY <3>1 DEF Live, isblack
    <3>4. y # o
      BY <1>1, <1>3, <3>2, <3>3 DEF LiveRefs
    <3>5. QED
      BY <1>1, <1>4, <2>1, <3>1, <3>2, <3>4 DEF BlackToWhite, iswhite
  <2>2. QED
    BY <1>10, <2>1 DEF BlackToWhite, isblack
<1>12. GrayListed' /\ ListInv'
  <2>1. keepinvariant => o \notin gray \cup allweak
    BY <1>1, <1>2 DEF ListInv
  <2>2. \A th \in Threads : color'[th] # "black"
    BY <1>1, <1>4, KindsOK DEF ListInv, isblack, Kinds
  <2>3. gray \cup allweak \subseteq Obj
    BY <1>1, KindsOK DEF TypeOK, Kinds
  <2>4. keepinvariant => \A t \in allweak : field[t] # Nil => field[t] \in Obj /\ field[t] # o
    <3>1. ASSUME keepinvariant, NEW t \in allweak, field[t] # Nil
          PROVE  field[t] \in Obj /\ field[t] # o
      <4>1. t \in Obj /\ Live(t) /\ field[t] \in Refs(t)
        BY <1>1, <2>3, <3>1 DEF ListInv, Live, Refs
      <4>2. QED
        BY <1>1, <1>3, <4>1, RefsObj DEF LiveRefs
    <3>2. QED
      BY <3>1
  <2>5. QED
    BY <1>1, <1>2, <1>4, <1>10, <2>1, <2>2, <2>3, <2>4
    DEF GrayListed, ListInv, isblack, iswhite
<1>13. SweepInv'
  <2>1. o \notin finobj \cup tobefnz \cup {MainThread}
    BY <1>1, <1>3 DEF LiveRoots, Roots
  <2>2. allgc \subseteq allgc'
    BY <1>2, <1>4 DEF allgc
  <2>3. unswept' \subseteq SweptList'
    BY <1>1, <1>2, <2>2 DEF SweepInv, SweptList
  <2>4. ToSweep' = ToSweep
    BY <1>2 DEF ToSweep
  <2>5. QED
    BY <1>1, <1>2, <1>4, <1>10, <2>3, <2>4 DEF SweepInv
<1>14. PlaceInv'
  BY <1>1, <1>2, <1>3, <1>4, <1>6 DEF PlaceInv, Live, LiveRoots
<1>15. QED
  BY <1>8, <1>9, <1>11, <1>12, <1>13, <1>14 DEF Safe

\* t[k] = v: the backward barrier, with the one of a new key.
LEMMA SettableSafe ==
  ASSUME IInv, NEW t \in Tables, NEW k, NEW v, settable(t, k, v)
  PROVE  Safe'
<1>1. TypeOK /\ LiveRoots /\ LiveRefs /\ BlackToWhite /\ GrayListed
      /\ SweepInv /\ ListInv /\ PlaceInv
  BY DEF IInv
<1> DEFINE new == NewRefs(t, k, v) \ {Nil}
<1>2. /\ tab' = [tab EXCEPT ![t][k] = v] /\ k \in Keys
      /\ luaC_barrierback(t, NewRefs(t, k, v))
      /\ UNCHANGED <<gcstate, gray, allweak, unswept, finobj, tobefnz, field, mode,
                     stack, L, mt>>
  BY DEF settable, ctl, fin
<1>3. /\ Live(t) /\ t \in Obj /\ t \notin Threads
      /\ \A x \in new : x \in Obj /\ Live(x)
  BY AtHandLive, KindsOK DEF settable, NewRefs, Kinds
<1>4. /\ \A x \in Obj : x # t => color'[x] = color[x]
      /\ \/ color'[t] = color[t] /\ grayagain' = grayagain
            /\ (isblack(t) => \A x \in new : ~ iswhite(x))
         \/ isblack(t) /\ color'[t] = "gray" /\ grayagain' = grayagain \cup {t}
  <2>1. CASE isblack(t) /\ Whites(NewRefs(t, k, v)) # {}
    BY <1>1, <1>2, <1>3, <2>1 DEF luaC_barrierback, TypeOK
  <2>2. CASE ~ (isblack(t) /\ Whites(NewRefs(t, k, v)) # {})
    BY <1>2, <1>3, <2>2 DEF luaC_barrierback, Whites
  <2>3. QED
    BY <2>1, <2>2
<1>5. /\ \A x \in Obj : x # t => Refs(x)' = Refs(x)
      /\ Refs(t)' \subseteq Refs(t) \cup new
  <2>1. /\ \A x \in Tables : x # t => tab'[x] = tab[x]
        /\ \A j \in Keys : tab'[t][j] = IF j = k THEN v ELSE tab[t][j]
    BY <1>1, <1>2 DEF TypeOK
  <2>2. \A x \in Obj : x # t => Refs(x)' = Refs(x)
    BY <1>2, <2>1 DEF Refs, Used
  <2>3. Used(t)' \subseteq Used(t) \cup NewRefs(t, k, v) \cup {Nil}
    BY <2>1 DEF Used, NewRefs
  <2>4. \A j \in Keys : tab'[t][j] \in {tab[t][j]} \cup NewRefs(t, k, v)
    BY <2>1 DEF NewRefs
  <2>5. Refs(t)' \subseteq Refs(t) \cup new
    BY <1>2, <1>3, <2>3, <2>4 DEF Refs
  <2>6. QED
    BY <2>2, <2>5
<1> HIDE DEF new
<1>6. \A x \in Obj : Live(x)' <=> Live(x)
  BY <1>3, <1>4 DEF Live, isblack
<1>7. LiveRoots'
  BY <1>1, <1>2, <1>6, RootsObj DEF LiveRoots, Roots
<1>8. LiveRefs'
  <2>1. ASSUME NEW x \in Obj, Live(x)', NEW y \in Refs(x)'
        PROVE  Live(y)'
    <3>1. Live(x) /\ Refs(x) \subseteq Obj
      BY <1>1, <1>6, <2>1, RefsObj
    <3>2. y \in Refs(x) \/ y \in new
      BY <1>5, <2>1
    <3>3. y \in Obj /\ Live(y)
      BY <1>1, <1>3, <2>1, <3>1, <3>2 DEF LiveRefs
    <3>4. QED
      BY <1>6, <3>3
  <2>2. QED
    BY <2>1 DEF LiveRefs
<1>9. keepinvariant' <=> keepinvariant
  BY <1>2 DEF keepinvariant
<1>10. BlackToWhite'
  <2>1. ASSUME keepinvariant, NEW x \in Obj, color'[x] = "black", NEW y \in Refs(x)'
        PROVE  ~ iswhite(y)'
    <3>1. isblack(x) /\ (x = t => \A z \in new : ~ iswhite(z))
      BY <1>4, <2>1 DEF isblack
    <3>2. y \in Refs(x) \/ (x = t /\ y \in new)
      BY <1>5, <2>1
    <3>3. y \in Obj /\ ~ iswhite(y)
      BY <1>1, <1>3, <2>1, <3>1, <3>2, RefsObj DEF BlackToWhite
    <3>4. QED
      BY <1>4, <3>3 DEF iswhite
  <2>2. QED
    BY <1>9, <2>1 DEF BlackToWhite, isblack
<1>11. GrayListed'
  BY <1>1, <1>2, <1>4, <1>9 DEF GrayListed
<1>12. ListInv'
  <2>1. gray \cup allweak \subseteq Obj
    BY <1>1, KindsOK DEF TypeOK, Kinds
  <2>2. \A x \in Obj : /\ color[x] = "gray" => color'[x] = "gray"
                       /\ ~ iswhite(x) => ~ iswhite(x)'
    BY <1>4 DEF iswhite, isblack
  <2>3. \A x \in allweak : field[x] # Nil => field[x] \in Obj
    BY <1>1, <2>1 DEF TypeOK
  <2>4. \A th \in Threads : color'[th] # "black"
    BY <1>1, <1>3, <1>4, KindsOK DEF ListInv, isblack, Kinds
  <2>5. QED
    BY <1>1, <1>2, <1>9, <2>1, <2>2, <2>3, <2>4 DEF ListInv, isblack
<1>13. SweepInv'
  <2>1. allgc' = allgc
    BY <1>2, <1>3, <1>4 DEF allgc, Live, isblack
  <2>2. \A x \in Obj : /\ color'[x] = "dead" => color[x] = "dead"
                       /\ color'[x] \in {"gray", "black"} => color[x] \in {"gray", "black"}
    BY <1>4 DEF isblack
  <2>3. ToSweep' = ToSweep /\ SweptList' = SweptList
    BY <1>2, <2>1 DEF ToSweep, SweptList
  <2>4. QED
    BY <1>1, <1>2, <1>9, <2>2, <2>3 DEF SweepInv
<1>14. PlaceInv'
  <2>1. \A x \in Obj : color'[x] = "free" => color[x] = "free" /\ x # t
    BY <1>3, <1>4 DEF Live, isblack
  <2>2. QED
    BY <1>1, <1>2, <1>5, <2>1 DEF PlaceInv
<1>15. QED
  BY <1>7, <1>8, <1>10, <1>11, <1>12, <1>13, <1>14 DEF Safe

\* The forward barrier: an object o, not linked in 'allweak', gets another
\* reference v in its field.
LEMMA BarrierSafe ==
  ASSUME IInv, NEW o \in Obj \ Threads, NEW v \in Obj \cup {Nil}, Live(o),
         v # Nil => Live(v), luaC_barrier(o, v), keepinvariant => o \notin allweak,
         field' = [field EXCEPT ![o] = v],
         UNCHANGED <<gcstate, grayagain, allweak, unswept, tobefnz, tab, stack, L, mt>>,
         \/ UNCHANGED finobj
         \/ finobj' = finobj \cup {o} /\ ~ issweepphase /\ o \notin tobefnz
  PROVE  Safe'
<1>1. TypeOK /\ LiveRoots /\ LiveRefs /\ BlackToWhite /\ GrayListed
      /\ SweepInv /\ ListInv /\ PlaceInv
  BY DEF IInv
<1>2. /\ \A x \in Obj : x # o => Refs(x)' = Refs(x)
      /\ Refs(o)' \subseteq Refs(o) \cup ({v} \ {Nil})
  <2>1. \A x \in Obj : field'[x] = IF x = o THEN v ELSE field[x]
    BY <1>1 DEF TypeOK
  <2>2. QED
    BY <2>1 DEF Refs, Used
<1>3. /\ keepinvariant' <=> keepinvariant
      /\ keepinvariant => ~ issweepphase
  BY DEF keepinvariant, issweepphase
<1>4. /\ \A x \in Obj : Live(x)' <=> Live(x)
      /\ \A x \in Obj : color'[x] = "free" <=> color[x] = "free"
      /\ \A x \in Obj : color'[x] = "dead" <=> color[x] = "dead"
      /\ keepinvariant => \A x \in Obj : ~ iswhite(x) => color'[x] = color[x]
      /\ ~ keepinvariant => \A x \in Obj : color'[x] \in {"gray", "black"} => color'[x] = color[x]
      /\ keepinvariant => \A x \in Obj : color'[x] = "gray" => color[x] = "gray" \/ x \in gray'
      /\ gray \subseteq gray'
      /\ keepinvariant => \A x \in gray' : x \in gray \/ (x \in Obj /\ iswhite(x) /\ color'[x] = "gray")
      /\ keepinvariant /\ isblack(o) /\ v # Nil => ~ iswhite(v)'
      /\ keepinvariant => \A x \in Obj : color'[x] = "black" /\ ~ isblack(x) =>
           /\ x \in Strings \cup Udata
           /\ \A y \in Refs(x) : color'[y] \notin {"white", "dead"}
  <2>1. CASE v # Nil /\ isblack(o) /\ iswhite(v) /\ keepinvariant
    <3>1. color' = MarkedColor({v}) /\ gray' = gray \cup MarkedGray({v})
      BY <2>1 DEF luaC_barrier
    <3>2. \A x \in Obj : color[x] # "dead"
      BY <1>1, <2>1 DEF SweepInv, keepinvariant
    <3>3. /\ \A x \in Obj : ~ iswhite(x) => color'[x] = color[x]
          /\ \A x \in Obj : color'[x] # color[x] => color'[x] \in {"gray", "black"}
          /\ color'[v] \notin {"white", "dead"}
          /\ \A x \in Obj : color'[x] = "gray" => color[x] = "gray" \/ x \in MarkedGray({v})
          /\ \A x \in MarkedGray({v}) : x \in Obj /\ iswhite(x) /\ color'[x] = "gray"
          /\ \A x \in Obj : color'[x] = "black" /\ ~ isblack(x) =>
               /\ x \in Strings \cup Udata
               /\ \A y \in Refs(x) : color'[y] \notin {"white", "dead"}
      BY <1>1, <2>1, <3>1, MarkFacts
    <3>4. \A x \in Obj : /\ color'[x] = "free" <=> color[x] = "free"
                         /\ color'[x] # "dead"
      BY <3>2, <3>3 DEF iswhite
    <3>5. QED
      BY <2>1, <3>1, <3>2, <3>3, <3>4 DEF Live, iswhite
  <2>2. CASE v # Nil /\ isblack(o) /\ iswhite(v) /\ ~ keepinvariant
    <3>1. gray' = gray /\ \A x \in Obj : color'[x] = IF x = o THEN "white" ELSE color[x]
      BY <1>1, <2>2 DEF luaC_barrier, TypeOK
    <3>2. QED
      BY <2>2, <3>1 DEF Live, isblack
  <2>3. CASE ~ (v # Nil /\ isblack(o) /\ iswhite(v))
    <3>1. gray' = gray /\ color' = color
      BY <2>3 DEF luaC_barrier
    <3>2. QED
      BY <2>3, <3>1 DEF Live, iswhite, isblack
  <2>4. QED
    BY <2>1, <2>2, <2>3
<1>5. LiveRoots'
  BY <1>1, <1>4, RootsObj DEF LiveRoots, Roots
<1>6. LiveRefs'
  <2>1. ASSUME NEW x \in Obj, Live(x)', NEW y \in Refs(x)'
        PROVE  Live(y)'
    <3>1. Live(x) /\ Refs(x) \subseteq Obj
      BY <1>1, <1>4, <2>1, RefsObj
    <3>2. y \in Refs(x) \/ (y = v /\ v # Nil)
      BY <1>2, <2>1
    <3>3. y \in Obj /\ Live(y)
      BY <1>1, <2>1, <3>1, <3>2 DEF LiveRefs
    <3>4. QED
      BY <1>4, <3>3
  <2>2. QED
    BY <2>1 DEF LiveRefs
<1>7. BlackToWhite'
  <2>1. ASSUME keepinvariant, NEW x \in Obj, color'[x] = "black", NEW y \in Refs(x)'
        PROVE  ~ iswhite(y)'
    <3>1. CASE ~ isblack(x)
      <4>1. CASE x # o
        BY <1>2, <1>4, <2>1, <3>1, <4>1 DEF iswhite
      <4>2. CASE x = o
        BY <2>1, <3>1, <4>2 DEF luaC_barrier, isblack
      <4>3. QED
        BY <4>1, <4>2
    <3>2. CASE isblack(x) /\ y \in Refs(x)
      <4>1. y \in Obj /\ ~ iswhite(y)
        BY <1>1, <2>1, <3>2, RefsObj DEF BlackToWhite
      <4>2. QED
        BY <1>4, <2>1, <4>1 DEF iswhite
    <3>3. CASE isblack(x) /\ y \notin Refs(x)
      BY <1>2, <1>4, <2>1, <3>3
    <3>4. QED
      BY <3>1, <3>2, <3>3
  <2>2. QED
    BY <1>3, <2>1 DEF BlackToWhite, isblack
<1>8. GrayListed'
  BY <1>1, <1>3, <1>4 DEF GrayListed
<1>9. ListInv'
  <2>1. gray \cup allweak \subseteq Obj
    BY <1>1, KindsOK DEF TypeOK, Kinds
  <2>2. ASSUME NEW th \in Threads
        PROVE  color'[th] # "black"
    <3>1. th \in Obj /\ th \notin Strings \cup Udata
      BY KindsOK DEF Kinds
    <3>2. color[th] # "black"
      BY <1>1 DEF ListInv, isblack
    <3>3. QED
      BY <1>4, <3>1, <3>2 DEF isblack
  <2>3. ASSUME keepinvariant
        PROVE  /\ gray' \cap allweak = {}
               /\ \A x \in gray' \cup allweak : color'[x] = "gray"
    <3>1. /\ gray \cap allweak = {}
          /\ \A x \in gray \cup allweak : color[x] = "gray" /\ ~ iswhite(x)
      BY <1>1, <2>3 DEF ListInv, iswhite
    <3>2. QED
      BY <1>4, <2>1, <2>3, <3>1
  <2>4. ASSUME keepinvariant, NEW x \in allweak, field'[x] # Nil
        PROVE  ~ iswhite(field[x])'
    <3>1. x # o /\ field'[x] = field[x] /\ field[x] \in Obj
      BY <1>1, <2>1, <2>4 DEF TypeOK
    <3>2. ~ iswhite(field[x])
      BY <1>1, <2>4, <3>1 DEF ListInv
    <3>3. QED
      BY <1>4, <2>4, <3>1, <3>2 DEF iswhite
  <2>5. QED
    BY <1>3, <2>2, <2>3, <2>4 DEF ListInv, isblack
<1>10. SweepInv'
  <2>1. allgc' = allgc \/ (~ issweepphase /\ unswept = {})
    BY <1>1, <1>4 DEF allgc, SweepInv, SweptList, issweepphase
  <2>2. unswept' \subseteq SweptList'
    BY <1>1, <2>1 DEF SweepInv, SweptList
  <2>3. ToSweep \subseteq ToSweep'
    BY DEF ToSweep, issweepphase
  <2>4. QED
    BY <1>1, <1>3, <1>4, <2>2, <2>3 DEF SweepInv
<1>11. PlaceInv'
  <2>1. \A x \in Obj : color'[x] = "free" => color[x] = "free" /\ x # o
    BY <1>4 DEF Live
  <2>2. finobj' \cap tobefnz' = {}
    BY <1>1 DEF PlaceInv
  <2>3. QED
    BY <1>1, <1>2, <2>1, <2>2 DEF PlaceInv
<1>12. QED
  BY <1>5, <1>6, <1>7, <1>8, <1>9, <1>10, <1>11 DEF Safe

\* An object that gets a finalizer while the lists are swept is swept first, and so
\* are the dead objects 'sweepgc' goes over when it leaves its list.
LEMMA CheckfinalizerSafe ==
  ASSUME IInv, NEW o \in Tables \cup Udata, NEW m \in Tables \cup {Nil},
         Live(o), m # Nil => Live(m), o \notin tobefnz, issweepphase,
         NEW S \in SUBSET (unswept \ {o}),
         sweeplist(makewhite(o), [field EXCEPT ![o] = m], tab, S),
         unswept' = unswept \ ({o} \cup S), finobj' = finobj \cup {o},
         UNCHANGED <<gcstate, gray, grayagain, allweak, tobefnz, L, mt>>
  PROVE  Safe'
<1> DEFINE col == makewhite(o)
           fld == [field EXCEPT ![o] = m]
<1>1. TypeOK /\ LiveRoots /\ LiveRefs /\ SweepInv /\ ListInv /\ PlaceInv
  BY DEF IInv
<1>2. /\ o \in Obj /\ o \notin Threads
      /\ \A x \in Obj : col[x] = IF x = o THEN "white" ELSE color[x]
      /\ col \in [Obj -> {"free", "white", "dead", "gray", "black"}]
      /\ fld \in [Obj -> Obj \cup {Nil}]
      /\ tab \in [Tables -> [Keys -> Obj \cup {Nil}]]
      /\ \A x \in Obj : fld[x] = IF x = o THEN m ELSE field[x]
      /\ sweeplist(col, fld, tab, S)
  BY <1>1, KindsOK DEF makewhite, TypeOK, Kinds
<1> HIDE DEF col, fld
<1>3. \A x \in Obj : col[x] \notin {"free", "dead"} <=> Live(x)
  BY <1>2 DEF Live
<1>4. S \in SUBSET Obj /\ \A x \in S : col[x] # "free" /\ color[x] # "free"
  <2>1. \A x \in SweptList : x \in Obj /\ color[x] # "free"
    BY <1>1, RootsObj DEF SweptList, allgc, LiveRoots, Live
  <2>2. QED
    BY <1>1, <1>2, <2>1 DEF SweepInv
<1>5. /\ \A x \in Obj : x # o => RefsIn(x, fld, tab) = Refs(x)
      /\ RefsIn(o, fld, tab) \subseteq Refs(o) \cup ({m} \ {Nil})
  BY <1>2 DEF RefsIn, Refs, Used
<1>6. \A x \in Obj : col[x] \notin {"free", "dead"} =>
        \A y \in RefsIn(x, fld, tab) : y \in Obj /\ col[y] \notin {"free", "dead"}
  <2>1. ASSUME NEW x \in Obj, Live(x), NEW y \in RefsIn(x, fld, tab)
        PROVE  y \in Obj /\ Live(y)
    <3>1. y \in Refs(x) \/ (y = m /\ m # Nil)
      BY <1>5, <2>1
    <3>2. Refs(x) \subseteq Obj /\ (m # Nil => m \in Obj)
      BY <1>1, <2>1, RefsObj, KindsOK DEF Kinds
    <3>3. QED
      BY <1>1, <2>1, <3>1, <3>2 DEF LiveRefs
  <2>2. QED
    BY <1>3, <2>1
<1>7. \A x \in Obj : col[x] = "free" => RefsIn(x, fld, tab) = {}
  BY <1>1, <1>2, <1>5 DEF PlaceInv
<1>8. /\ \A x \in Obj : Live(x)' <=> col[x] \notin {"free", "dead"}
      /\ LiveRefs'
      /\ \A x \in Obj : color'[x] = "free" => Refs(x)' = {}
  BY <1>1, <1>2, <1>4, <1>6, <1>7, SweepKeeps
<1>9. /\ \A x \in Obj : x \in S /\ col[x] = "dead" => color'[x] = "free"
      /\ \A x \in Obj : x \in S /\ col[x] # "dead" => color'[x] = "white"
      /\ \A x \in Obj : x \notin S => color'[x] = col[x]
  BY <1>2, <1>4, SweepColors
<1>10. LiveRoots'
  BY <1>1, <1>2, <1>3, <1>8, RootsObj DEF LiveRoots, Roots
<1>11. ~ keepinvariant' /\ ~ keepinvariant
  BY DEF keepinvariant, issweepphase
<1>12. SweepInv'
  <2>1. unswept' \subseteq SweptList'
    <3>1. unswept \subseteq SweptList
      BY <1>1 DEF SweepInv
    <3>2. CASE gcstate = "swpallgc"
      BY <1>2, <1>4, <1>9, <3>1, <3>2 DEF SweptList, allgc
    <3>3. CASE gcstate # "swpallgc"
      BY <3>1, <3>3 DEF SweptList
    <3>4. QED
      BY <3>2, <3>3
  <2>2. ASSUME NEW x \in Obj, color'[x] = "dead"
        PROVE  gcstate' = "swpallgc" /\ x \in unswept'
    <3>1. x \notin S /\ x # o /\ color[x] = "dead"
      BY <1>2, <1>9, <2>2
    <3>2. QED
      BY <1>1, <3>1 DEF SweepInv
  <2>3. ASSUME NEW x \in Obj, color'[x] \in {"gray", "black"}
        PROVE  x \in ToSweep'
    <3>1. x \notin S /\ x # o /\ color[x] \in {"gray", "black"}
      BY <1>2, <1>9, <2>3
    <3>2. x \in ToSweep
      BY <1>1, <1>11, <3>1 DEF SweepInv
    <3>3. QED
      BY <3>1, <3>2 DEF ToSweep
  <2>4. QED
    BY <2>1, <2>2, <2>3 DEF SweepInv
<1>13. \A th \in Threads : color'[th] # "black"
  BY <1>1, <1>2, <1>9, KindsOK DEF ListInv, isblack, Kinds
<1>14. PlaceInv'
  BY <1>1, <1>8 DEF PlaceInv
<1>15. QED
  BY <1>8, <1>10, <1>11, <1>12, <1>13, <1>14
  DEF Safe, BlackToWhite, GrayListed, ListInv, isblack

LEMMA SetmetatableSafe ==
  ASSUME IInv, ~ RemetaAllWeak, NEW o \in Tables \cup Udata, NEW m \in Metas \cup {Nil},
         setmetatable(o, m)
  PROVE  Safe'
<1>1. /\ o \in Obj /\ o \notin Threads /\ m \in Tables \cup {Nil} /\ m \in Obj \cup {Nil}
      /\ Live(o) /\ (m # Nil => Live(m))
      /\ (keepinvariant => o \notin allweak)
  BY AtHandLive, KindsOK, ConstantsOK DEF setmetatable, Kinds
<1>2. /\ finobj' = IF needsfinalizer(o, m) THEN finobj \cup {o} ELSE finobj
      /\ UNCHANGED <<gcstate, grayagain, allweak, tobefnz, L, mt>>
  BY DEF setmetatable, ctl
<1>3. CASE needsfinalizer(o, m) /\ issweepphase
  <2>1. PICK S \in SUBSET (unswept \ {o}) :
          /\ sweeplist(makewhite(o), [field EXCEPT ![o] = m], tab, S)
          /\ unswept' = unswept \ ({o} \cup S)
    BY <1>3 DEF setmetatable
  <2>2. UNCHANGED gray /\ o \notin tobefnz
    BY <1>3 DEF setmetatable, needsfinalizer
  <2>3. QED
    BY <1>1, <1>2, <1>3, <2>1, <2>2, CheckfinalizerSafe
<1>4. CASE ~ (needsfinalizer(o, m) /\ issweepphase)
  <2>1. /\ luaC_barrier(o, m)
        /\ field' = [field EXCEPT ![o] = m]
        /\ UNCHANGED <<unswept, tab, mode, stack>>
    BY <1>4 DEF setmetatable
  <2>2. \/ UNCHANGED finobj
        \/ finobj' = finobj \cup {o} /\ ~ issweepphase /\ o \notin tobefnz
    BY <1>2, <1>4 DEF needsfinalizer
  <2>3. QED
    BY <1>1, <1>2, <2>1, <2>2, BarrierSafe
<1>5. QED
  BY <1>3, <1>4

LEMMA SetupvalueSafe ==
  ASSUME IInv, NEW c \in CClosures, NEW v, setupvalue(c, v)
  PROVE  Safe'
<1>1. /\ c \in Obj \ Threads /\ v \in Obj \cup {Nil} /\ Live(c) /\ (v # Nil => Live(v))
  BY AtHandLive, KindsOK DEF setupvalue, Kinds
<1>2. c \notin allweak
  <2>1. TypeOK
    BY DEF IInv
  <2>2. QED
    BY <2>1, KindsOK DEF TypeOK, Kinds
<1>3. /\ luaC_barrier(c, v) /\ field' = [field EXCEPT ![c] = v]
      /\ UNCHANGED <<gcstate, grayagain, allweak, unswept, tobefnz, tab, stack, L, mt>>
      /\ UNCHANGED finobj
  BY DEF setupvalue, ctl, fin
<1>4. QED
  BY <1>1, <1>2, <1>3, BarrierSafe

\* The operations that need no barrier.
LEMMA StackOpsSafe ==
  ASSUME IInv,
         \/ \E o \in Obj : pop(o)
         \/ \E p, o \in Obj : push(p, o)
         \/ pushbasicmt
         \/ \E t \in Tables, m \in Modes : setmode(t, m)
         \/ \E m \in Metas \cup {Nil} : setbasicmt(m)
         \/ \E co \in Coroutines, X \in SUBSET stack[L] : resume(co, X)
         \/ \E X \in SUBSET stack[L] : yield(X)
  PROVE  Safe'
<1>1. TypeOK /\ LiveRoots /\ LiveRefs /\ PlaceInv
  BY DEF IInv
<1>2. /\ L \in Threads /\ L \in Obj /\ Live(L) /\ Threads \subseteq Obj
      /\ MainThread \in Obj /\ Live(MainThread)
      /\ mt # Nil => mt \in Obj /\ Live(mt)
  BY <1>1, RootsObj, KindsOK DEF LiveRoots, Roots, TypeOK, Kinds
<1>3. \A th \in Threads : stack[th] \ {Nil} \subseteq Refs(th)
  BY <1>2 DEF Refs
<1>4. \A th \in Threads : color[th] = "free" => stack[th] \subseteq {Nil}
  BY <1>1, <1>2, <1>3 DEF PlaceInv
<1>5. ASSUME NEW th \in Threads, Live(th), NEW x \in stack[th] \ {Nil}
      PROVE  x \in Obj /\ Live(x)
  <2>1. th \in Obj /\ x \in Refs(th) /\ x \in Obj
    BY <1>1, <1>2, <1>3, <1>5 DEF TypeOK
  <2>2. QED
    BY <1>1, <1>5, <2>1 DEF LiveRefs
<1>6. ASSUME UNCHANGED <<gcstate, color, gray, grayagain, allweak, unswept,
                         finobj, tobefnz, field, tab>>,
             L' \in Obj, Live(L'), mt' # Nil => mt' \in Obj /\ Live(mt'),
             NEW X, \A x \in X \ {Nil} : x \in Obj /\ Live(x),
             \A th \in Threads : \/ stack'[th] \subseteq stack[th]
                                 \/ Live(th) /\ stack'[th] \subseteq stack[th] \cup X
      PROVE  Safe'
  <2>1. \A th \in Threads : Live(th) => \A x \in stack'[th] \ {Nil} : x \in Obj /\ Live(x)
    BY <1>5, <1>6
  <2>2. \A th \in Threads : color[th] = "free" => stack'[th] \subseteq {Nil}
    BY <1>4, <1>6 DEF Live
  <2>3. QED
    BY <1>6, <2>1, <2>2, StackSafe
<1>7. stack = [th \in Threads |-> stack[th]]
  BY <1>1 DEF TypeOK
<1>8. ASSUME NEW o \in Obj, pop(o)
      PROVE  Safe'
  <2>1. /\ UNCHANGED <<gcstate, color, gray, grayagain, allweak, unswept,
                       finobj, tobefnz, field, tab, L, mt>>
        /\ stack' = [stack EXCEPT ![L] = @ \ {o}]
    BY <1>8 DEF pop, ctl, lists, fin
  <2>2. \A th \in Threads : stack'[th] \subseteq stack[th]
    BY <1>7, <2>1
  <2>3. QED
    BY <1>2, <1>6, <2>1, <2>2
<1>9. ASSUME NEW o \in Obj, Live(o), Pushed(o),
             UNCHANGED <<gcstate, color, gray, grayagain, allweak, unswept,
                         finobj, tobefnz, field, tab, L, mt>>
      PROVE  Safe'
  <2>1. \A th \in Threads : \/ stack'[th] \subseteq stack[th]
                            \/ Live(th) /\ stack'[th] \subseteq stack[th] \cup {o}
    BY <1>2, <1>7, <1>9 DEF Pushed
  <2>2. /\ L' \in Obj /\ Live(L') /\ (mt' # Nil => mt' \in Obj /\ Live(mt'))
        /\ \A x \in {o} \ {Nil} : x \in Obj /\ Live(x)
    BY <1>2, <1>9
  <2>3. QED
    BY <1>6, <1>9, <2>1, <2>2
<1>10. ASSUME NEW p \in Obj, NEW o \in Obj, push(p, o)
       PROVE  Safe'
  <2>1. Live(p) /\ o \in Refs(p)
    BY <1>10, AtHandLive, KindsOK DEF push, Kinds
  <2>2. Live(o)
    BY <1>1, <2>1 DEF LiveRefs
  <2>3. QED
    BY <1>9, <1>10, <2>2 DEF push, ctl, lists, fin
<1>11. ASSUME pushbasicmt
       PROVE  Safe'
  BY <1>2, <1>9, <1>11 DEF pushbasicmt, ctl, lists, fin
<1>12. ASSUME NEW t \in Tables, NEW m \in Modes, setmode(t, m)
       PROVE  Safe'
  BY <1>2, <1>6, <1>12 DEF setmode, ctl, lists, fin
<1>13. ASSUME NEW m \in Metas \cup {Nil}, setbasicmt(m)
       PROVE  Safe'
  <2>1. m # Nil => m \in Obj /\ Live(m)
    BY <1>13, AtHandLive DEF setbasicmt
  <2>2. QED
    BY <1>2, <1>6, <1>13, <2>1 DEF setbasicmt, ctl, lists, fin, heap
<1>14. ASSUME NEW to \in Threads, Live(to), NEW X, switch(to, X)
       PROVE  Safe'
  <2>1. /\ X \subseteq stack[L] /\ L' = to
        /\ stack' = [stack EXCEPT ![L] = @ \ X, ![to] = @ \cup X]
        /\ UNCHANGED <<gcstate, color, gray, grayagain, allweak, unswept,
                       finobj, tobefnz, field, tab, mt>>
    BY <1>14 DEF switch, ctl, lists, fin
  <2>2. \A th \in Threads : stack'[th] \subseteq IF th = to THEN stack[th] \cup X ELSE stack[th]
    BY <1>2, <1>7, <2>1
  <2>3. \A x \in X \ {Nil} : x \in Obj /\ Live(x)
    BY <1>2, <1>5, <2>1
  <2>4. \A th \in Threads : \/ stack'[th] \subseteq stack[th]
                            \/ Live(th) /\ stack'[th] \subseteq stack[th] \cup X
    BY <1>14, <2>2
  <2>5. L' \in Obj /\ Live(L') /\ (mt' # Nil => mt' \in Obj /\ Live(mt'))
    BY <1>2, <1>14, <2>1
  <2>6. QED
    BY <1>6, <2>1, <2>3, <2>4, <2>5
<1>15. ASSUME NEW co \in Coroutines, NEW X, resume(co, X)
       PROVE  Safe'
  <2>1. co \in Threads /\ co # Nil /\ co \in stack[L]
    BY <1>15, KindsOK DEF resume, Kinds, Threads
  <2>2. Live(co)
    BY <1>2, <1>5, <2>1
  <2>3. QED
    BY <1>14, <1>15, <2>1, <2>2 DEF resume
<1>16. ASSUME NEW X, yield(X)
       PROVE  Safe'
  BY <1>2, <1>14, <1>16 DEF yield, Threads
<1>17. QED
  BY <1>8, <1>10, <1>11, <1>12, <1>13, <1>15, <1>16

-----------------------------------------------------------------------------
(* The theorems *)

LEMMA InitInv == Init => IInv
<1>1. ASSUME Init
      PROVE  IInv
  <2>1. TypeOK
    BY <1>1, InitType
  <2>2. /\ \A o \in Obj : color[o] \in {"free", "white"} /\ Refs(o) = {}
        /\ \A o \in Roots \cup {L} : color[o] = "white"
        /\ finobj = {} /\ tobefnz = {} /\ unswept = {} /\ gcstate = "pause"
    <3>1. /\ \A o \in Obj : color[o] \in {"free", "white"} /\ field[o] = Nil
          /\ \A t \in Tables, k \in Keys : tab[t][k] = Nil
          /\ \A th \in Threads : stack[th] = {}
      BY <1>1 DEF Init, EmptyTable
    <3>2. Roots \cup {L} = {MainThread, Registry} /\ {MainThread, Registry} \subseteq Obj
      BY <1>1, KindsOK DEF Init, Roots, Kinds
    <3>3. QED
      BY <1>1, <3>1, <3>2 DEF Init, Refs, Used
  <2>3. LiveRoots /\ LiveRefs
    BY <2>2 DEF LiveRoots, LiveRefs, Live
  <2>4. BlackToWhite /\ GrayListed /\ ListInv
    BY <2>2, KindsOK DEF BlackToWhite, GrayListed, ListInv, keepinvariant, isblack, Kinds
  <2>5. SweepInv /\ PlaceInv
    BY <2>2 DEF SweepInv, PlaceInv
  <2>6. QED
    BY <2>1, <2>3, <2>4, <2>5 DEF IInv
<1>2. QED
  BY <1>1

LEMMA SinglestepSafe ==
  ASSUME IInv, singlestep
  PROVE  Safe'
<1>1. CASE restartcollection
  BY <1>1, RestartSafe
<1>2. CASE \E o \in Obj : propagatemark(o)
  BY <1>2, PropagateSafe
<1>3. CASE atomic
  BY <1>3, AtomicSafe
<1>4. CASE \/ sweepstep("swpallgc", "swpfinobj", finobj)
           \/ sweepstep("swpfinobj", "swptobefnz", tobefnz)
           \/ sweepstep("swptobefnz", "swpend", {})
  BY <1>4, SweepstepSafe
<1>5. CASE finishsweep
  BY <1>5, FinishsweepSafe
<1>6. CASE endcycle
  BY <1>6, EndcycleSafe
<1>7. QED
  BY <1>1, <1>2, <1>3, <1>4, <1>5, <1>6 DEF singlestep

LEMMA MutatorSafe ==
  ASSUME IInv, ~ RemetaAllWeak, mutator
  PROVE  Safe'
<1>1. CASE \E o \in Obj : luaC_newobj(o)
  BY <1>1, NewobjSafe
<1>2. CASE \E t \in Tables, k \in Keys, v \in Obj \cup {Nil} : settable(t, k, v)
  BY <1>2, SettableSafe
<1>3. CASE \E c \in CClosures, v \in Obj \cup {Nil} : setupvalue(c, v)
  BY <1>3, SetupvalueSafe
<1>4. CASE \E o \in Tables \cup Udata, m \in Metas \cup {Nil} : setmetatable(o, m)
  BY <1>4, SetmetatableSafe
<1>5. QED
  BY <1>1, <1>2, <1>3, <1>4, StackOpsSafe DEF mutator

LEMMA StutterSafe ==
  ASSUME IInv, UNCHANGED vars
  PROVE  IInv'
<1>1. /\ UNCHANGED <<gcstate, color, gray, grayagain, allweak, unswept,
                     finobj, tobefnz, L, mt>>
      /\ UNCHANGED heap /\ UNCHANGED vars
  BY DEF vars, ctl, lists, fin
<1>2. TypeOK /\ LiveRoots /\ LiveRefs /\ BlackToWhite /\ GrayListed
      /\ SweepInv /\ ListInv /\ PlaceInv
  BY DEF IInv
<1>3. TypeOK'
  BY <1>2, NextType, <1>1
<1>4. LiveRoots' /\ LiveRefs'
  BY <1>1, <1>2, KeepLive DEF LiveRoots, Roots, Live
<1>5. \A o : Refs(o)' = Refs(o)
  BY <1>1, SameRefs
<1>6. BlackToWhite' /\ GrayListed' /\ PlaceInv'
  BY <1>1, <1>2, <1>5 DEF BlackToWhite, GrayListed, PlaceInv, keepinvariant, isblack, iswhite
<1>7. ListInv'
  BY <1>1, <1>2 DEF ListInv, keepinvariant, isblack, iswhite, heap
<1>8. SweepInv'
  BY <1>1, <1>2 DEF SweepInv, SweptList, ToSweep, allgc, keepinvariant
<1>9. QED
  BY <1>3, <1>4, <1>6, <1>7, <1>8 DEF IInv

\* When no finalizer overtakes the sweep and no table linked in 'allweak' gets another
\* metatable, the invariant holds in every reachable state of every instance.
THEOREM Invariance ==
  ASSUME ~ Overtake, ~ RemetaAllWeak
  PROVE  Spec => []IInv
<1>1. Init => IInv
  BY InitInv
<1>2. IInv /\ [Next]_vars => IInv'
  <2>1. ASSUME IInv, Next
        PROVE  Safe'
    BY <2>1, SinglestepSafe, GCTMSafe, FullgcSafe, MutatorSafe DEF Next
  <2>2. ASSUME IInv, Next
        PROVE  TypeOK'
    BY <2>2, NextType DEF IInv
  <2>3. QED
    BY <2>1, <2>2, StutterSafe DEF IInv, Safe
<1>3. QED
  BY <1>1, <1>2, PTL DEF Spec

\* Nothing dangles: no interleaving of the collector with the program frees an object
\* that the program, or an object that is still there, refers to.
THEOREM NoDangling ==
  ASSUME ~ Overtake, ~ RemetaAllWeak
  PROVE  Spec => [](LiveRoots /\ LiveRefs)
<1>1. Spec => []IInv
  BY Invariance
<1>2. IInv => LiveRoots /\ LiveRefs
  BY DEF IInv
<1>3. QED
  BY <1>1, <1>2, PTL

\* While the mark phase lasts no black object refers to a white one, and every gray
\* object is in a list from which it will be visited again (lgc.h:19-24).
THEOREM TriColour ==
  ASSUME ~ Overtake, ~ RemetaAllWeak
  PROVE  Spec => [](BlackToWhite /\ GrayListed)
<1>1. Spec => []IInv
  BY Invariance
<1>2. IInv => BlackToWhite /\ GrayListed
  BY DEF IInv
<1>3. QED
  BY <1>1, <1>2, PTL

\* When a sweep is over, every object there is is white: no mark of one cycle is left
\* for the next (lgc.h:57-58).
THEOREM CleanSlate ==
  ASSUME ~ Overtake, ~ RemetaAllWeak
  PROVE  Spec => []WhiteAfterSweep
<1>1. Spec => []IInv
  BY Invariance
<1>2. IInv => WhiteAfterSweep
  BY DEF IInv, SweepInv, SweptList, ToSweep, TypeOK, WhiteAfterSweep, keepinvariant
<1>3. QED
  BY <1>1, <1>2, PTL

-----------------------------------------------------------------------------
(* What the atomic phase of LuaGC may take away: finalizers, weak tables and *)
(* full collections, from the invariant above.                               *)

-----------------------------------------------------------------------------
(* What is marked and what is in use                                         *)

LEMMA IInvIs ==
  ASSUME IInv
  PROVE  /\ TypeOK /\ LiveRoots /\ LiveRefs /\ BlackToWhite /\ GrayListed
         /\ SweepInv /\ ListInv /\ PlaceInv
BY DEF IInv

\* While marks are made nothing is dead, and what is there and not white is marked.
LEMMA ColorsInMark ==
  ASSUME IInv, keepinvariant, NEW o \in Obj
  PROVE  /\ color[o] \in {"free", "white", "gray", "black"}
         /\ Live(o) /\ ~ iswhite(o) => o \in MarkedAtAtomic
         /\ o \in MarkedAtAtomic => Live(o)
<1>1. color[o] \in {"free", "white", "dead", "gray", "black"} /\ color[o] # "dead"
  BY IInvIs DEF TypeOK, SweepInv, keepinvariant
<1>2. Roots \cup {L} \subseteq {x \in Obj : Live(x)}
  BY IInvIs, RootsObj DEF LiveRoots
<1>3. QED
  BY <1>1, <1>2 DEF Live, iswhite, MarkedAtAtomic

\* The references of what was visited and is still black are marked.
LEMMA VisitedRefs ==
  ASSUME IInv, keepinvariant, NEW o \in visited \ allweak, NEW x \in Refs(o)
  PROVE  x \in MarkedAtAtomic
<1>1. o \in Obj /\ ~ iswhite(o) /\ o \notin gray /\ o \notin grayagain
  BY DEF visited
<1>2. color[o] # "free" /\ color[o] # "gray"
  BY <1>1, IInvIs DEF PlaceInv, GrayListed
<1>3. isblack(o) /\ Live(o)
  BY <1>1, <1>2, ColorsInMark DEF iswhite, isblack, Live
<1>4. x \in Obj /\ Live(x) /\ ~ iswhite(x)
  BY <1>1, <1>3, IInvIs, RefsObj DEF LiveRefs, BlackToWhite
<1>5. QED
  BY <1>4, ColorsInMark

\* What the atomic phase marks is closed under all strong references: what it does
\* not traverse again was traversed, and has its references marked since.
LEMMA MarkedClosed ==
  ASSUME IInv, keepinvariant, NEW C \in SUBSET Obj, MarkedAtAtomic \subseteq C,
         Closed(C, visited)
  PROVE  Closed(C, allweak)
<1>1. \A o \in C \ allweak : field[o] # Nil => field[o] \in C
  <2>1. SUFFICES ASSUME NEW o \in C \ allweak, field[o] # Nil PROVE field[o] \in C
    OBVIOUS
  <2>2. CASE o \in visited
    <3>1. field[o] \in Refs(o)
      BY <2>1 DEF Refs
    <3>2. QED
      BY <2>1, <2>2, <3>1, VisitedRefs
  <2>3. CASE o \notin visited
    BY <2>1, <2>3 DEF Closed
  <2>4. QED
    BY <2>2, <2>3
<1>2. \A th \in (C \cap Threads) \ allweak : stack[th] \subseteq C
  <2>1. SUFFICES ASSUME NEW th \in (C \cap Threads) \ allweak, NEW x \in stack[th] PROVE x \in C
    OBVIOUS
  <2>2. CASE th \in visited
    <3>1. stack[th] \subseteq Obj /\ Nil \notin Obj
      BY KindsOK, IInvIs DEF TypeOK, Kinds
    <3>2. x \in Refs(th)
      BY <3>1 DEF Refs
    <3>3. QED
      BY <2>2, <3>2, VisitedRefs
  <2>3. CASE th \notin visited
    BY <2>3 DEF Closed
  <2>4. QED
    BY <2>2, <2>3
<1>3. ASSUME NEW t \in (C \cap Tables) \ allweak
      PROVE  /\ MarkedKeys(t) \subseteq C \cup {Nil}
             /\ "v" \notin mode[t] => \A k \in Used(t) \cap HeldKeys(t, C) : tab[t][k] \in C
  <2>1. CASE t \in visited
    <3>1. \A k \in Used(t) : tab[t][k] \in C /\ k \in C \cup {Nil}
      <4>1. ASSUME NEW k \in Used(t) PROVE tab[t][k] \in Refs(t) /\ k \in Refs(t) \cup {Nil}
        BY <4>1 DEF Refs, Used
      <4>2. QED
        BY <2>1, <4>1, VisitedRefs
    <3>2. MarkedKeys(t) \subseteq Used(t)
      BY IInvIs DEF MarkedKeys, TypeOK
    <3>3. QED
      BY <3>1, <3>2
  <2>2. CASE t \notin visited
    BY <2>2 DEF Closed
  <2>3. QED
    BY <2>1, <2>2
<1>4. QED
  BY <1>1, <1>2, <1>3 DEF Closed

\* What the program uses is marked.
LEMMA InUseMarked ==
  ASSUME IInv, keepinvariant, NEW C \in SUBSET Obj, MarkedAtAtomic \subseteq C,
         Closed(C, visited), NEW S \in SUBSET C
  PROVE  InUse(S) \subseteq C
<1>1. \A t \in allweak : field[t] # Nil => field[t] \in C
  <2>1. SUFFICES ASSUME NEW t \in allweak, field[t] # Nil PROVE field[t] \in C
    OBVIOUS
  <2>2. t \in Obj /\ color[t] = "gray" /\ ~ iswhite(field[t])
    BY <2>1, IInvIs, KindsOK DEF ListInv, TypeOK, Kinds
  <2>3. field[t] \in Refs(t) /\ Live(t)
    BY <2>1, <2>2 DEF Refs, Live
  <2>4. field[t] \in Obj /\ Live(field[t])
    BY <2>2, <2>3, IInvIs, RefsObj DEF LiveRefs
  <2>5. QED
    BY <2>2, <2>4, ColorsInMark
<1>2. Roots \cup {L} \cup S \cup ({field[t] : t \in allweak} \ {Nil}) \subseteq C
  BY <1>1 DEF MarkedAtAtomic
<1>3. QED
  BY <1>2, MarkedClosed, ReachLeast DEF InUse

-----------------------------------------------------------------------------
(* The atomic phase                                                          *)

\* What 'atomic' names: the objects marked before and after it takes out those to be
\* finalized, and the tables after each clearing.
FirstMarks == Reach(MarkedAtAtomic, visited)
Pending == tobefnz \cup separatetobefnz(FirstMarks)
SecondMarks == resurrect(FirstMarks, Pending)
AfterValues == clearvalues(tab, weaktables("v") \cap FirstMarks, FirstMarks)
AfterKeys == clearkeys(AfterValues, weaktables("k") \cap SecondMarks, SecondMarks)
AfterAll == clearvalues(AfterKeys, weaktables("v") \cap (SecondMarks \ FirstMarks), SecondMarks)
WeakStrings == Strings \cap
  ( {tab[t][k] : t \in weaktables("v") \cap FirstMarks, k \in Keys}
    \cup {AfterKeys[t][k] : t \in weaktables("v") \cap (SecondMarks \ FirstMarks), k \in Keys}
    \cup {k \in Keys : \E t \in weaktables("k") \cap SecondMarks : AfterValues[t][k] # Nil} )

LEMMA AtomicIs ==
  ASSUME atomic
  PROVE  /\ keepinvariant /\ gcstate = "atomic" /\ gcstate' = "swpallgc"
         /\ tobefnz' = Pending /\ UNCHANGED <<gckind, full, L, mt>>
         /\ \E S \in SUBSET (allgc \ Pending) :
              sweeplist(FlippedColor(SecondMarks \cup WeakStrings), field, AfterAll, S)
<1>1. entersweep(FlippedColor(SecondMarks \cup WeakStrings), AfterAll, allgc \ Pending)
  BY DEF atomic, FirstMarks, Pending, SecondMarks, AfterValues, AfterKeys, AfterAll, WeakStrings
<1>2. \E S \in SUBSET (allgc \ Pending) :
        sweeplist(FlippedColor(SecondMarks \cup WeakStrings), field, AfterAll, S)
  BY <1>1 DEF entersweep
<1>3. gcstate' = "swpallgc"
  BY <1>1 DEF entersweep
<1>4. tobefnz' = Pending
  BY DEF atomic, Pending, FirstMarks
<1>5. gcstate = "atomic" /\ UNCHANGED <<gckind, full, L, mt>>
  BY DEF atomic
<1>6. QED
  BY <1>2, <1>3, <1>4, <1>5 DEF keepinvariant

LEMMA MarksAre ==
  ASSUME IInv, keepinvariant
  PROVE  /\ MarkedAtAtomic \subseteq FirstMarks /\ FirstMarks \subseteq SecondMarks
         /\ Pending \subseteq SecondMarks /\ Pending = tobefnz \cup (finobj \ FirstMarks)
         /\ SecondMarks \subseteq Obj /\ \A o \in SecondMarks : Live(o)
         /\ Closed(FirstMarks, visited) /\ Closed(SecondMarks, visited)
<1> DEFINE A == {o \in Obj : Live(o)}
<1>1. Closed(A, visited)
  BY IInvIs, LiveClosed
<1>2. MarkedAtAtomic \in SUBSET Obj /\ MarkedAtAtomic \subseteq A
  <2>1. MarkedAtAtomic \subseteq Obj
    BY IInvIs, RootsObj DEF MarkedAtAtomic
  <2>2. QED
    BY <2>1, ColorsInMark
<1>3. finobj \cup tobefnz \subseteq A
  BY IInvIs, RootsObj DEF LiveRoots
<1> HIDE DEF A
<1>4. A \subseteq Obj /\ \A o \in A : Live(o)
  BY DEF A
<1>5. MarkedAtAtomic \subseteq FirstMarks /\ FirstMarks \subseteq A /\ Closed(FirstMarks, visited)
  BY <1>1, <1>2, <1>4, ReachBase, ReachLeast, ReachClosed, IInvIs DEF FirstMarks
<1>6. Pending = tobefnz \cup (finobj \ FirstMarks) /\ Pending \subseteq A
  BY <1>3 DEF Pending, separatetobefnz
<1>7. FirstMarks \cup Pending \in SUBSET Obj /\ FirstMarks \cup Pending \subseteq A
  BY <1>4, <1>5, <1>6
<1> HIDE DEF FirstMarks, Pending
<1>8. /\ FirstMarks \cup Pending \subseteq SecondMarks /\ SecondMarks \subseteq A
      /\ Closed(SecondMarks, visited)
  BY <1>1, <1>4, <1>7, ReachBase, ReachLeast, ReachClosed, IInvIs DEF SecondMarks, resurrect
<1>9. QED
  BY <1>4, <1>5, <1>6, <1>8

\* What is in use, before and with what is going to be finalized.
LEMMA MarksInUse ==
  ASSUME IInv, keepinvariant
  PROVE  InUse({}) \subseteq FirstMarks /\ InUse(Pending) \subseteq SecondMarks
<1>1. FirstMarks \in SUBSET Obj /\ SecondMarks \in SUBSET Obj
      /\ {} \in SUBSET FirstMarks /\ Pending \in SUBSET SecondMarks
      /\ MarkedAtAtomic \subseteq SecondMarks
  BY MarksAre
<1>2. InUse({}) \subseteq FirstMarks
  BY <1>1, MarksAre, InUseMarked
<1>3. InUse(Pending) \subseteq SecondMarks
  BY <1>1, MarksAre, InUseMarked
<1>4. QED
  BY <1>2, <1>3

\* Why an entry is gone.
LEMMA ClearIs ==
  ASSUME NEW tb \in [Tables -> [Keys -> Obj \cup {Nil}]], NEW T, NEW M,
         NEW t \in Tables, NEW k \in Keys
  PROVE  /\ clearvalues(tb, T, M)[t][k] =
              IF t \in T /\ tb[t][k] \notin Strings \cup M THEN Nil ELSE tb[t][k]
         /\ clearkeys(tb, T, M)[t][k] =
              IF t \in T /\ k \notin Strings \cup M \cup {Nil} THEN Nil ELSE tb[t][k]
BY DEF clearvalues, clearkeys

LEMMA TablesAre ==
  ASSUME IInv
  PROVE  /\ tab \in [Tables -> [Keys -> Obj \cup {Nil}]]
         /\ AfterValues \in [Tables -> [Keys -> Obj \cup {Nil}]]
         /\ AfterKeys \in [Tables -> [Keys -> Obj \cup {Nil}]]
         /\ AfterAll \in [Tables -> [Keys -> Obj \cup {Nil}]]
<1>1. tab \in [Tables -> [Keys -> Obj \cup {Nil}]]
  BY IInvIs DEF TypeOK
<1>2. AfterValues \in [Tables -> [Keys -> Obj \cup {Nil}]]
  BY <1>1, ClearType DEF AfterValues
<1>3. AfterKeys \in [Tables -> [Keys -> Obj \cup {Nil}]]
  BY <1>2, ClearType DEF AfterKeys
<1>4. AfterAll \in [Tables -> [Keys -> Obj \cup {Nil}]]
  BY <1>3, ClearType DEF AfterAll
<1>5. QED
  BY <1>1, <1>2, <1>3, <1>4

\* The clearings that take an entry.
ByValue(t, k, M, T) == t \in weaktables("v") \cap T /\ tab[t][k] \notin Strings \cup M
ByKey(t, k) == t \in weaktables("k") \cap SecondMarks /\ k \notin Strings \cup SecondMarks \cup {Nil}

LEMMA EntryGone ==
  ASSUME IInv, NEW t \in Tables, NEW k \in Keys
  PROVE  /\ AfterAll[t][k] # tab[t][k] =>
              /\ AfterAll[t][k] = Nil
              /\ \/ ByValue(t, k, FirstMarks, FirstMarks)
                 \/ ByKey(t, k)
                 \/ ByValue(t, k, SecondMarks, SecondMarks \ FirstMarks)
         /\ t \in weaktables("v") \cap FirstMarks => AfterAll[t][k] \in Strings \cup FirstMarks \cup {Nil}
<1>1. AfterValues[t][k] = IF t \in weaktables("v") \cap FirstMarks
                             /\ tab[t][k] \notin Strings \cup FirstMarks
                          THEN Nil ELSE tab[t][k]
  <2>1. PICK T, M : T = weaktables("v") \cap FirstMarks /\ M = FirstMarks
    OBVIOUS
  <2>2. AfterValues = clearvalues(tab, T, M)
    BY <2>1 DEF AfterValues
  <2>3. clearvalues(tab, T, M)[t][k] = IF t \in T /\ tab[t][k] \notin Strings \cup M
                                       THEN Nil ELSE tab[t][k]
    <3>1. PICK tb \in [Tables -> [Keys -> Obj \cup {Nil}]] : tb = tab
      BY TablesAre
    <3>2. clearvalues(tb, T, M)[t][k] = IF t \in T /\ tb[t][k] \notin Strings \cup M
                                        THEN Nil ELSE tb[t][k]
      BY ClearIs
    <3>3. QED
      BY <3>1, <3>2
  <2>4. QED
    BY <2>1, <2>2, <2>3
<1>2. AfterKeys[t][k] = IF t \in weaktables("k") \cap SecondMarks
                           /\ k \notin Strings \cup SecondMarks \cup {Nil}
                        THEN Nil ELSE AfterValues[t][k]
  <2>1. PICK T, M : T = weaktables("k") \cap SecondMarks /\ M = SecondMarks
    OBVIOUS
  <2>2. AfterKeys = clearkeys(AfterValues, T, M)
    BY <2>1 DEF AfterKeys
  <2>3. clearkeys(AfterValues, T, M)[t][k] = IF t \in T /\ k \notin Strings \cup M \cup {Nil}
                                             THEN Nil ELSE AfterValues[t][k]
    BY TablesAre, ClearIs
  <2>4. QED
    BY <2>1, <2>2, <2>3
<1>3. AfterAll[t][k] = IF t \in weaktables("v") \cap (SecondMarks \ FirstMarks)
                          /\ AfterKeys[t][k] \notin Strings \cup SecondMarks
                       THEN Nil ELSE AfterKeys[t][k]
  <2>1. PICK T, M : T = weaktables("v") \cap (SecondMarks \ FirstMarks) /\ M = SecondMarks
    OBVIOUS
  <2>2. AfterAll = clearvalues(AfterKeys, T, M)
    BY <2>1 DEF AfterAll
  <2>3. clearvalues(AfterKeys, T, M)[t][k] = IF t \in T /\ AfterKeys[t][k] \notin Strings \cup M
                                             THEN Nil ELSE AfterKeys[t][k]
    BY TablesAre, ClearIs
  <2>4. QED
    BY <2>1, <2>2, <2>3
<1>4. QED
  BY <1>1, <1>2, <1>3 DEF ByValue, ByKey

\* What is marked is as it was, but for the entries cleared; the rest is dead, but for
\* strings.
LEMMA AtomicHeap ==
  ASSUME IInv, atomic
  PROVE  /\ \A o \in SecondMarks : field'[o] = field[o]
         /\ \A th \in Threads \cap SecondMarks : stack'[th] = stack[th]
         /\ \A t \in Tables \cap SecondMarks : mode'[t] = mode[t] /\ tab'[t] = AfterAll[t]
         /\ \A o \in SecondMarks : color'[o] \notin {"free", "dead"}
         /\ \A o \in Obj \ (SecondMarks \cup Strings) : color'[o] \in {"free", "dead"}
<1> DEFINE col == FlippedColor(SecondMarks \cup WeakStrings)
<1>1. PICK S \in SUBSET (allgc \ Pending) : sweeplist(col, field, AfterAll, S)
  BY AtomicIs
<1>2. S \subseteq Obj /\ \A o \in S : color[o] # "free"
  BY <1>1 DEF allgc
<1>3. \A o \in SecondMarks : o \in Obj /\ Live(o)
  BY AtomicIs, MarksAre
<1>4. \A o \in SecondMarks : col[o] \in {"gray", "black"}
  BY <1>3 DEF FlippedColor, Live
<1>5. \A o \in Obj \ (SecondMarks \cup Strings) : col[o] \in {"free", "dead"}
  <2>1. WeakStrings \subseteq Strings
    BY DEF WeakStrings
  <2>2. QED
    BY <2>1 DEF FlippedColor
<1> HIDE DEF col
<1>6. \A o \in Obj : color'[o] = IF o \in S /\ col[o] = "dead" THEN "free"
                                 ELSE IF o \in S THEN "white" ELSE col[o]
  BY <1>1 DEF sweeplist
<1>7. \A o \in SecondMarks : color'[o] \notin {"free", "dead"}
  BY <1>3, <1>4, <1>6
<1>8. \A o \in Obj \ (SecondMarks \cup Strings) : color'[o] \in {"free", "dead"}
  <2>1. \A o \in S : col[o] # "free"
    BY <1>2 DEF col, FlippedColor
  <2>2. QED
    BY <1>5, <1>6, <2>1
<1>9. /\ \A o \in SecondMarks : field'[o] = field[o]
      /\ \A th \in Threads \cap SecondMarks : stack'[th] = stack[th]
      /\ \A t \in Tables \cap SecondMarks : mode'[t] = mode[t] /\ tab'[t] = AfterAll[t]
  BY <1>1, <1>3, <1>4 DEF sweeplist
<1>10. QED
  BY <1>7, <1>8, <1>9

-----------------------------------------------------------------------------
(* Finalizers and weak tables                                                *)

\* Only the atomic phase adds to what is waiting for its finalizer.
LEMMA PendingGrows ==
  ASSUME Next, ~ atomic
  PROVE  tobefnz' \subseteq tobefnz
<1>1. CASE singlestep
  BY <1>1 DEF singlestep, restartcollection, propagatemark, sweepstep, finishsweep, endcycle, fin
<1>2. CASE \E o \in Obj : GCTM(o)
  BY <1>2 DEF GCTM
<1>3. CASE \E kind \in FullKinds : luaC_fullgc(kind)
  BY <1>3 DEF luaC_fullgc, fin
<1>4. CASE mutator
  BY <1>4 DEF mutator, luaC_newobj, pop, push, pushbasicmt, settable, setmode, setupvalue,
              setmetatable, setbasicmt, resume, yield, switch, fin
<1>5. QED
  BY <1>1, <1>2, <1>3, <1>4 DEF Next

\* What the atomic phase adds is not in use.
LEMMA PendingUnused ==
  ASSUME IInv, atomic, NEW o \in tobefnz' \ tobefnz
  PROVE  o \in finobj /\ o \notin FirstMarks /\ o \notin InUse({})
<1>1. tobefnz' = tobefnz \cup (finobj \ FirstMarks)
  BY AtomicIs, MarksAre
<1>2. InUse({}) \subseteq FirstMarks
  BY AtomicIs, MarksInUse
<1>3. QED
  BY <1>1, <1>2

\* A finalizer is only ever called for an object that the program cannot reach when it
\* is chosen, whatever the program does while marks are made (lgc.c:861-882, 978-1021).
THEOREM FinalizedUnreachable ==
  ASSUME ~ Overtake, ~ RemetaAllWeak
  PROVE  Spec => FinalizeOnlyUnreachable
<1> DEFINE Unused == \A o \in tobefnz' \ tobefnz : o \notin InUse({})
<1>1. ASSUME IInv, Next PROVE Unused
  <2>1. CASE atomic
    BY <1>1, <2>1, PendingUnused
  <2>2. CASE ~ atomic
    BY <1>1, <2>2, PendingGrows
  <2>3. QED
    BY <2>1, <2>2
<1>2. IInv /\ [Next]_vars => [Unused]_vars
  BY <1>1
<1>3. Spec => [][Unused]_vars
  BY <1>2, Invariance, PTL DEF Spec
<1>4. QED
  BY <1>3 DEF FinalizeOnlyUnreachable

\* A full collection that cuts the atomic phase off takes nothing from a table.
LEMMA FullgcKeeps ==
  ASSUME IInv, gcstate = "atomic", NEW kind, luaC_fullgc(kind)
  PROVE  tab' = tab
<1>1. keepinvariant
  BY DEF keepinvariant
<1>2. PICK S \in SUBSET allgc : sweeplist(color, field, tab, S)
  BY <1>1 DEF luaC_fullgc, entersweep
<1>3. \A o \in S : color[o] # "dead"
  BY <1>1, <1>2, ColorsInMark DEF allgc
<1>4. tab \in [Tables -> [Keys -> Obj \cup {Nil}]]
  BY TablesAre
<1>5. tab' = [t \in Tables |-> IF t \in {o \in S : color[o] = "dead"} THEN EmptyTable ELSE tab[t]]
  BY <1>2 DEF sweeplist
<1>6. tab' = [t \in Tables |-> tab[t]]
  BY <1>3, <1>5
<1>7. QED
  BY <1>4, <1>6

\* Only these two leave the atomic phase.
LEMMA LeavesAtomic ==
  ASSUME Next, gcstate = "atomic", gcstate' # gcstate
  PROVE  atomic \/ \E kind \in FullKinds : luaC_fullgc(kind)
<1>1. CASE singlestep
  BY <1>1 DEF singlestep, restartcollection, propagatemark, sweepstep, finishsweep, endcycle
<1>2. CASE \E o \in Obj : GCTM(o)
  BY <1>2 DEF GCTM, ctl
<1>3. CASE \E kind \in FullKinds : luaC_fullgc(kind)
  BY <1>3
<1>4. CASE mutator
  BY <1>4 DEF mutator, luaC_newobj, pop, push, pushbasicmt, settable, setmode, setupvalue,
              setmetatable, setbasicmt, resume, yield, switch, ctl
<1>5. QED
  BY <1>1, <1>2, <1>3, <1>4 DEF Next

\* Why an entry of a table in use may go.
WeakPart(t, k, used, kept) ==
  \/ ("v" \in mode[t] \/ t \in allweak) /\ tab[t][k] \notin Strings \cup used
  \/ ("k" \in mode[t] \/ t \in allweak) /\ k \notin Strings \cup kept

LEMMA AtomicKeeps ==
  ASSUME IInv, atomic, NEW t \in Tables \cap InUse({}), NEW k \in Keys, tab'[t][k] # tab[t][k]
  PROVE  WeakPart(t, k, InUse({}), InUse(tobefnz'))
<1>1. keepinvariant /\ tobefnz' = Pending
  BY AtomicIs
<1>2. /\ InUse({}) \subseteq FirstMarks /\ InUse(tobefnz') \subseteq SecondMarks
      /\ FirstMarks \subseteq SecondMarks
  BY <1>1, MarksInUse, MarksAre
<1>3. t \in FirstMarks /\ t \in SecondMarks
  BY <1>2
<1>4. AfterAll[t][k] # tab[t][k]
  BY <1>3, AtomicHeap
<1>5. ByValue(t, k, FirstMarks, FirstMarks) \/ ByKey(t, k)
  BY <1>3, <1>4, EntryGone DEF ByValue
<1>6. CASE ByValue(t, k, FirstMarks, FirstMarks)
  BY <1>2, <1>6 DEF ByValue, weaktables, WeakPart
<1>7. CASE ByKey(t, k)
  BY <1>2, <1>7 DEF ByKey, weaktables, WeakPart
<1>8. QED
  BY <1>5, <1>6, <1>7

\* An entry of a table in use goes only when a weak part of it, that is no string, is
\* not in use: values count what the program uses, keys also what finalizers will
\* (lgc.c:132-138, 995-1013).
THEOREM EntriesKept ==
  ASSUME ~ Overtake, ~ RemetaAllWeak
  PROVE  Spec => WeakEntriesKept
<1> DEFINE Kept == gcstate = "atomic" =>
              LET used == InUse({})
                  kept == InUse(tobefnz')
              IN  \A t \in Tables \cap used, k \in Keys :
                    tab'[t][k] # tab[t][k] =>
                      \/ ("v" \in mode[t] \/ t \in allweak) /\ tab[t][k] \notin Strings \cup used
                      \/ ("k" \in mode[t] \/ t \in allweak) /\ k \notin Strings \cup kept
<1>1. ASSUME IInv, Next, gcstate' # gcstate PROVE Kept
  <2>1. SUFFICES ASSUME gcstate = "atomic", NEW t \in Tables \cap InUse({}), NEW k \in Keys,
                        tab'[t][k] # tab[t][k]
                 PROVE  WeakPart(t, k, InUse({}), InUse(tobefnz'))
    BY DEF WeakPart
  <2>2. atomic
    BY <1>1, <2>1, LeavesAtomic, FullgcKeeps
  <2>3. QED
    BY <1>1, <2>1, <2>2, AtomicKeeps
<1> HIDE DEF Kept
<1>2. IInv /\ [Next]_vars => [Kept]_gcstate
  <2>1. ASSUME UNCHANGED vars PROVE UNCHANGED gcstate
    BY <2>1 DEF vars, ctl
  <2>2. QED
    BY <1>1, <2>1
<1>3. Spec => [][Kept]_gcstate
  BY <1>2, Invariance, PTL DEF Spec
<1>4. QED
  BY <1>3 DEF WeakEntriesKept, Kept

\* An object chosen for its finalizer is the value of no weak table in use.
LEMMA AtomicUnlinks ==
  ASSUME IInv, atomic, NEW t \in Tables \cap InUse({}), NEW k \in Keys, "v" \in mode[t]
  PROVE  tab'[t][k] \notin tobefnz' \ tobefnz
<1>1. SUFFICES ASSUME tab'[t][k] \in tobefnz' \ tobefnz PROVE FALSE
  OBVIOUS
<1> DEFINE x == tab'[t][k]
<1>2. x \in finobj /\ x \notin FirstMarks
  BY <1>1, PendingUnused
<1>3. x \in Obj /\ x \notin Strings /\ x # Nil
  BY <1>2, IInvIs, KindsOK DEF TypeOK, Kinds
<1>4. /\ t \in FirstMarks /\ t \in SecondMarks /\ keepinvariant
      /\ MarkedAtAtomic \subseteq FirstMarks
  BY AtomicIs, MarksInUse, MarksAre
<1>5. x = AfterAll[t][k]
  BY <1>4, AtomicHeap
<1>6. x = tab[t][k]
  BY <1>3, <1>5, EntryGone
<1> HIDE DEF x
<1>7. CASE t \in visited \ allweak
  <2>1. x \in Refs(t)
    BY <1>3, <1>6 DEF Refs
  <2>2. QED
    BY <1>2, <1>4, <1>7, <2>1, VisitedRefs
<1>8. CASE t \notin visited \ allweak
  <2>1. t \in weaktables("v") \cap FirstMarks
    BY <1>4, <1>8 DEF weaktables
  <2>2. AfterAll[t][k] \in Strings \cup FirstMarks \cup {Nil}
    BY <2>1, EntryGone
  <2>3. QED
    BY <1>2, <1>3, <1>5, <2>2
<1>9. QED
  BY <1>7, <1>8

\* When an object is chosen for its finalizer, no table in use holds it as a weak value
\* any more (lgc.c:132-138, 1003-1013).
THEOREM FinalizedUnlinked ==
  ASSUME ~ Overtake, ~ RemetaAllWeak
  PROVE  Spec => FinalizedNoWeakValue
<1> DEFINE Unlinked == gcstate = "atomic" =>
              \A t \in Tables \cap InUse({}), k \in Keys :
                "v" \in mode[t] => tab'[t][k] \notin tobefnz' \ tobefnz
<1>1. ASSUME IInv, Next PROVE Unlinked
  <2>1. CASE atomic
    BY <1>1, <2>1, AtomicUnlinks
  <2>2. CASE ~ atomic
    BY <1>1, <2>2, PendingGrows
  <2>3. QED
    BY <2>1, <2>2
<1>2. IInv /\ [Next]_vars => [Unlinked]_vars
  BY <1>1
<1>3. Spec => [][Unlinked]_vars
  BY <1>2, Invariance, PTL DEF Spec
<1>4. QED
  BY <1>3 DEF FinalizedNoWeakValue

-----------------------------------------------------------------------------
(* Full collections                                                          *)

\* Objects that any closed set has to hold are needed.  A collection in which nothing
\* else runs marks what is needed, and leaves no more.
Ends == Roots \cup {L} \cup tobefnz
Left == {o \in Obj : Live(o)} \ Strings
Alone == full = "cycle" /\ gckind = "emergency"
MarkedNeeded ==
  \A C \in SUBSET Obj : Ends \subseteq C /\ Closed(C, {}) =>
    \A o \in Obj : color[o] \in {"gray", "black"} => o \in C
LeftNeeded ==
  \A C \in SUBSET Obj : Ends \subseteq C /\ Floating(Left) \subseteq C /\ Closed(C, {}) =>
    Left \subseteq C
Exact ==
  Alone => /\ keepinvariant => MarkedNeeded /\ \A t \in allweak : mode[t] = {"k", "v"}
           /\ ~ keepinvariant /\ gcstate # "pause" => LeftNeeded

\* Marking what closed sets hold marks what they hold.
LEMMA MarkNeeded ==
  ASSUME TypeOK, NEW C \in SUBSET Obj, Closed(C, {}), NEW S, S \subseteq C \cup {Nil},
         NEW o \in Obj, MarkedColor(S)[o] \in {"gray", "black"}
  PROVE  color[o] \in {"gray", "black"} \/ o \in C
<1>1. CASE o \notin reallymark(S)
  BY <1>1 DEF MarkedColor
<1>2. CASE o \in reallymark(S)
  <2>1. CASE o \in Whites(S)
    BY <2>1, KindsOK DEF Whites, Kinds
  <2>2. CASE o \in Whites({field[u] : u \in Whites(S) \cap Udata})
    <3>1. PICK u \in Whites(S) \cap Udata : o = field[u]
      BY <2>2 DEF Whites
    <3>2. u \in C /\ field[u] # Nil
      BY <3>1, KindsOK DEF Whites, Kinds
    <3>3. QED
      BY <3>1, <3>2 DEF Closed
  <2>3. QED
    BY <1>2, <2>1, <2>2 DEF reallymark
<1>3. QED
  BY <1>1, <1>2

LEMMA RestartExact ==
  ASSUME IInv, Exact, restartcollection
  PROVE  Exact'
<1>1. gcstate = "pause" /\ gcstate' = "propagate" /\ allweak' = {}
      /\ UNCHANGED heap /\ UNCHANGED <<L, mt, tobefnz>> /\ color' = MarkedColor(RootsToMark)
  BY DEF restartcollection, fin
<1>2. \A o \in Obj : color[o] \notin {"gray", "black"}
  BY <1>1, IInvIs DEF SweepInv, ToSweep, SweptList, keepinvariant
<1>3. MarkedNeeded'
  <2>1. SUFFICES ASSUME NEW C \in SUBSET Obj, Ends' \subseteq C, Closed(C, {})',
                        NEW o \in Obj, color'[o] \in {"gray", "black"}
                 PROVE  o \in C
    BY DEF MarkedNeeded
  <2>2. Closed(C, {}) /\ Ends \subseteq C
    BY <1>1, <2>1 DEF heap, Closed, HeldKeys, MarkedKeys, Used, Ends, Roots
  <2>3. RootsToMark \subseteq C \cup {Nil}
    BY <2>2 DEF RootsToMark, Ends
  <2>4. QED
    BY <1>1, <1>2, <2>1, <2>2, <2>3, MarkNeeded, IInvIs
<1>4. QED
  BY <1>1, <1>3 DEF Exact, keepinvariant

\* What a traversal marks, a closed set that holds the object holds.
LEMMA TraverseNeeded ==
  ASSUME IInv, NEW C \in SUBSET Obj, Closed(C, {}), NEW o \in C, Live(o),
         \A x \in Obj : color[x] \in {"gray", "black"} => x \in C,
         \A x \in Obj : color[x] # "dead", NEW deep
  PROVE  traverse(o, deep) \subseteq C \cup {Nil}
<1>1. CASE o \in Threads
  BY <1>1 DEF traverse, Closed
<1>2. CASE o \notin Threads /\ o \notin Tables
  BY <1>2 DEF traverse, Closed
<1>3. CASE o \in Tables
  <2> DEFINE marked == {x \in Obj : ~ iswhite(x)}
  <2>1. o \notin Threads
    BY <1>3, KindsOK DEF Kinds
  <2>2. /\ field[o] \in C \cup {Nil} /\ MarkedKeys(o) \subseteq C \cup {Nil}
        /\ "v" \notin mode[o] => \A k \in Used(o) \cap HeldKeys(o, C) : tab[o][k] \in C
    BY <1>3 DEF Closed
  <2>3. ASSUME "v" \notin mode[o], NEW M, M \subseteq marked \cup C \cup {Nil}
        PROVE  HeldValues(o, M) \subseteq C \cup {Nil}
    <3>1. SUFFICES ASSUME NEW k \in Keys \cap HeldKeys(o, M), tab[o][k] # Nil
                   PROVE  tab[o][k] \in C
      BY DEF HeldValues
    <3>2. k \in Used(o)
      BY <3>1 DEF Used
    <3>3. k = Nil \/ (k \in Obj /\ Live(k))
      <4>1. k = Nil \/ k \in Refs(o)
        BY <1>3, <3>2 DEF Refs
      <4>2. QED
        BY <4>1, IInvIs, RefsObj DEF LiveRefs
    <3>4. k \in marked => k \in C \cup {Nil}
      <4>1. SUFFICES ASSUME k \in marked, k # Nil PROVE k \in C
        OBVIOUS
      <4>2. color[k] \in {"gray", "black"}
        BY <3>3, <4>1, IInvIs DEF TypeOK, Live, iswhite
      <4>3. QED
        BY <3>3, <4>1, <4>2
    <3>5. k \in HeldKeys(o, C)
      BY <2>3, <3>1, <3>4 DEF HeldKeys
    <3>6. QED
      BY <2>2, <2>3, <3>2, <3>5
  <2>4. CASE "v" \in mode[o]
    BY <1>3, <2>1, <2>2, <2>4 DEF traverse
  <2>5. CASE "v" \notin mode[o]
    <3>1. HeldValues(o, marked) \subseteq C \cup {Nil}
      BY <2>3, <2>5
    <3>2. HeldValues(o, marked \cup HeldValues(o, marked)) \subseteq C \cup {Nil}
      BY <2>3, <2>5, <3>1
    <3>3. QED
      BY <1>3, <2>1, <2>2, <2>5, <3>1, <3>2 DEF traverse
  <2>6. QED
    BY <2>4, <2>5
<1>4. QED
  BY <1>1, <1>2, <1>3

LEMMA PropagateExact ==
  ASSUME IInv, Exact, NEW o \in Obj, propagatemark(o)
  PROVE  Exact'
<1>1. /\ gcstate = "propagate" /\ gcstate' \in {"propagate", "atomic"} /\ o \in gray
      /\ UNCHANGED heap /\ UNCHANGED <<L, mt, tobefnz, full, gckind>>
  BY DEF propagatemark, fin
<1>2. keepinvariant /\ keepinvariant'
  BY <1>1 DEF keepinvariant
<1>3. SUFFICES ASSUME Alone PROVE MarkedNeeded' /\ \A t \in allweak' : mode'[t] = {"k", "v"}
  BY <1>1, <1>2 DEF Exact, Alone
<1>4. MarkedNeeded /\ \A t \in allweak : mode[t] = {"k", "v"}
  BY <1>2, <1>3 DEF Exact
<1>5. color[o] = "gray" /\ Live(o)
  BY <1>1, <1>2, IInvIs DEF ListInv, Live
<1>6. \A t \in allweak' : mode'[t] = {"k", "v"}
  BY <1>1, <1>4 DEF propagatemark, heap
<1>7. MarkedNeeded'
  <2>1. SUFFICES ASSUME NEW C \in SUBSET Obj, Ends' \subseteq C, Closed(C, {})',
                        NEW x \in Obj, color'[x] \in {"gray", "black"}
                 PROVE  x \in C
    BY DEF MarkedNeeded
  <2>2. Closed(C, {}) /\ Ends \subseteq C
    BY <1>1, <2>1 DEF heap, Closed, HeldKeys, MarkedKeys, Used, Ends, Roots
  <2>3. \A y \in Obj : color[y] \in {"gray", "black"} => y \in C
    BY <1>4, <2>2 DEF MarkedNeeded
  <2>4. \A y \in Obj : color[y] # "dead"
    BY <1>2, ColorsInMark
  <2>5. PICK deep \in BOOLEAN :
          color' = IF staysgray(o) THEN MarkedColor(traverse(o, deep))
                   ELSE [MarkedColor(traverse(o, deep)) EXCEPT ![o] = "black"]
    BY DEF propagatemark
  <2>6. o \in C
    BY <1>5, <2>3
  <2>7. PICK S : S = traverse(o, deep) /\ S \subseteq C \cup {Nil}
    BY <1>5, <2>2, <2>3, <2>4, <2>6, TraverseNeeded
  <2>8. x = o \/ MarkedColor(S)[x] \in {"gray", "black"}
    <3>1. MarkedColor(S) \in [Obj -> {"free", "white", "dead", "gray", "black"}]
      BY MarkType, IInvIs
    <3>2. QED
      BY <2>1, <2>5, <2>7, <3>1
  <2>9. QED
    BY <2>2, <2>3, <2>6, <2>7, <2>8, MarkNeeded, IInvIs
<1>8. QED
  BY <1>6, <1>7

\* When nothing has changed a weak table since it was linked, what is marked is closed
\* under all references that are not weak.
LEMMA MarksClosed ==
  ASSUME IInv, keepinvariant, \A t \in allweak : mode[t] = {"k", "v"}
  PROVE  Closed(SecondMarks, {})
<1>1. SecondMarks \in SUBSET Obj /\ MarkedAtAtomic \subseteq SecondMarks
      /\ Closed(SecondMarks, visited)
  BY MarksAre
<1>2. Closed(SecondMarks, allweak)
  BY <1>1, MarkedClosed
<1>3. ASSUME NEW t \in allweak
      PROVE  /\ t \in Tables /\ t \notin Threads /\ field[t] \in SecondMarks \cup {Nil}
             /\ MarkedKeys(t) = {} /\ "v" \in mode[t]
  <2>1. t \in Tables /\ t \notin Threads /\ t \in Obj /\ color[t] = "gray"
    BY IInvIs, KindsOK DEF TypeOK, Kinds, ListInv
  <2>2. MarkedKeys(t) = {} /\ "v" \in mode[t]
    <3>1. mode[t] = {"k", "v"} /\ "k" \in {"k", "v"} /\ "v" \in {"k", "v"} /\ {"k", "v"} # {"k"}
      OBVIOUS
    <3>2. QED
      BY <3>1 DEF MarkedKeys
  <2>3. field[t] # Nil => field[t] \in SecondMarks
    <3>1. SUFFICES ASSUME field[t] # Nil PROVE field[t] \in SecondMarks
      OBVIOUS
    <3>2. field[t] \in Refs(t) /\ ~ iswhite(field[t])
      BY <2>1, <3>1, IInvIs DEF Refs, ListInv
    <3>3. field[t] \in Obj /\ Live(field[t])
      BY <2>1, <3>2, IInvIs, RefsObj DEF LiveRefs, Live
    <3>4. QED
      BY <1>1, <3>2, <3>3, ColorsInMark
  <2>4. QED
    BY <2>1, <2>2, <2>3
<1>4. \A o \in SecondMarks : field[o] # Nil => field[o] \in SecondMarks
  BY <1>2, <1>3 DEF Closed
<1>5. \A th \in SecondMarks \cap Threads : stack[th] \subseteq SecondMarks
  BY <1>2, <1>3 DEF Closed
<1>6. \A t \in SecondMarks \cap Tables :
        /\ MarkedKeys(t) \subseteq SecondMarks \cup {Nil}
        /\ "v" \notin mode[t] => \A k \in Used(t) \cap HeldKeys(t, SecondMarks) : tab[t][k] \in SecondMarks
  BY <1>2, <1>3 DEF Closed
<1>7. QED
  BY <1>4, <1>5, <1>6 DEF Closed

\* What a set that is closed after the clearing holds of what is marked, with the keys
\* that were marked for nothing, was closed before.
LEMMA ClosedBefore ==
  ASSUME IInv, atomic, \A t \in allweak : mode[t] = {"k", "v"},
         NEW C \in SUBSET Obj, Floating(Left)' \subseteq C, Closed(C, {})'
  PROVE  Closed((C \cup Strings) \cap SecondMarks, {})
<1> DEFINE D == (C \cup Strings) \cap SecondMarks
<1>1. keepinvariant /\ SecondMarks \subseteq Obj
  BY AtomicIs, MarksAre
<1>2. Closed(SecondMarks, {})
  BY <1>1, MarksClosed
<1>3. /\ \A o \in SecondMarks : field'[o] = field[o]
      /\ \A th \in Threads \cap SecondMarks : stack'[th] = stack[th]
      /\ \A t \in Tables \cap SecondMarks : mode'[t] = mode[t] /\ tab'[t] = AfterAll[t]
      /\ \A o \in SecondMarks : color'[o] \notin {"free", "dead"}
  BY AtomicHeap
<1>4. \A o \in D : field[o] # Nil => field[o] \in D
  <2>1. SUFFICES ASSUME NEW o \in D, field[o] # Nil PROVE field[o] \in D
    OBVIOUS
  <2>2. o \notin Strings
    BY <2>1, IInvIs DEF TypeOK
  <2>3. field[o] \in SecondMarks
    BY <1>2, <2>1 DEF Closed
  <2>4. field[o] \in C
    BY <1>3, <2>1, <2>2 DEF Closed
  <2>5. QED
    BY <2>3, <2>4
<1>5. \A th \in D \cap Threads : stack[th] \subseteq D
  <2>1. SUFFICES ASSUME NEW th \in D \cap Threads PROVE stack[th] \subseteq D
    OBVIOUS
  <2>2. th \notin Strings
    BY <2>1, KindsOK DEF Kinds
  <2>3. stack[th] \subseteq SecondMarks
    BY <1>2, <2>1 DEF Closed
  <2>4. stack[th] \subseteq C
    BY <1>3, <2>1, <2>2 DEF Closed
  <2>5. QED
    BY <2>3, <2>4
<1>6. ASSUME NEW t \in D \cap Tables
      PROVE  /\ MarkedKeys(t) \subseteq D \cup {Nil}
             /\ "v" \notin mode[t] => \A k \in Used(t) \cap HeldKeys(t, D) : tab[t][k] \in D
  <2>1. t \in C /\ t \in SecondMarks /\ t \in Tables /\ t \notin Strings
    BY <1>6, KindsOK DEF Kinds
  <2>2. mode'[t] = mode[t] /\ tab'[t] = AfterAll[t] /\ mode[t] \in SUBSET {"k", "v"}
    BY <1>3, <2>1, IInvIs DEF TypeOK
  <2>3. /\ MarkedKeys(t) \subseteq SecondMarks \cup {Nil}
        /\ "v" \notin mode[t] => \A k \in Used(t) \cap HeldKeys(t, SecondMarks) : tab[t][k] \in SecondMarks
    BY <1>2, <2>1 DEF Closed
  <2>4. /\ MarkedKeys(t)' \subseteq C \cup {Nil}
        /\ "v" \notin mode[t] => \A k \in Used(t)' \cap HeldKeys(t, C)' : tab'[t][k] \in C
    BY <2>1, <2>2 DEF Closed
  <2>5. \A m \in {"k", "v"} : t \in weaktables(m) => m \in mode[t]
    BY DEF weaktables
  <2>6. ASSUME "k" \notin mode[t], NEW k \in Used(t)
        PROVE  k \in D \cup {Nil}
    <3>1. k \in SecondMarks \cup {Nil} /\ MarkedKeys(t) = Used(t) /\ MarkedKeys(t)' = Used(t)'
      BY <2>2, <2>3, <2>6 DEF MarkedKeys
    <3>2. CASE AfterAll[t][k] = tab[t][k]
      <4>1. k \in Used(t)'
        BY <2>2, <2>6, <3>2 DEF Used
      <4>2. QED
        BY <2>4, <3>1, <4>1
    <3>3. CASE AfterAll[t][k] # tab[t][k]
      <4>1. "v" \in mode[t]
        <5>1. t \in weaktables("v") \/ t \in weaktables("k")
          BY <2>1, <2>6, <3>3, EntryGone DEF ByValue, ByKey, Used
        <5>2. QED
          BY <2>5, <2>6, <5>1
      <4>2. mode'[t] = {"v"}
        BY <2>2, <2>6, <4>1
      <4>3. t \in Left'
        BY <1>1, <1>3, <2>1 DEF Left, Live
      <4>4. CASE k \in Strings
        BY <3>1, <4>4
      <4>5. CASE k # Nil /\ k \notin Strings
        <5>1. k \in Left' \cap Keys
          BY <1>1, <1>3, <2>6, <3>1, <4>5 DEF Left, Live, Used
        <5>2. k \in C
          BY <2>1, <4>2, <4>3, <5>1 DEF Floating
        <5>3. QED
          BY <3>1, <5>2
      <4>6. QED
        BY <4>4, <4>5
    <3>4. QED
      BY <3>2, <3>3
  <2>7. MarkedKeys(t) \subseteq D \cup {Nil}
    <3>1. CASE "k" \notin mode[t]
      BY <2>6, <3>1 DEF MarkedKeys
    <3>2. CASE "k" \in mode[t] /\ "v" \notin mode[t]
      <4>1. mode[t] = {"k"}
        BY <2>2, <3>2
      <4>2. QED
        BY <2>3, <4>1 DEF MarkedKeys
    <3>3. CASE "k" \in mode[t] /\ "v" \in mode[t]
      <4>1. mode[t] = {"k", "v"} /\ mode[t] # {"k"}
        BY <2>2, <3>3
      <4>2. QED
        BY <3>3, <4>1 DEF MarkedKeys
    <3>4. QED
      BY <3>1, <3>2, <3>3
  <2>8. ASSUME "v" \notin mode[t], NEW k \in Used(t) \cap HeldKeys(t, D)
        PROVE  tab[t][k] \in D
    <3>1. k \in HeldKeys(t, SecondMarks) /\ tab[t][k] \in SecondMarks
      BY <2>3, <2>8 DEF HeldKeys
    <3>2. k \in Keys /\ tab[t][k] # Nil
      BY <2>8 DEF Used
    <3>3. AfterAll[t][k] = tab[t][k]
      <4>1. t \notin weaktables("v") /\ ("k" \notin mode[t] => t \notin weaktables("k"))
        BY <2>5, <2>8
      <4>2. "k" \in mode[t] => k \in SecondMarks \cup Strings \cup {Nil}
        BY <3>1 DEF HeldKeys
      <4>3. QED
        BY <2>1, <3>2, <4>1, <4>2, EntryGone DEF ByValue, ByKey
    <3>4. k \in Used(t)' /\ k \in HeldKeys(t, C)'
      BY <2>2, <2>8, <3>2, <3>3 DEF Used, HeldKeys
    <3>5. QED
      BY <2>2, <2>4, <2>8, <3>1, <3>3, <3>4
  <2>9. QED
    BY <2>7, <2>8
<1> HIDE DEF D
<1>7. Closed(D, {})
  BY <1>4, <1>5, <1>6 DEF Closed
<1>8. QED
  BY <1>7 DEF D

LEMMA AtomicExact ==
  ASSUME IInv, Exact, atomic
  PROVE  Exact'
<1>1. /\ keepinvariant /\ ~ keepinvariant' /\ tobefnz' = Pending
      /\ UNCHANGED <<full, gckind, L, mt>>
  BY AtomicIs DEF keepinvariant
<1>2. SUFFICES ASSUME Alone PROVE LeftNeeded'
  BY <1>1 DEF Exact, Alone
<1>3. MarkedNeeded /\ \A t \in allweak : mode[t] = {"k", "v"}
  BY <1>1, <1>2 DEF Exact
<1>4. /\ MarkedAtAtomic \subseteq FirstMarks /\ FirstMarks \subseteq SecondMarks
      /\ Pending \subseteq SecondMarks /\ tobefnz \subseteq Pending
      /\ SecondMarks \subseteq Obj
  BY <1>1, MarksAre
<1>5. SUFFICES ASSUME NEW C \in SUBSET Obj, Ends' \subseteq C, Floating(Left)' \subseteq C,
                      Closed(C, {})'
               PROVE  Left' \subseteq C
  BY DEF LeftNeeded
<1>6. PICK D \in SUBSET Obj : D = (C \cup Strings) \cap SecondMarks
  BY <1>4
<1>7. Closed(D, {})
  BY <1>3, <1>5, <1>6, ClosedBefore
<1>8. Roots \cup {L} \subseteq D /\ Pending \subseteq D /\ tobefnz \subseteq D
  <2>1. Roots \cup {L} \cup Pending \subseteq C
    BY <1>1, <1>5 DEF Ends, Roots
  <2>2. Roots \cup {L} \subseteq SecondMarks
    BY <1>4 DEF MarkedAtAtomic
  <2>3. QED
    BY <1>4, <1>6, <2>1, <2>2
<1>9. MarkedAtAtomic \subseteq D
  BY <1>3, <1>7, <1>8 DEF MarkedNeeded, Ends, MarkedAtAtomic
<1>10. Closed(D, visited)
  BY <1>7 DEF Closed
<1>11. FirstMarks \subseteq D
  BY <1>9, <1>10, ReachLeast DEF FirstMarks
<1>12. FirstMarks \cup Pending \subseteq D
  BY <1>8, <1>11
<1>13. SecondMarks \subseteq D
  BY <1>10, <1>12, ReachLeast DEF SecondMarks, resurrect
<1>14. \A o \in Left' : o \in SecondMarks /\ o \notin Strings
  BY AtomicHeap DEF Left, Live
<1>15. QED
  BY <1>6, <1>13, <1>14

\* Freeing what is dead takes nothing that is needed.
LEMMA SweepExact ==
  ASSUME IInv, Exact, NEW from, NEW to, NEW nextlist, sweepstep(from, to, nextlist),
         from \in {"swpallgc", "swpfinobj", "swptobefnz"},
         to \in {"swpfinobj", "swptobefnz", "swpend"}
  PROVE  Exact'
<1>1. /\ gcstate = from /\ gcstate' \in {from, to}
      /\ UNCHANGED <<full, gckind, tobefnz, L, mt>>
  BY DEF sweepstep, fin
<1>2. ~ keepinvariant /\ ~ keepinvariant' /\ gcstate # "pause"
  BY <1>1 DEF keepinvariant
<1>3. SUFFICES ASSUME Alone PROVE LeftNeeded'
  BY <1>1, <1>2 DEF Exact, Alone
<1>4. LeftNeeded
  BY <1>2, <1>3 DEF Exact
<1>5. PICK S \in SUBSET unswept : sweeplist(color, field, tab, S)
  BY DEF sweepstep
<1> DEFINE A == {o \in Obj : Live(o)}
<1>6. \A o \in Obj : /\ o \in S /\ color[o] = "dead" => color'[o] = "free"
                     /\ o \in S /\ color[o] # "dead" => color'[o] = "white"
                     /\ o \notin S => color'[o] = color[o]
  BY <1>5 DEF sweeplist
<1>7. \A o \in S : color[o] # "free"
  BY <1>5, IInvIs, RootsObj DEF SweepInv, SweptList, allgc, LiveRoots, Live
<1>8. \A o \in Obj : Live(o)' <=> Live(o)
  BY <1>6, <1>7 DEF Live
<1>9. /\ \A o \in A : field'[o] = field[o]
      /\ \A th \in Threads \cap A : stack'[th] = stack[th]
      /\ \A t \in Tables \cap A : mode'[t] = mode[t] /\ tab'[t] = tab[t]
  <2>1. \A o \in A : color[o] # "dead"
    BY DEF Live
  <2>2. Threads \subseteq Obj /\ Tables \subseteq Obj
    BY KindsOK DEF Kinds
  <2>3. tab \in [Tables -> [Keys -> Obj \cup {Nil}]]
    BY TablesAre
  <2>4. QED
    BY <1>5, <2>1, <2>2, <2>3 DEF sweeplist
<1>10. Left' = Left /\ Left \subseteq A
  BY <1>8 DEF Left
<1>11. SUFFICES ASSUME NEW C \in SUBSET Obj, Ends' \subseteq C, Floating(Left)' \subseteq C,
                       Closed(C, {})'
                PROVE  Left \subseteq C
  BY <1>10 DEF LeftNeeded
<1>12. Closed(A, {})
  BY LiveClosed, IInvIs
<1>13. Ends \subseteq C /\ Ends \subseteq A
  BY <1>1, <1>11, IInvIs, RootsObj DEF Ends, Roots, LiveRoots
<1>14. Floating(Left) \subseteq C /\ Floating(Left) \subseteq A
  <2>1. \A t \in Tables \cap Left : mode'[t] = mode[t]
    BY <1>9, <1>10
  <2>2. Floating(Left)' = Floating(Left)
    BY <1>10, <2>1 DEF Floating
  <2>3. QED
    BY <1>10, <1>11, <2>2 DEF Floating
<1> HIDE DEF A
<1>15. PICK D \in SUBSET Obj : D = C \cap A
  OBVIOUS
<1>16. Closed(D, {})
  <2>1. \A o \in D : field[o] # Nil => field[o] \in D
    BY <1>9, <1>11, <1>12, <1>15 DEF Closed
  <2>2. \A th \in D \cap Threads : stack[th] \subseteq D
    BY <1>9, <1>11, <1>12, <1>15 DEF Closed
  <2>3. ASSUME NEW t \in D \cap Tables
        PROVE  /\ MarkedKeys(t) \subseteq D \cup {Nil}
               /\ "v" \notin mode[t] => \A k \in Used(t) \cap HeldKeys(t, D) : tab[t][k] \in D
    <3>1. t \in C /\ t \in A /\ mode'[t] = mode[t] /\ tab'[t] = tab[t]
      BY <1>9, <1>15, <2>3
    <3>2. Used(t)' = Used(t)
      BY <3>1 DEF Used
    <3>3. MarkedKeys(t)' = MarkedKeys(t)
      BY <3>1, <3>2 DEF MarkedKeys
    <3>4. MarkedKeys(t) \subseteq C \cup {Nil} /\ MarkedKeys(t) \subseteq A \cup {Nil}
      BY <1>11, <1>12, <2>3, <3>1, <3>3 DEF Closed
    <3>5. ASSUME "v" \notin mode[t], NEW k \in Used(t) \cap HeldKeys(t, D)
          PROVE  tab[t][k] \in D
      <4>1. k \in HeldKeys(t, A) /\ k \in HeldKeys(t, C)'
        BY <1>15, <3>1, <3>5 DEF HeldKeys
      <4>2. tab[t][k] \in A
        BY <1>12, <2>3, <3>1, <3>5, <4>1 DEF Closed
      <4>3. tab'[t][k] \in C
        BY <1>11, <2>3, <3>1, <3>2, <3>5, <4>1 DEF Closed
      <4>4. QED
        BY <1>15, <3>1, <4>2, <4>3
    <3>6. QED
      BY <1>15, <3>4, <3>5
  <2>4. QED
    BY <2>1, <2>2, <2>3 DEF Closed
<1>17. Left \subseteq D
  BY <1>4, <1>13, <1>14, <1>15, <1>16 DEF LeftNeeded
<1>18. QED
  BY <1>15, <1>17

LEMMA FinishsweepExact ==
  ASSUME IInv, Exact, finishsweep
  PROVE  Exact'
<1>1. /\ gcstate = "swpend" /\ gcstate' = "callfin" /\ UNCHANGED heap
      /\ UNCHANGED <<full, gckind, tobefnz, L, mt>> /\ color' = [color EXCEPT ![MainThread] = "white"]
  BY DEF finishsweep, fin
<1>2. ~ keepinvariant /\ ~ keepinvariant' /\ gcstate # "pause"
  BY <1>1 DEF keepinvariant
<1>3. SUFFICES ASSUME Alone PROVE LeftNeeded'
  BY <1>1, <1>2 DEF Exact, Alone
<1>4. LeftNeeded
  BY <1>2, <1>3 DEF Exact
<1>5. \A o \in Obj : Live(o)' <=> Live(o)
  BY <1>1, IInvIs, KindsOK DEF Live, LiveRoots, Roots, TypeOK, Kinds
<1>6. Left' = Left
  BY <1>5 DEF Left
<1>7. ASSUME NEW C \in SUBSET Obj, Ends' \subseteq C, Floating(Left)' \subseteq C, Closed(C, {})'
      PROVE  Left' \subseteq C
  <2>1. Closed(C, {}) /\ Ends \subseteq C
    BY <1>1, <1>7 DEF heap, Closed, HeldKeys, MarkedKeys, Used, Ends, Roots
  <2>2. Floating(Left) \subseteq C
    BY <1>1, <1>6, <1>7 DEF heap, Floating
  <2>3. QED
    BY <1>4, <1>6, <2>1, <2>2 DEF LeftNeeded
<1>8. QED
  BY <1>7 DEF LeftNeeded

\* In a collection of this kind nothing but the collector takes a step.
LEMMA AloneIs ==
  ASSUME IInv, Exact, Next, ~ singlestep
  PROVE  Exact'
<1>1. CASE \E o \in Obj : GCTM(o)
  BY <1>1 DEF GCTM, Exact, Alone, ctl
<1>2. CASE \E kind \in FullKinds : luaC_fullgc(kind)
  <2>1. PICK kind \in FullKinds : luaC_fullgc(kind)
    BY <1>2
  <2>2. CASE gcstate = "pause"
    <3>1. ~ keepinvariant
      BY <2>2 DEF keepinvariant
    <3>2. gcstate' = "pause"
      BY <2>1, <2>2, <3>1 DEF luaC_fullgc
    <3>3. QED
      BY <3>2 DEF Exact, keepinvariant
  <2>3. CASE gcstate # "pause"
    BY <2>1, <2>3 DEF luaC_fullgc, firststage, Exact, Alone
  <2>4. QED
    BY <2>2, <2>3
<1>3. CASE mutator
  <2>1. MutatorRuns /\ UNCHANGED <<full, gckind>>
    BY <1>3 DEF mutator, luaC_newobj, pop, push, pushbasicmt, settable, setmode, setupvalue,
                setmetatable, setbasicmt, resume, yield, switch, ctl
  <2>2. ~ Alone /\ ~ Alone'
    BY <2>1 DEF Alone, MutatorRuns
  <2>3. QED
    BY <2>2 DEF Exact
<1>4. QED
  BY <1>1, <1>2, <1>3 DEF Next

LEMMA EndcycleExact ==
  ASSUME endcycle
  PROVE  Exact'
BY DEF endcycle, Exact, keepinvariant

LEMMA NextExact ==
  ASSUME IInv, Exact, Next
  PROVE  Exact'
<1>1. CASE singlestep
  <2>1. CASE \E o \in Obj : propagatemark(o)
    BY <2>1, PropagateExact
  <2>2. CASE sweepstep("swpallgc", "swpfinobj", finobj)
    BY <2>2, SweepExact
  <2>3. CASE sweepstep("swpfinobj", "swptobefnz", tobefnz)
    BY <2>3, SweepExact
  <2>4. CASE sweepstep("swptobefnz", "swpend", {})
    BY <2>4, SweepExact
  <2>5. QED
    BY <1>1, <2>1, <2>2, <2>3, <2>4, RestartExact, AtomicExact, FinishsweepExact, EndcycleExact
    DEF singlestep
<1>2. CASE ~ singlestep
  BY <1>2, AloneIs
<1>3. QED
  BY <1>1, <1>2

LEMMA StutterExact ==
  ASSUME IInv, Exact, UNCHANGED vars
  PROVE  Exact'
<1>1. UNCHANGED <<gcstate, gckind, full, color, allweak, tobefnz, field, tab, mode, stack, L, mt>>
  BY DEF vars, ctl, lists, fin, heap
<1>2. Left' = Left
  BY <1>1 DEF Left, Live
<1>3. ASSUME NEW C \in SUBSET Obj
      PROVE  (Closed(C, {})' <=> Closed(C, {})) /\ Ends' = Ends /\ Floating(Left)' = Floating(Left)
  BY <1>1, <1>2 DEF Closed, HeldKeys, MarkedKeys, Used, Ends, Roots, Floating
<1>4. (MarkedNeeded' <=> MarkedNeeded) /\ (LeftNeeded' <=> LeftNeeded)
  BY <1>1, <1>2, <1>3 DEF MarkedNeeded, LeftNeeded
<1>5. QED
  BY <1>1, <1>4 DEF Exact, Alone, keepinvariant

\* Marking in a full collection is exact: before the atomic phase only what is needed is
\* marked, after it nothing else is left.
THEOREM ExactMarks ==
  ASSUME ~ Overtake, ~ RemetaAllWeak
  PROVE  Spec => [](IInv /\ Exact)
<1>1. Init => Exact
  BY DEF Init, Exact, Alone
<1>2. IInv /\ Exact /\ [Next]_vars => Exact'
  BY NextExact, StutterExact
<1>3. Spec => []IInv
  BY Invariance
<1>4. QED
  BY <1>1, <1>2, <1>3, PTL DEF Spec

\* The end of a full collection without finalizers leaves what can be reached.
LEMMA EndIsExact ==
  ASSUME IInv, Exact, Next, full = "cycle", full' = "no", gckind = "emergency"
  PROVE  Remaining = Reach(Roots \cup {L} \cup tobefnz \cup Floating(Remaining), {}) \ Strings
<1>1. endcycle
  <2>1. ~ MutatorRuns
    BY DEF MutatorRuns
  <2>2. ~ mutator
    BY <2>1 DEF mutator, luaC_newobj, pop, push, pushbasicmt, settable, setmode, setupvalue,
                setmetatable, setbasicmt, resume, yield, switch
  <2>3. ~ (\E kind \in FullKinds : luaC_fullgc(kind)) /\ ~ (\E o \in Obj : GCTM(o))
    BY <2>1 DEF luaC_fullgc, GCTM
  <2>4. singlestep
    BY <2>2, <2>3 DEF Next
  <2>5. QED
    BY <2>4 DEF singlestep, restartcollection, propagatemark, atomic, sweepstep, finishsweep
<1>2. ~ keepinvariant /\ gcstate # "pause" /\ gcstate = "callfin"
  BY <1>1 DEF endcycle, keepinvariant
<1>3. LeftNeeded
  BY <1>2 DEF Exact, Alone
<1>4. Remaining = Left
  BY <1>2, IInvIs DEF Remaining, Left, Live, SweepInv
<1> DEFINE B == Ends \cup Floating(Left)
           A == {o \in Obj : Live(o)}
<1>5. B \in SUBSET Obj /\ B \subseteq A /\ A \in SUBSET Obj
  <2>1. Ends \subseteq A
    BY IInvIs, RootsObj DEF Ends, LiveRoots
  <2>2. Floating(Left) \subseteq A
    BY DEF Floating, Left
  <2>3. QED
    BY <2>1, <2>2
<1>6. Closed(A, {})
  BY LiveClosed, IInvIs
<1> HIDE DEF B
<1>7. Reach(B, {}) \subseteq A
  BY <1>5, <1>6, ReachLeast
<1>8. Reach(B, {}) \in SUBSET Obj /\ B \subseteq Reach(B, {}) /\ Closed(Reach(B, {}), {})
  BY <1>5, ReachBase, ReachClosed, IInvIs
<1>9. Left \subseteq Reach(B, {})
  BY <1>3, <1>8 DEF LeftNeeded, B
<1>10. Left = Reach(B, {}) \ Strings
  BY <1>7, <1>9 DEF Left
<1>11. B = Roots \cup {L} \cup tobefnz \cup Floating(Left)
  BY DEF B, Ends
<1>12. QED
  BY <1>4, <1>10, <1>11

\* A full collection with no finalizer in it leaves exactly what can be reached from the
\* roots and the pending finalizers, but for strings and for keys whose entries it
\* cleared (lgc.c:1151-1158).
THEOREM FullCollectsAll ==
  ASSUME ~ Overtake, ~ RemetaAllWeak
  PROVE  Spec => FullCollects
<1> DEFINE Collects == full = "cycle" /\ full' = "no" /\ gckind = "emergency" =>
              Remaining = Reach(Roots \cup {L} \cup tobefnz \cup Floating(Remaining), {}) \ Strings
<1>1. ASSUME IInv, Exact, Next PROVE Collects
  BY <1>1, EndIsExact
<1>2. IInv /\ Exact /\ [Next]_vars => [Collects]_vars
  BY <1>1
<1>3. Spec => [][Collects]_vars
  BY <1>2, ExactMarks, PTL DEF Spec
<1>4. QED
  BY <1>3 DEF FullCollects
=============================================================================
