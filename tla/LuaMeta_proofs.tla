--------------------------- MODULE LuaMeta_proofs ---------------------------
(* What a program reads and writes through metatables is what its tables and *)
(* metatables alone say, for any values, keys, handlers and limit of the     *)
(* loops: the flags that remember absent handlers never hide one.            *)
EXTENDS LuaMeta, WellFoundedInduction, TLAPS

-----------------------------------------------------------------------------
(* The invariant                                                             *)

\* No handler is hidden.
NoneHidden(fl) == \A t \in Tables : \A event \in fl[t] : fields[t][event] = nil
Flags(fl) == fl \in [Tables -> SUBSET Fast] /\ NoneHidden(fl)
MetaType == /\ fields \in [Tables -> [Keys -> Values \cup {F, nil}]]
            /\ meta \in [Values -> Tables \cup {nil}]
MetaInv == MetaType /\ Flags(flags)

LEMMA TableValues ==
  ASSUME MetaConstants
  PROVE  Tables \subseteq Values /\ nil \notin Tables /\ F \notin Tables /\ nil # F
BY DEF MetaConstants, Values

LEMMA HandlerTypes ==
  ASSUME MetaConstants, MetaType, NEW v \in Values, NEW event \in Fast
  PROVE  Meant!HandlerOf(v, event) \in Values \cup {F, nil}
<1>1. event \in Keys
  BY DEF MetaConstants
<1>2. meta[v] \in Tables \cup {nil}
  BY DEF MetaType
<1>3. QED
  BY <1>1, <1>2 DEF Meant!HandlerOf, MetaType

\* With flags or without them, the handler is the one of the metatable.
LEMMA HandlerFound ==
  ASSUME MetaConstants, MetaType, NEW fl, Flags(fl), NEW v \in Values, NEW event \in Fast
  PROVE  /\ fasttm(fl, meta[v], event) = Meant!HandlerOf(v, event)
         /\ luaT_gettmbyobj(v, event) = Meant!HandlerOf(v, event)
         /\ Flags(luaT_gettm(fl, meta[v], event))
<1>1. PICK m : m = meta[v]
  OBVIOUS
<1>2. m \in Tables \cup {nil}
  BY <1>1 DEF MetaType
<1>3. m # nil => m \in Tables /\ (event \in fl[m] => fields[m][event] = nil)
  BY <1>2 DEF Flags, NoneHidden
<1>4. fasttm(fl, m, event) = IF m = nil THEN nil ELSE fields[m][event]
  BY <1>3 DEF fasttm
<1>5. Flags(luaT_gettm(fl, m, event))
  <2>1. CASE m # nil /\ fields[m][event] = nil
    <3>1. PICK g : g = [fl EXCEPT ![m] = @ \cup {event}]
      OBVIOUS
    <3>2. fl \in [Tables -> SUBSET Fast] /\ m \in Tables
      BY <1>3, <2>1 DEF Flags
    <3>3. g \in [Tables -> SUBSET Fast] /\ \A t \in Tables : g[t] = IF t = m THEN fl[t] \cup {event} ELSE fl[t]
      BY <3>1, <3>2
    <3>4. NoneHidden(g)
      BY <2>1, <3>3 DEF Flags, NoneHidden
    <3>5. luaT_gettm(fl, m, event) = g
      BY <1>4, <2>1, <3>1 DEF luaT_gettm
    <3>6. QED
      BY <3>3, <3>4, <3>5 DEF Flags
  <2>2. CASE ~ (m # nil /\ fields[m][event] = nil)
    <3>1. luaT_gettm(fl, m, event) = fl
      BY <1>4, <2>2 DEF luaT_gettm
    <3>2. QED
      BY <3>1
  <2>3. QED
    BY <2>1, <2>2
<1>6. QED
  BY <1>1, <1>4, <1>5 DEF Meant!HandlerOf, luaT_gettmbyobj

-----------------------------------------------------------------------------
(* What an access means                                                      *)

\* Where it ends at value x with n handlers to go; g tells with one handler less.
EndAt(k, event, n, x, g) ==
  LET h == Meant!HandlerOf(x, event)
  IN IF Meant!Has(x, k) THEN <<"there", x>>
     ELSE IF n = 0 THEN <<"error", nil>>
     ELSE IF h = nil THEN IF x \in Tables THEN <<"absent", x>> ELSE <<"error", nil>>
     ELSE IF h = F THEN <<"call", x>>
     ELSE g[h]
EndRow(k, event, n, g) == [x \in Tables \cup Others |-> EndAt(k, event, n, x, g)]
Ends(k, event, m, f) == f = [n \in 0 .. m |-> EndRow(k, event, n, f[n - 1])]

LEMMA AllNumbers ==
  ASSUME NEW S, 0 \in S, \A n \in Nat : n \in S => n + 1 \in S
  PROVE  Nat \subseteq S
<1> DEFINE R == Nat \ S
<1> SUFFICES ASSUME R # {} PROVE FALSE
  OBVIOUS
<1>1. PICK x \in R : \A y \in R : ~ (<<y, x>> \in OpToRel(<, Nat))
  BY NatLessThanWellFounded, WFMin
<1>2. \A y \in R : ~ (y < x)
  BY <1>1 DEF OpToRel
<1>3. x \in Nat \ {0} /\ x \notin S
  OBVIOUS
<1>4. x - 1 \in Nat /\ x - 1 < x /\ (x - 1) + 1 = x
  BY <1>3
<1>5. x - 1 \in S
  BY <1>2, <1>4
<1>6. QED
  BY <1>3, <1>4, <1>5

\* At the end of the chain nobody is asked.
LEMMA LastRow ==
  ASSUME NEW k, NEW event, NEW g, NEW h
  PROVE  EndRow(k, event, 0, g) = EndRow(k, event, 0, h)
<1>1. \A x \in Tables \cup Others : EndAt(k, event, 0, x, g) = EndAt(k, event, 0, x, h)
  BY DEF EndAt
<1>2. QED
  BY <1>1, Zenon DEF EndRow

LEMMA EndsExist ==
  ASSUME NEW k, NEW event, NEW n \in Nat
  PROVE  \E f : Ends(k, event, n, f)
<1> DEFINE S == {m \in Nat : \E f : Ends(k, event, m, f)}
<1>1. 0 \in S
  <2>1. PICK f : f = [i \in 0 .. 0 |-> EndRow(k, event, 0, 0)]
    OBVIOUS
  <2>2. \A i \in 0 .. 0 : i = 0
    OBVIOUS
  <2>3. ASSUME NEW i \in 0 .. 0 PROVE EndRow(k, event, 0, 0) = EndRow(k, event, i, f[i - 1])
    <3>1. i = 0
      BY <2>2
    <3>2. EndRow(k, event, 0, 0) = EndRow(k, event, 0, f[i - 1])
      BY LastRow
    <3>3. QED
      BY <3>1, <3>2, Zenon
  <2>4. [i \in 0 .. 0 |-> EndRow(k, event, 0, 0)] = [i \in 0 .. 0 |-> EndRow(k, event, i, f[i - 1])]
    BY <2>3, Zenon
  <2>5. Ends(k, event, 0, f)
    BY <2>1, <2>4, Zenon DEF Ends
  <2>6. QED
    BY <2>5
<1>2. ASSUME NEW m \in Nat, m \in S PROVE m + 1 \in S
  <2>1. PICK f : Ends(k, event, m, f)
    BY <1>2
  <2>2. PICK g : g = [i \in 0 .. m + 1 |-> IF i <= m THEN f[i] ELSE EndRow(k, event, i, f[i - 1])]
    OBVIOUS
  <2>3. \A i \in 0 .. m : f[i] = EndRow(k, event, i, f[i - 1])
    BY <2>1, Zenon DEF Ends
  <2>4. ASSUME NEW i \in 0 .. m + 1 PROVE g[i] = EndRow(k, event, i, g[i - 1])
    <3>1. CASE i = 0
      <4>1. i <= m /\ i \in 0 .. m
        BY <3>1
      <4>2. g[i] = f[i]
        BY <2>2, <4>1
      <4>3. f[i] = EndRow(k, event, i, f[i - 1])
        BY <2>3, <4>1
      <4>4. EndRow(k, event, i, f[i - 1]) = EndRow(k, event, i, g[i - 1])
        <5>1. EndRow(k, event, 0, f[i - 1]) = EndRow(k, event, 0, g[i - 1])
          BY LastRow
        <5>2. QED
          BY <3>1, <5>1, Zenon
      <4>5. QED
        BY <4>2, <4>3, <4>4, Zenon
    <3>2. CASE i # 0
      <4>1. i - 1 \in 0 .. m + 1 /\ i - 1 <= m
        BY <3>2
      <4>2. g[i - 1] = f[i - 1]
        BY <2>2, <4>1
      <4>3. CASE i <= m
        <5>1. i \in 0 .. m
          BY <4>3
        <5>2. g[i] = f[i]
          BY <2>2, <4>3
        <5>3. f[i] = EndRow(k, event, i, f[i - 1])
          BY <2>3, <5>1
        <5>4. QED
          BY <4>2, <5>2, <5>3, Zenon
      <4>4. CASE ~ (i <= m)
        <5>1. g[i] = EndRow(k, event, i, f[i - 1])
          BY <2>2, <4>4
        <5>2. QED
          BY <4>2, <5>1, Zenon
      <4>5. QED
        BY <4>3, <4>4
    <3>3. QED
      BY <3>1, <3>2
  <2>5. g = [i \in 0 .. m + 1 |-> g[i]]
    BY <2>2
  <2>6. [i \in 0 .. m + 1 |-> g[i]] = [i \in 0 .. m + 1 |-> EndRow(k, event, i, g[i - 1])]
    BY <2>4, Zenon
  <2>7. Ends(k, event, m + 1, g)
    BY <2>5, <2>6, Zenon DEF Ends
  <2>8. QED
    BY <2>7
<1> HIDE DEF S
<1>3. n \in S
  BY <1>1, <1>2, AllNumbers
<1>4. QED
  BY <1>3 DEF S

\* What the abstract specification says.
LEMMA AccessMeant ==
  ASSUME MetaConstants, NEW k, NEW event
  PROVE  \E f : /\ \A n \in 0 .. MAXTAGLOOP : \A x \in Values : f[n][x] = EndAt(k, event, n, x, f[n - 1])
                /\ \A v : Meant!Access(v, k, event) = f[MAXTAGLOOP][v]
<1>1. PICK f : f = CHOOSE g : Ends(k, event, MAXTAGLOOP, g)
  OBVIOUS
<1>2. Ends(k, event, MAXTAGLOOP, f)
  <2>1. \E g : Ends(k, event, MAXTAGLOOP, g)
    BY EndsExist DEF MetaConstants
  <2>2. QED
    BY <1>1, <2>1
<1>3. \A n \in 0 .. MAXTAGLOOP : f[n] = EndRow(k, event, n, f[n - 1])
  BY <1>2, Zenon DEF Ends
<1>4. ASSUME NEW n \in 0 .. MAXTAGLOOP, NEW x \in Values PROVE f[n][x] = EndAt(k, event, n, x, f[n - 1])
  <2>1. x \in Tables \cup Others
    BY DEF Values
  <2>2. EndRow(k, event, n, f[n - 1])[x] = EndAt(k, event, n, x, f[n - 1])
    BY <2>1, Zenon DEF EndRow
  <2>3. QED
    BY <1>3, <2>2, Zenon
<1>5. ASSUME NEW v PROVE Meant!Access(v, k, event) = f[MAXTAGLOOP][v]
  BY <1>1 DEF Meant!Access, Ends, EndRow, EndAt
<1>6. QED
  BY <1>4, <1>5

-----------------------------------------------------------------------------
(* What the loop does                                                        *)

\* After n passes; g is what there was before the last one.
Pass(v, k, event, n, g) ==
  IF n = 0 THEN [how |-> "on", at |-> v, flags |-> flags]
  ELSE IF g.how = "on" THEN pass(g, k, event)
  ELSE g
Passes(v, k, event, m, f) == f = [n \in 0 .. m |-> Pass(v, k, event, n, f[n - 1])]

LEMMA PassesExist ==
  ASSUME NEW v, NEW k, NEW event, NEW n \in Nat
  PROVE  \E f : Passes(v, k, event, n, f)
<1> DEFINE S == {m \in Nat : \E f : Passes(v, k, event, m, f)}
<1>1. 0 \in S
  <2>1. PICK f : f = [i \in 0 .. 0 |-> Pass(v, k, event, 0, 0)]
    OBVIOUS
  <2>2. ASSUME NEW i \in 0 .. 0 PROVE Pass(v, k, event, 0, 0) = Pass(v, k, event, i, f[i - 1])
    <3>1. i = 0
      OBVIOUS
    <3>2. QED
      BY <3>1 DEF Pass
  <2>3. [i \in 0 .. 0 |-> Pass(v, k, event, 0, 0)] = [i \in 0 .. 0 |-> Pass(v, k, event, i, f[i - 1])]
    BY <2>2, Zenon
  <2>4. Passes(v, k, event, 0, f)
    BY <2>1, <2>3, Zenon DEF Passes
  <2>5. QED
    BY <2>4
<1>2. ASSUME NEW m \in Nat, m \in S PROVE m + 1 \in S
  <2>1. PICK f : Passes(v, k, event, m, f)
    BY <1>2
  <2>2. PICK g : g = [i \in 0 .. m + 1 |-> IF i <= m THEN f[i] ELSE Pass(v, k, event, i, f[i - 1])]
    OBVIOUS
  <2>3. \A i \in 0 .. m : f[i] = Pass(v, k, event, i, f[i - 1])
    BY <2>1, Zenon DEF Passes
  <2>4. ASSUME NEW i \in 0 .. m + 1 PROVE g[i] = Pass(v, k, event, i, g[i - 1])
    <3>1. CASE i = 0
      <4>1. i <= m /\ i \in 0 .. m
        BY <3>1
      <4>2. g[i] = f[i] /\ f[i] = Pass(v, k, event, i, f[i - 1])
        BY <2>2, <2>3, <4>1
      <4>3. Pass(v, k, event, i, f[i - 1]) = Pass(v, k, event, i, g[i - 1])
        BY <3>1 DEF Pass
      <4>4. QED
        BY <4>2, <4>3, Zenon
    <3>2. CASE i # 0
      <4>1. i - 1 \in 0 .. m + 1 /\ i - 1 <= m
        BY <3>2
      <4>2. g[i - 1] = f[i - 1]
        BY <2>2, <4>1
      <4>3. CASE i <= m
        <5>1. i \in 0 .. m
          BY <4>3
        <5>2. g[i] = f[i] /\ f[i] = Pass(v, k, event, i, f[i - 1])
          BY <2>2, <2>3, <4>3, <5>1
        <5>3. QED
          BY <4>2, <5>2, Zenon
      <4>4. CASE ~ (i <= m)
        <5>1. g[i] = Pass(v, k, event, i, f[i - 1])
          BY <2>2, <4>4
        <5>2. QED
          BY <4>2, <5>1, Zenon
      <4>5. QED
        BY <4>3, <4>4
    <3>3. QED
      BY <3>1, <3>2
  <2>5. g = [i \in 0 .. m + 1 |-> g[i]]
    BY <2>2
  <2>6. [i \in 0 .. m + 1 |-> g[i]] = [i \in 0 .. m + 1 |-> Pass(v, k, event, i, g[i - 1])]
    BY <2>4, Zenon
  <2>7. Passes(v, k, event, m + 1, g)
    BY <2>5, <2>6, Zenon DEF Passes
  <2>8. QED
    BY <2>7
<1> HIDE DEF S
<1>3. n \in S
  BY <1>1, <1>2, AllNumbers
<1>4. QED
  BY <1>3 DEF S

\* What the code tells in the terms of the abstract specification.
Outcome(s) ==
  IF s.how \in {"there", "absent", "call"} THEN <<s.how, s.at>> ELSE <<"error", nil>>

Seen(s, k) ==
  /\ s.how \in {"on", "there", "absent", "call", "error"} /\ s.at \in Values /\ Flags(s.flags)
  /\ s.how = "there" => Meant!Has(s.at, k)
  /\ s.how = "on" => ~ Meant!Has(s.at, k)
  /\ s.how = "absent" => s.at \in Tables /\ ~ Meant!Has(s.at, k)

\* g tells where the keys are that are there.
Shows(g, k) == \A x \in Values : Meant!Has(x, k) => g[x] = <<"there", x>>
\* r is on the way to the end e that g tells, or there.
Toward(r, g, e) == IF r.how = "on" THEN g[r.at] = e ELSE Outcome(r) = e

\* One pass is one handler less to go.
LEMMA OnePass ==
  ASSUME MetaConstants, MetaType, NEW k, NEW event \in Fast, NEW s, Seen(s, k), s.how = "on", NEW r, r = pass(s, k, event),
         NEW n \in Nat \ {0}, NEW g, Shows(g, k)
  PROVE  Seen(r, k) /\ Toward(r, g, EndAt(k, event, n, s.at, g))
<1>1. PICK v, h : v = s.at /\ h = Meant!HandlerOf(v, event)
  OBVIOUS
<1>2. v \in Values /\ Flags(s.flags) /\ ~ Meant!Has(v, k)
  BY <1>1 DEF Seen
<1>3. h \in Values \cup {F, nil}
  BY <1>1, <1>2, HandlerTypes
<1>4. /\ fasttm(s.flags, meta[v], event) = h /\ luaT_gettmbyobj(v, event) = h
      /\ Flags(luaT_gettm(s.flags, meta[v], event))
  <2>1. /\ fasttm(s.flags, meta[v], event) = Meant!HandlerOf(v, event)
        /\ luaT_gettmbyobj(v, event) = Meant!HandlerOf(v, event)
        /\ Flags(luaT_gettm(s.flags, meta[v], event))
    BY <1>2, HandlerFound
  <2>2. QED
    BY <1>1, <2>1
<1>5. PICK fl : fl = IF v \in Tables THEN luaT_gettm(s.flags, meta[v], event) ELSE s.flags
  OBVIOUS
<1>6. Flags(fl)
  BY <1>2, <1>4, <1>5
<1>7. r = [how |-> IF h = nil THEN (IF v \in Tables THEN "absent" ELSE "error")
                   ELSE IF h = F THEN "call"
                   ELSE IF fastget(h, k) THEN "there" ELSE "on",
           at |-> IF h \in {nil, F} THEN v ELSE h,
           flags |-> fl]
  <2>1. (IF v \in Tables THEN fasttm(s.flags, meta[v], event) ELSE luaT_gettmbyobj(v, event)) = h
    BY <1>4
  <2>2. QED
    BY <1>1, <1>5, <2>1, Zenon DEF pass
<1>8. fastget(h, k) <=> Meant!Has(h, k)
  BY DEF fastget, Meant!Has
<1>9. EndAt(k, event, n, v, g) = IF h = nil THEN IF v \in Tables THEN <<"absent", v>> ELSE <<"error", nil>>
                                 ELSE IF h = F THEN <<"call", v>>
                                 ELSE g[h]
  BY <1>1, <1>2 DEF EndAt
<1>10. F # nil
  BY TableValues
<1>11. CASE h = nil
  <2>1. r.how = (IF v \in Tables THEN "absent" ELSE "error") /\ r.at = v /\ r.flags = fl
    BY <1>7, <1>11
  <2>2. QED
    BY <1>1, <1>2, <1>6, <1>9, <1>11, <2>1 DEF Seen, Outcome, Toward
<1>12. CASE h = F
  <2>1. r.how = "call" /\ r.at = v /\ r.flags = fl
    BY <1>7, <1>10, <1>12
  <2>2. QED
    BY <1>1, <1>2, <1>6, <1>9, <1>10, <1>12, <2>1 DEF Seen, Outcome, Toward
<1>13. CASE h \notin {nil, F}
  <2>1. r.how = (IF fastget(h, k) THEN "there" ELSE "on") /\ r.at = h /\ r.flags = fl
    BY <1>7, <1>13
  <2>2. h \in Values
    BY <1>3, <1>13
  <2>3. EndAt(k, event, n, v, g) = g[h]
    BY <1>9, <1>13
  <2>4. QED
    BY <1>1, <1>6, <1>8, <2>1, <2>2, <2>3 DEF Seen, Outcome, Toward, Shows
<1>14. QED
  BY <1>11, <1>12, <1>13

\* An access ends where it should, with flags that hide nothing.
Right(r, v, k, event) ==
  Seen(r, k) /\ r.how # "on" /\ Outcome(r) = Meant!Access(v, k, event)

LEMMA AccessRight ==
  ASSUME MetaConstants, MetaInv, NEW v \in Values, NEW k \in Keys, NEW event \in Fast
  PROVE  Right(access(v, k, event), v, k, event)
<1>1. PICK f : /\ \A n \in 0 .. MAXTAGLOOP : \A x \in Values : f[n][x] = EndAt(k, event, n, x, f[n - 1])
               /\ \A w : Meant!Access(w, k, event) = f[MAXTAGLOOP][w]
  BY AccessMeant
<1>2. PICK L, A : L = MAXTAGLOOP /\ A = Meant!Access(v, k, event)
  OBVIOUS
<1>3. L \in Nat /\ A = f[L][v] /\ A = EndAt(k, event, L, v, f[L - 1])
  BY <1>1, <1>2 DEF MetaConstants
<1>4. \A n \in 0 .. L : \A x \in Values : Meant!Has(x, k) => f[n][x] = <<"there", x>>
  BY <1>1, <1>2 DEF EndAt
<1>5. MetaType /\ Flags(flags)
  BY DEF MetaInv
<1>6. CASE fastget(v, k)
  <2>1. PICK r : r = [how |-> "there", at |-> v, flags |-> flags]
    OBVIOUS
  <2>2. access(v, k, event) = r /\ Meant!Has(v, k)
    BY <1>6, <2>1 DEF access, fastget, Meant!Has
  <2>3. A = <<"there", v>>
    <3>1. L \in 0 .. L
      BY <1>3
    <3>2. f[L][v] = <<"there", v>>
      BY <1>4, <2>2, <3>1
    <3>3. QED
      BY <1>3, <3>2
  <2>4. Right(r, v, k, event)
    BY <1>2, <1>5, <2>1, <2>2, <2>3 DEF Right, Seen, Outcome
  <2>5. QED
    BY <2>2, <2>4
<1>7. CASE ~ fastget(v, k)
  <2>1. ~ Meant!Has(v, k)
    BY <1>7 DEF fastget, Meant!Has
  <2>2. PICK a : a = CHOOSE b : Passes(v, k, event, MAXTAGLOOP, b)
    OBVIOUS
  <2>3. finish(v, k, event) = IF a[L].how = "on" THEN [a[L] EXCEPT !.how = "error"] ELSE a[L]
    BY <1>2, <2>2 DEF finish, Passes, Pass
  <2>4. Passes(v, k, event, MAXTAGLOOP, a)
    <3>1. \E b : Passes(v, k, event, MAXTAGLOOP, b)
      BY PassesExist DEF MetaConstants
    <3>2. QED
      BY <2>2, <3>1
  <2>5. \A n \in 0 .. L : a[n] = Pass(v, k, event, n, a[n - 1])
    BY <1>2, <2>4, Zenon DEF Passes
  <2> DEFINE Good(n) == /\ Seen(a[n], k)
                        /\ IF a[n].how = "on" THEN A = f[L - n][a[n].at] ELSE A = Outcome(a[n])
             S == {n \in Nat : n <= L => Good(n)}
  <2>6. 0 \in S
    <3>1. 0 \in 0 .. L /\ L - 0 = L
      BY <1>3
    <3>2. a[0] = [how |-> "on", at |-> v, flags |-> flags]
      BY <2>5, <3>1 DEF Pass
    <3>3. a[0].how = "on" /\ a[0].at = v /\ a[0].flags = flags
      BY <3>2
    <3>4. Seen(a[0], k)
      BY <1>5, <2>1, <3>3 DEF Seen
    <3>5. A = f[L - 0][a[0].at]
      BY <1>3, <3>1, <3>3
    <3>6. QED
      BY <3>3, <3>4, <3>5
  <2>7. ASSUME NEW n \in Nat, n \in S PROVE n + 1 \in S
    <3>1. SUFFICES ASSUME n + 1 <= L PROVE Good(n + 1)
      OBVIOUS
    <3>2. n <= L /\ Good(n) /\ n + 1 \in 0 .. L /\ (n + 1) - 1 = n /\ n + 1 # 0
      BY <1>3, <2>7, <3>1
    <3>3. PICK s, r : s = a[n] /\ r = a[n + 1]
      OBVIOUS
    <3>4. r = IF s.how = "on" THEN pass(s, k, event) ELSE s
      <4>1. r = Pass(v, k, event, n + 1, s)
        BY <2>5, <3>2, <3>3
      <4>2. QED
        BY <3>2, <4>1 DEF Pass
    <3>5. CASE s.how = "on"
      <4>1. PICK m, g : m = L - n /\ g = f[m - 1]
        OBVIOUS
      <4>2. m \in Nat \ {0} /\ m \in 0 .. L /\ m - 1 \in 0 .. L /\ m - 1 = L - (n + 1)
        BY <1>3, <3>1, <4>1
      <4>3. Shows(g, k)
        BY <1>4, <4>1, <4>2 DEF Shows
      <4>4. Seen(s, k) /\ A = f[m][s.at]
        BY <3>2, <3>3, <3>5, <4>1
      <4>5. s.at \in Values
        BY <4>4 DEF Seen
      <4>6. A = EndAt(k, event, m, s.at, g)
        BY <1>1, <1>2, <4>1, <4>2, <4>4, <4>5
      <4>7. r = pass(s, k, event)
        BY <3>4, <3>5
      <4>8. Seen(r, k) /\ Toward(r, g, EndAt(k, event, m, s.at, g))
        BY <1>5, <3>5, <4>2, <4>3, <4>4, <4>7, OnePass
      <4>9. Seen(r, k) /\ IF r.how = "on" THEN A = f[L - (n + 1)][r.at] ELSE A = Outcome(r)
        BY <4>1, <4>2, <4>6, <4>8 DEF Toward
      <4>10. QED
        BY <3>3, <4>9
    <3>6. CASE s.how # "on"
      BY <3>2, <3>3, <3>4, <3>6
    <3>7. QED
      BY <3>5, <3>6
  <2>8. Good(L)
    <3>1. L \in S
      <4> HIDE DEF S
      <4>1. QED
        BY <1>3, <2>6, <2>7, AllNumbers
    <3>2. QED
      BY <1>3, <3>1
  <2>9. PICK s, r : s = a[L] /\ r = IF s.how = "on" THEN [s EXCEPT !.how = "error"] ELSE s
    OBVIOUS
  <2>10. access(v, k, event) = r
    BY <1>7, <2>3, <2>9 DEF access
  <2>11. Right(r, v, k, event)
    <3>1. CASE s.how # "on"
      <4>1. r = s /\ Seen(s, k) /\ A = Outcome(s)
        BY <2>8, <2>9, <3>1
      <4>2. QED
        BY <1>2, <3>1, <4>1 DEF Right
    <3>2. CASE s.how = "on"
      <4>1. Seen(s, k) /\ A = f[L - L][s.at]
        BY <2>8, <2>9, <3>2
      <4>2. s.at \in Values /\ ~ Meant!Has(s.at, k) /\ 0 \in 0 .. L /\ L - L = 0
        BY <1>3, <3>2, <4>1 DEF Seen
      <4>3. A = EndAt(k, event, 0, s.at, f[0 - 1])
        BY <1>1, <1>2, <4>1, <4>2
      <4>4. A = <<"error", nil>>
        BY <4>2, <4>3 DEF EndAt
      <4>5. r = [s EXCEPT !.how = "error"]
        BY <2>9, <3>2
      <4>6. r.how = "error" /\ r.at = s.at /\ r.flags = s.flags
        BY <4>5
      <4>7. QED
        BY <1>2, <4>1, <4>4, <4>6 DEF Right, Seen, Outcome
    <3>3. QED
      BY <3>1, <3>2
  <2>12. QED
    BY <2>10, <2>11
<1>8. QED
  BY <1>6, <1>7

-----------------------------------------------------------------------------
(* Every operation keeps the invariant and does what the program means       *)

LEMMA InitInv ==
  ASSUME MetaConstants, MInit
  PROVE  MetaInv
<1>1. Fast \subseteq Keys /\ Tables \subseteq Values
  BY DEF MetaConstants, Values
<1>2. MetaType
  BY DEF MInit, MetaType
<1>3. flags \in [Tables -> SUBSET Fast] /\ \A t \in Tables : flags[t] = Fast
  BY DEF MInit
<1>4. \A t \in Tables : \A event \in Keys : fields[t][event] = nil
  BY DEF MInit
<1>5. Flags(flags)
  BY <1>1, <1>3, <1>4 DEF Flags, NoneHidden
<1>6. QED
  BY <1>2, <1>5 DEF MetaInv

\* fields with x at key k of table t, and flags gl that hide nothing there.
LEMMA WriteKeeps ==
  ASSUME MetaConstants, MetaType, NEW t \in Tables, NEW k \in Keys, NEW x \in Values \cup {F, nil},
         fields' = [fields EXCEPT ![t][k] = x], meta' = meta,
         NEW fl, Flags(fl), flags' = fl, x = nil \/ k \notin fl[t]
  PROVE  MetaInv'
<1>1. fields' \in [Tables -> [Keys -> Values \cup {F, nil}]]
  BY DEF MetaType
<1>2. \A s \in Tables, e \in Keys : fields'[s][e] = IF s = t /\ e = k THEN x ELSE fields[s][e]
  BY DEF MetaType
<1>3. MetaType'
  BY <1>1 DEF MetaType, Values
<1>4. fl \in [Tables -> SUBSET Fast] /\ Fast \subseteq Keys
  BY DEF Flags, MetaConstants
<1>5. ASSUME NEW s \in Tables, NEW e \in fl[s] PROVE fields'[s][e] = nil
  <2>1. e \in Keys /\ fields[s][e] = nil
    BY <1>4 DEF Flags, NoneHidden
  <2>2. QED
    BY <1>2, <2>1
<1>6. Flags(flags)'
  BY <1>4, <1>5 DEF Flags, NoneHidden
<1>7. QED
  BY <1>3, <1>6 DEF MetaInv

\* Without its flags a table hides nothing.
LEMMA Invalidated ==
  ASSUME NEW fl, Flags(fl), NEW t \in Tables
  PROVE  Flags(invalidated(fl, t)) /\ invalidated(fl, t)[t] = {}
<1>1. PICK g : g = invalidated(fl, t)
  OBVIOUS
<1>2. fl \in [Tables -> SUBSET Fast]
  BY DEF Flags
<1>3. g \in [Tables -> SUBSET Fast] /\ \A s \in Tables : g[s] = IF s = t THEN {} ELSE fl[s]
  BY <1>1, <1>2 DEF invalidated
<1>4. NoneHidden(g)
  BY <1>3 DEF Flags, NoneHidden
<1>5. QED
  BY <1>1, <1>3, <1>4 DEF Flags

\* Only flags change.
LEMMA FlagsKeep ==
  ASSUME MetaType, fields' = fields, meta' = meta, Flags(flags')
  PROVE  MetaInv'
BY DEF MetaInv, MetaType, Flags, NoneHidden

LEMMA GetStep ==
  ASSUME MetaConstants, MetaInv, NEW v \in Values, NEW k \in Keys, luaV_gettable(v, k)
  PROVE  MetaInv'
<1>1. PICK r : r = access(v, k, "__index")
  OBVIOUS
<1>2. Right(r, v, k, "__index")
  BY <1>1, AccessRight DEF Fast
<1>3. flags' = r.flags /\ fields' = fields /\ meta' = meta
  BY <1>1 DEF luaV_gettable
<1>4. Flags(r.flags)
  BY <1>2 DEF Right, Seen
<1>5. Flags(flags')
  BY <1>3, <1>4
<1>6. QED
  BY <1>3, <1>5, FlagsKeep DEF MetaInv

LEMMA SetStep ==
  ASSUME MetaConstants, MetaInv, NEW v \in Values, NEW k \in Keys, NEW x \in Stored(k) \cup {nil},
         luaV_settable(v, k, x)
  PROVE  MetaInv'
<1>1. PICK r : r = access(v, k, "__newindex")
  OBVIOUS
<1>2. Right(r, v, k, "__newindex")
  BY <1>1, AccessRight DEF Fast
<1>3. /\ fields' = IF r.how \in {"there", "absent"} THEN [fields EXCEPT ![r.at][k] = x] ELSE fields
      /\ flags' = IF r.how = "absent" THEN invalidated(r.flags, r.at) ELSE r.flags
      /\ meta' = meta
  BY <1>1 DEF luaV_settable, stored
<1>4. Seen(r, k) /\ Outcome(r) = Meant!Access(v, k, "__newindex")
  BY <1>2 DEF Right
<1>5. MetaType /\ x \in Values \cup {F, nil} /\ Flags(r.flags)
  BY <1>4 DEF MetaInv, MetaConstants, Seen
<1>6. CASE r.how \in {"there", "absent"}
  <2>1. r.at \in Tables
    BY <1>4, <1>6 DEF Seen, Meant!Has
  <2>2. fields' = [fields EXCEPT ![r.at][k] = x]
    BY <1>3, <1>6
  <2>3. MetaInv'
    <3>1. CASE r.how = "there"
      <4>1. flags' = r.flags /\ fields[r.at][k] # nil
        BY <1>3, <1>4, <3>1 DEF Seen, Meant!Has
      <4>2. k \notin r.flags[r.at]
        BY <1>5, <2>1, <4>1 DEF Flags, NoneHidden
      <4>3. QED
        BY <1>3, <1>5, <2>1, <2>2, <4>1, <4>2, WriteKeeps
    <3>2. CASE r.how = "absent"
      <4>1. PICK fl : fl = invalidated(r.flags, r.at)
        OBVIOUS
      <4>2. Flags(fl) /\ fl[r.at] = {}
        BY <1>5, <2>1, <4>1, Invalidated
      <4>3. flags' = fl /\ k \notin fl[r.at]
        BY <1>3, <3>2, <4>1, <4>2
      <4>4. QED
        BY <1>3, <1>5, <2>1, <2>2, <4>2, <4>3, WriteKeeps
    <3>3. QED
      BY <1>6, <3>1, <3>2
  <2>4. QED
    BY <2>3
<1>7. CASE r.how \notin {"there", "absent"}
  <2>1. fields' = fields /\ meta' = meta /\ flags' = r.flags
    BY <1>3, <1>7
  <2>2. Flags(flags')
    BY <1>5, <2>1
  <2>3. QED
    BY <1>5, <2>1, <2>2, FlagsKeep
<1>8. QED
  BY <1>6, <1>7

LEMMA RawStep ==
  ASSUME MetaConstants, MetaInv, NEW t \in Tables, NEW k \in Keys, NEW x \in Stored(k) \cup {nil},
         lua_rawset(t, k, x)
  PROVE  MetaInv'
<1>1. /\ fields' = [fields EXCEPT ![t][k] = x]
      /\ flags' = invalidated(flags, t) /\ meta' = meta
  BY DEF lua_rawset
<1>2. MetaType /\ x \in Values \cup {F, nil} /\ Flags(flags)
  BY DEF MetaInv, MetaConstants
<1>3. PICK fl : fl = invalidated(flags, t)
  OBVIOUS
<1>4. Flags(fl) /\ k \notin fl[t]
  BY <1>2, <1>3, Invalidated
<1>5. QED
  BY <1>1, <1>2, <1>3, <1>4, WriteKeeps

LEMMA MetatableStep ==
  ASSUME MetaConstants, MetaInv, NEW v \in Values, NEW m \in Tables \cup {nil}, lua_setmetatable(v, m)
  PROVE  MetaInv'
<1>1. meta' = [meta EXCEPT ![v] = m] /\ fields' = fields /\ flags' = flags
  BY DEF lua_setmetatable
<1>2. QED
  BY <1>1 DEF MetaInv, MetaType, Flags, NoneHidden

LEMMA EveryStep ==
  ASSUME MetaConstants, MetaInv, [MNext]_mvars
  PROVE  MetaInv'
<1>1. CASE MNext
  BY <1>1, GetStep, SetStep, RawStep, MetatableStep DEF MNext
<1>2. CASE UNCHANGED mvars
  <2>1. fields' = fields /\ meta' = meta /\ flags' = flags
    BY <1>2 DEF mvars
  <2>2. QED
    BY <2>1 DEF MetaInv, MetaType, Flags, NoneHidden
<1>3. QED
  BY <1>1, <1>2

\* What is read and written is what it means, when the flags hide nothing.
LEMMA Meaning ==
  ASSUME MetaConstants, MetaInv
  PROVE  MetaAsMeant
<1> SUFFICES ASSUME NEW v \in Values, NEW k \in Keys
             PROVE  /\ got(access(v, k, "__index"), k) = Meant!Read(v, k)
                    /\ LET r == access(v, k, "__newindex")
                           m == Meant!Access(v, k, "__newindex")
                       IN ended(r) = m /\ \A x \in Stored(k) \cup {nil} : stored(r, k, x) = Meant!Written(m, k, x)
  BY DEF MetaAsMeant
<1>1. ASSUME NEW event \in Fast, NEW r, r = access(v, k, event), NEW m, m = Meant!Access(v, k, event)
      PROVE  /\ r.how \in {"there", "absent", "call", "error"}
             /\ m = IF r.how = "error" THEN <<"error", nil>> ELSE <<r.how, r.at>>
  <2>1. Right(r, v, k, event)
    BY <1>1, AccessRight
  <2>2. QED
    BY <1>1, <2>1 DEF Right, Seen, Outcome
<1>2. got(access(v, k, "__index"), k) = Meant!Read(v, k)
  <2>1. PICK r, m : r = access(v, k, "__index") /\ m = Meant!Access(v, k, "__index")
    OBVIOUS
  <2>2. /\ r.how \in {"there", "absent", "call", "error"}
        /\ m = IF r.how = "error" THEN <<"error", nil>> ELSE <<r.how, r.at>>
    BY <1>1, <2>1 DEF Fast
  <2>3. Meant!Read(v, k) = IF m[1] = "there" THEN <<"value", fields[m[2]][k]>>
                           ELSE IF m[1] = "absent" THEN <<"value", nil>> ELSE m
    BY <2>1 DEF Meant!Read
  <2>4. got(r, k) = IF m[1] = "there" THEN <<"value", fields[m[2]][k]>>
                    ELSE IF m[1] = "absent" THEN <<"value", nil>> ELSE m
    BY <2>2 DEF got, ended
  <2>5. QED
    BY <2>1, <2>3, <2>4
<1>3. PICK r, m : r = access(v, k, "__newindex") /\ m = Meant!Access(v, k, "__newindex")
  OBVIOUS
<1>4. /\ r.how \in {"there", "absent", "call", "error"}
      /\ m = IF r.how = "error" THEN <<"error", nil>> ELSE <<r.how, r.at>>
  BY <1>1, <1>3 DEF Fast
<1>5. ended(r) = m
  BY <1>4 DEF ended
<1>6. ASSUME NEW x \in Stored(k) \cup {nil} PROVE stored(r, k, x) = Meant!Written(m, k, x)
  <2>1. CASE r.how \in {"there", "absent"}
    <3>1. m[1] \in {"there", "absent"} /\ m[2] = r.at
      BY <1>4, <2>1
    <3>2. QED
      BY <2>1, <3>1 DEF stored, Meant!Written
  <2>2. CASE r.how \notin {"there", "absent"}
    <3>1. m[1] \notin {"there", "absent"}
      BY <1>4, <2>2
    <3>2. QED
      BY <2>2, <3>1 DEF stored, Meant!Written
  <2>3. QED
    BY <2>1, <2>2
<1>7. QED
  BY <1>2, <1>3, <1>5, <1>6

-----------------------------------------------------------------------------
(* The theorems                                                              *)

\* Whatever a program stores, reads and uses as metatables, no flag of a table hides a
\* handler that the table has (ltm.c, luaT_gettm; lvm.h, invalidateTMcache).
THEOREM NoHandlerHidden ==
  ASSUME MetaConstants
  PROVE  MSpec => []MetaInv
<1>1. MInit => MetaInv
  BY InitInv
<1>2. MetaInv /\ [MNext]_mvars => MetaInv'
  BY EveryStep
<1>3. QED
  BY <1>1, <1>2, PTL DEF MSpec

\* At any time, what luaV_finishget reads or calls, and what luaV_finishset writes, where, or
\* calls, is what the tables and the metatables alone say, for any handlers and any limit of
\* the loops.
THEOREM AsMeant ==
  ASSUME MetaConstants
  PROVE  MSpec => []MetaAsMeant
<1>1. MSpec => []MetaInv
  BY NoHandlerHidden
<1>2. MetaInv => MetaAsMeant
  BY Meaning
<1>3. QED
  BY <1>1, <1>2, PTL
=============================================================================
