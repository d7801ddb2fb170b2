------------------------------- MODULE LuaSort -------------------------------
(* The table library (ltablib.c). Sorting is a process: every comparison may *)
(* be a call of the program's function, which answers as it likes. The other *)
(* functions work on a table that maps all integers to values, nil included. *)
EXTENDS Integers, Sequences, FiniteSets, SequencesExt

CONSTANTS
  RANLIMIT,      \* least interval whose pivot may be random; 4 at least
  Imbalance,     \* an interval that much greater than the other one asks for random pivots
  Randoms,       \* what l_randomizePivot gives
  Inputs,        \* the arrays to be sorted
  MAXINTEGER,    \* greatest integer (LUA_MAXINTEGER)
  Error          \* an error, instead of a result

VARIABLES
  a,         \* the array
  given,     \* the array as it was
  honest,    \* the comparison is the order of the values
  q          \* [pc, lo, up, rnd, p, i, j, P, n, pending]: the state of auxsort; pending are
             \* the intervals that its callers still have to sort

svars == <<a, given, honest, q>>

SInit ==
  /\ a \in Inputs /\ given = a /\ honest \in BOOLEAN
  /\ q = [pc |-> "loop", lo |-> 1, up |-> Len(a), rnd |-> 0, p |-> 0, i |-> 0, j |-> 0, P |-> 0,
          pending |-> <<>>]

\* A comparison and its answer.
sort_comp(x, y, less) == less \in BOOLEAN /\ (honest => less = (x < y))
set2(i, j) == a' = [a EXCEPT ![i] = a[j], ![j] = a[i]]
\* The caller goes on with the interval that it kept; when that is too large, compared with
\* the interval just sorted, its pivots become random.
return ==
  IF q.pending = <<>> THEN q' = [q EXCEPT !.pc = "done"]
  ELSE LET frame == Last(q.pending)
       IN \E r \in IF (frame.up - frame.lo) \div Imbalance > frame.n THEN Randoms ELSE {frame.rnd} :
            q' = [q EXCEPT !.pc = "loop", !.lo = frame.lo, !.up = frame.up, !.rnd = r, !.pending = Front(@)]

loop ==
  /\ q.pc = "loop"
  /\ IF q.lo < q.up THEN q' = [q EXCEPT !.pc = "ends"] ELSE return
  /\ UNCHANGED <<a, given, honest>>

choosePivot(lo, up, rnd) == LET r4 == (up - lo) \div 4 IN (rnd % (r4 * 2)) + lo + r4
ends ==
  /\ q.pc = "ends"
  /\ \E less \in BOOLEAN :
       /\ sort_comp(a[q.up], a[q.lo], less)
       /\ IF less THEN set2(q.lo, q.up) ELSE a' = a
  /\ IF q.up - q.lo = 1 THEN return
     ELSE q' = [q EXCEPT !.pc = "low",
                         !.p = IF q.up - q.lo < RANLIMIT \/ q.rnd = 0 THEN (q.lo + q.up) \div 2
                               ELSE choosePivot(q.lo, q.up, q.rnd)]
  /\ UNCHANGED <<given, honest>>

\* With three elements in order, the middle one is the pivot; it goes to the end but one.
begin(b) ==
  IF q.up - q.lo = 2 THEN a' = b /\ return
  ELSE /\ a' = [b EXCEPT ![q.p] = b[q.up - 1], ![q.up - 1] = b[q.p]]
       /\ q' = [q EXCEPT !.pc = "left", !.i = q.lo, !.j = q.up - 1, !.P = b[q.p]]
low ==
  /\ q.pc = "low"
  /\ \E less \in BOOLEAN :
       /\ sort_comp(a[q.p], a[q.lo], less)
       /\ IF less THEN begin([a EXCEPT ![q.p] = a[q.lo], ![q.lo] = a[q.p]])
          ELSE q' = [q EXCEPT !.pc = "high"] /\ a' = a
  /\ UNCHANGED <<given, honest>>
high ==
  /\ q.pc = "high"
  /\ \E less \in BOOLEAN :
       /\ sort_comp(a[q.up], a[q.p], less)
       /\ begin(IF less THEN [a EXCEPT ![q.p] = a[q.up], ![q.up] = a[q.p]] ELSE a)
  /\ UNCHANGED <<given, honest>>

\* The next element from the left that is not less than the pivot.
left ==
  /\ q.pc = "left"
  /\ \E less \in BOOLEAN :
       /\ sort_comp(a[q.i + 1], q.P, less)
       /\ q' = [q EXCEPT !.i = q.i + 1,
                         !.pc = IF ~ less THEN "right" ELSE IF q.i + 1 = q.up - 1 THEN "error" ELSE "left"]
  /\ UNCHANGED <<a, given, honest>>

\* The smaller of the two intervals around position i first.
divided_Kept(i) ==
  q' = [q EXCEPT !.pc = "loop", !.up = i - 1, !.pending = Append(@, [lo |-> q.lo, up |-> q.up, n |-> i - q.lo, rnd |-> q.rnd])]
divided(i) ==
  LET lower == [lo |-> q.lo, up |-> i - 1, n |-> q.up - i, rnd |-> q.rnd]
      upper == [lo |-> i + 1, up |-> q.up, n |-> i - q.lo, rnd |-> q.rnd]
      first == IF i - q.lo < q.up - i THEN lower ELSE upper
      later == IF i - q.lo < q.up - i THEN upper ELSE lower
  IN q' = [q EXCEPT !.pc = "loop", !.lo = first.lo, !.up = first.up, !.pending = Append(@, later)]
\* The next element from the right that is not greater than the pivot changes places with
\* the one from the left; when they have met, the pivot takes its place.
right ==
  /\ q.pc = "right"
  /\ \E less \in BOOLEAN :
       /\ sort_comp(q.P, a[q.j - 1], less)
       /\ IF less
          THEN q' = [q EXCEPT !.j = q.j - 1, !.pc = IF q.j - 1 < q.i THEN "error" ELSE "right"] /\ a' = a
          ELSE IF q.j - 1 < q.i
          THEN a' = [a EXCEPT ![q.up - 1] = a[q.i], ![q.i] = q.P] /\ divided(q.i)
          ELSE set2(q.i, q.j - 1) /\ q' = [q EXCEPT !.j = q.j - 1, !.pc = "left"]
  /\ UNCHANGED <<given, honest>>

\* The program's function fails.
raises == ~ honest /\ q.pc \in {"ends", "low", "high", "left", "right"}
          /\ q' = [q EXCEPT !.pc = "error"] /\ UNCHANGED <<a, given, honest>>

SNext ==
  \/ loop
  \/ ends
  \/ low
  \/ high
  \/ left
  \/ right
  \/ raises

-----------------------------------------------------------------------------
(* The other functions, on a table T *)

assigned(T, moves) == FoldLeft(LAMBDA t, m : [t EXCEPT ![m[1]] = t[m[2]]], T, moves)
Upwards(n) == <<>> \o [k \in 1..n |-> k - 1]
Downwards(n) == <<>> \o [k \in 1..n |-> n - k]

\* size is the length of T.
tinsert(T, size, pos, v) ==
  IF pos < 1 \/ pos > size + 1 THEN Error
  ELSE LET n == size + 1 - pos
       IN [assigned(T, [k \in 1..n |-> <<size + 2 - k, size + 1 - k>>]) EXCEPT ![pos] = v]
tremove(T, size, pos, nil) ==
  IF pos # size /\ (pos < 1 \/ pos > size + 1) THEN Error
  ELSE LET n == IF pos < size THEN size - pos ELSE 0
       IN <<T[pos], [assigned(T, [k \in 1..n |-> <<pos + k - 1, pos + k>>]) EXCEPT ![pos + n] = nil]>>

\* The elements f to e go to place t and behind.
overlaps_Never(f, e, t) == FALSE
overlaps(f, e, t) == ~ (t > e \/ t <= f)
tmove(T, f, e, t) ==
  LET n == e - f + 1
      order == IF overlaps(f, e, t) THEN Downwards(n) ELSE Upwards(n)
  IN IF e < f THEN T
     ELSE IF ~ (f > 0 \/ e < MAXINTEGER + f) \/ t > MAXINTEGER - n + 1 THEN Error
     ELSE assigned(T, [k \in 1..n |-> <<t + order[k], f + order[k]>>])

\* The elements i to e; limit is the room on the stack.
unpack(T, i, e, limit) ==
  IF i > e THEN <<>> ELSE IF e - i >= limit THEN Error ELSE [k \in 1..(e - i + 1) |-> T[i + k - 1]]
RECURSIVE tconcat(_, _, _, _, _)
tconcat(T, sep, i, last, nil) ==
  IF i > last THEN <<>>
  ELSE IF T[i] = nil THEN Error
  ELSE IF i = last THEN <<T[i]>>
  ELSE LET rest == tconcat(T, sep, i + 1, last, nil)
       IN IF rest = Error THEN rest ELSE <<T[i], sep>> \o rest

-----------------------------------------------------------------------------
\* Whatever the function answers, and when it fails, the array keeps its elements, and
\* nothing outside the interval is compared; with an order, the array ends sorted and no
\* order is called invalid.
Sorts ==
  /\ \A v \in {given[k] : k \in DOMAIN given} :
       Cardinality({k \in DOMAIN a : a[k] = v}) = Cardinality({k \in DOMAIN a : given[k] = v})
  /\ q.pc = "left" => q.i + 1 \in q.lo..(q.up - 1)
  /\ q.pc = "right" => q.j - 1 \in q.lo..(q.up - 1)
  /\ honest => q.pc # "error"
  /\ honest /\ q.pc = "done" => \A k \in 1..(Len(a) - 1) : a[k] <= a[k + 1]

\* Sorting ends, whatever the function answers.
SortEnds == <>(q.pc \in {"done", "error"})

\* Elements move as if all at once; an element inserted or removed shifts the ones behind
\* it; T has the elements 1 to size.
Moves(T, f, e, t) ==
  LET r == tmove(T, f, e, t)
  IN IF e < f THEN r = T
     ELSE IF e - f + 1 > MAXINTEGER \/ t + e - f > MAXINTEGER THEN r = Error
     ELSE \A k \in DOMAIN T : r[k] = IF k \in t..(t + e - f) THEN T[k - t + f] ELSE T[k]
Shifts(T, size, pos, v, nil) ==
  LET list == [k \in 1..size |-> T[k]]
      r == tinsert(T, size, pos, v)
      s == tremove(T, size, pos, nil)
  IN /\ IF pos \in 1..(size + 1) THEN [k \in 1..(size + 1) |-> r[k]] = InsertAt(list, pos, v) ELSE r = Error
     /\ pos \in 1..size => /\ s[1] = T[pos] /\ s[2][size] = nil
                           /\ [k \in 1..(size - 1) |-> s[2][k]] = RemoveAt(list, pos)
     /\ pos \notin 1..(size + 1) /\ pos # size => s = Error
Lists(T, i, e, nil) ==
  /\ LET r == unpack(T, i, e, MAXINTEGER)
     IN IF e - i >= MAXINTEGER THEN r = Error ELSE r # Error /\ Len(r) = Cardinality(i..e)
  /\ LET r == tconcat(T, -99, i, e, nil)
     IN IF \E k \in i..e : T[k] = nil THEN r = Error
        ELSE SelectSeq(r, LAMBDA x : x # -99) = unpack(T, i, e, 3 * MAXINTEGER)
=============================================================================
