------------------------------ MODULE Patterns ------------------------------
(* What patterns mean (string.find, gmatch and gsub of the manual). A        *)
(* pattern is a sequence of items; the ways in which it matches at a         *)
(* position are listed in the order of preference, and the first one is the  *)
(* match. An item has the text that it is written as.                        *)
EXTENDS Integers, Sequences, SequencesExt, FiniteSetsExt, FiniteSets

Chars(set, text, repeat) == [kind |-> "chars", set |-> set, text |-> text, repeat |-> repeat]
Open == [kind |-> "open", text |-> "("]
Close == [kind |-> "close", text |-> ")"]
Here == [kind |-> "here", text |-> "()"]
Again(n, text) == [kind |-> "again", n |-> n, text |-> text]
Balance(b, e, text) == [kind |-> "balance", b |-> b, e |-> e, text |-> text]
Frontier(set, text) == [kind |-> "frontier", set |-> set, text |-> text]
End == [kind |-> "end", text |-> "$"]

Text(items) == FoldLeft(LAMBDA str, item : str \o item.text, "", items)

\* Captures are opened and closed in pairs, the items that need one have it, and the end
\* is the last item.
OpenAt(items, k) == SelectSeq(SubSeq(items, 1, k - 1), LAMBDA x : x.kind \in {"open", "here"})
Depth(items, k) == Len(SelectSeq(SubSeq(items, 1, k), LAMBDA x : x = Open))
                   - Len(SelectSeq(SubSeq(items, 1, k), LAMBDA x : x = Close))
Proper(items) ==
  /\ \A k \in DOMAIN items : Depth(items, k) >= 0
  /\ Depth(items, Len(items)) = 0
  /\ \A k \in DOMAIN items : /\ items[k] = End => k = Len(items)
                             /\ items[k].kind = "again"
                                => items[k].n <= Len(OpenAt(items, k)) /\ Depth(items, k) = 0
                             /\ items[k] = Close => items[k - 1] # Open

-----------------------------------------------------------------------------
CharAt(S, i) == IF i \in DOMAIN S THEN S[i] ELSE "NUL"
Run(S, i, set) == Max({n \in 0..(Len(S) + 1 - i) : \A k \in i..(i + n - 1) : S[k] \in set})
\* How often a class may repeat, the most preferred number first.
Counts(n, repeat) ==
  CASE repeat = "one" -> IF n >= 1 THEN <<1>> ELSE <<>>
    [] repeat = "?" -> IF n >= 1 THEN <<1, 0>> ELSE <<0>>
    [] repeat = "*" -> [k \in 1..(n + 1) |-> n + 1 - k]
    [] repeat = "+" -> [k \in 1..n |-> n + 1 - k]
    [] repeat = "-" -> [k \in 1..(n + 1) |-> k - 1]
Count(S, i, j, c) == Cardinality({k \in i..j : S[k] = c})
BalancedEnds(S, i, b, e) ==
  {j \in (i + 1)..Len(S) : CharAt(S, i) = b /\ Count(S, i, j, b) = Count(S, i, j, e)}

Opened(caps, end) == Append(caps, [start |-> 0, end |-> end])
\* The ways to match items from position i on, after the captures caps.
RECURSIVE Ways(_, _, _, _)
Ways(items, S, i, caps) ==
  LET item == Head(items)
      then(j, cs) == Ways(Tail(items), S, j, cs)
      counts == Counts(Run(S, i, item.set), item.repeat)
      inner == Max({k \in DOMAIN caps : caps[k].end = 0})
      old == SubSeq(S, caps[item.n].start, caps[item.n].end - 1)
      ends == BalancedEnds(S, i, item.b, item.e)
  IN IF items = <<>> THEN <<[end |-> i, caps |-> caps]>>
     ELSE CASE item.kind = "chars" -> FlattenSeq([k \in DOMAIN counts |-> then(i + counts[k], caps)])
            [] item.kind = "open" -> then(i, Append(caps, [start |-> i, end |-> 0]))
            [] item.kind = "close" -> then(i, [caps EXCEPT ![inner].end = i])
            [] item.kind = "here" -> then(i, Append(caps, [start |-> i, end |-> -1]))
            [] item.kind = "again" ->
                 IF caps[item.n].end # -1 /\ i + Len(old) <= Len(S) + 1 /\ SubSeq(S, i, i + Len(old) - 1) = old
                 THEN then(i + Len(old), caps) ELSE <<>>
            [] item.kind = "balance" -> IF ends = {} THEN <<>> ELSE then(Min(ends) + 1, caps)
            [] item.kind = "frontier" ->
                 IF CharAt(S, i - 1) \notin item.set /\ CharAt(S, i) \in item.set THEN then(i, caps) ELSE <<>>
            [] item.kind = "end" -> IF i = Len(S) + 1 THEN then(i, caps) ELSE <<>>

Value(S, c) == IF c.end = -1 THEN <<"position", c.start>> ELSE SubSeq(S, c.start, c.end - 1)
Values(S, way) == <<>> \o [k \in DOMAIN way.caps |-> Value(S, way.caps[k])]
ValuesOrAll(S, i, way) == IF way.caps = <<>> THEN <<SubSeq(S, i, way.end - 1)>> ELSE Values(S, way)

-----------------------------------------------------------------------------
\* The first position, not before i, where the items match; 0 when there is none.
FirstPlace(items, S, i, anchor) ==
  LET places == {k \in i..(IF anchor THEN i ELSE Len(S) + 1) : Ways(items, S, k, <<>>) # <<>>}
  IN IF places = {} THEN 0 ELSE Min(places)
Find(items, S, i, anchor) ==
  LET k == FirstPlace(items, S, i, anchor)
      way == Ways(items, S, k, <<>>)[1]
  IN IF k = 0 THEN <<"nil">> ELSE <<k, way.end - 1>> \o Values(S, way)

\* The successive matches: each starts where the last one ended or behind, and an empty
\* match does not follow a match at once.
RECURSIVE Matches(_, _, _, _)
Matches(items, S, i, last) ==
  LET places == {k \in i..(Len(S) + 1) : /\ Ways(items, S, k, <<>>) # <<>>
                                         /\ Ways(items, S, k, <<>>)[1].end # last}
      k == Min(places)
      way == Ways(items, S, k, <<>>)[1]
  IN IF places = {} THEN <<>>
     ELSE <<[from |-> k, way |-> way]>> \o Matches(items, S, way.end, way.end)

\* The subject with its first matches replaced by New of the match.
Replaced(S, matches, New(_)) ==
  LET before(k) == SubSeq(S, IF k = 1 THEN 1 ELSE matches[k - 1].way.end,
                          IF k > Len(matches) THEN Len(S) ELSE matches[k].from - 1)
  IN FlattenSeq([k \in 1..Len(matches) |-> before(k) \o New(matches[k])]) \o before(Len(matches) + 1)
=============================================================================
